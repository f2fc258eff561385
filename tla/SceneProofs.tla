------------------------------ MODULE SceneProofs ------------------------------
(***************************************************************************)
(* Proofs about what the household is told of its scene and what is kept   *)
(* of it: the event pipeline, loitering, bins, mailbox, retention and the  *)
(* vehicle tracks, for every number of events, replicas, looks, incidents, *)
(* visits and cars.                                                        *)
(***************************************************************************)
EXTENDS Pipeline, Loitering, Bins, Retention, Mailbox, VehicleTracks, FiniteSetTheorems,
        NumberLemmas, TLAPS

-------------------------------------------------------------------------------
(* Pipeline                                                                *)

Rows(photos) == [type : {"motion", "person"}, level : {"none", "suspicious"},
                 priority : {"source", "normal", "high", "low"}, photo : photos,
                 clip : {"none", "pending", "unavailable"}]
PhotoStates == {"pending", "captured", "failed"}
Stages == {"new", "persisted", "analyse", "signals", "claim", "insert", "photo", "schedule", "route",
           "clip", "over"}
Readers == {"none", "running", "incident", "event", "dropped"}

PipelineTyped ==
    /\ stage \in [PlEvents -> Stages]
    /\ row \in [PlEvents -> Rows(PhotoStates)]
    /\ told \in [PlEvents -> Rows(PhotoStates \union {"untold"})]
    /\ armedNow \in BOOLEAN /\ armedThen \in [PlEvents -> BOOLEAN]
    /\ inForce \in [PlEvents -> SUBSET BOOLEAN]
    /\ incidentOf \subseteq PlEvents /\ reader \in [PlEvents -> Readers]
    /\ claimed \in PlEvents \union {PlNone} /\ unclaimed \subseteq PlEvents /\ sought \subseteq PlEvents
    /\ plMishaps \in Nat

\* The bus knows the row from the broadcast on, and no alert before it.
Announced == {"schedule", "route", "clip", "over"}
BusFollows ==
    \A e \in PlEvents : IF stage[e] \in Announced THEN told[e] = row[e] ELSE told[e].level = "none"

\* The event's own capture ends with its pipeline.
CapturesEnd == \A e \in PlEvents : stage[e] = "over" => reader[e] # "running"

\* The mode taken is one that was in force, and the mode that is in force counts
\* until it is taken.
ModeWasInForce ==
    \A e \in PlEvents : /\ stage[e] = "persisted" => armedNow \in inForce[e]
                        /\ armedThen[e] => TRUE \in inForce[e]
                        /\ stage[e] \in {"new", "persisted"} => ~armedThen[e]
                        /\ e \in incidentOf => armedThen[e]

\* An event past the claim alerts only as the one that has it, unless its own claim
\* failed, and none alerts before its signals are known.
AlertsHoldTheClaim ==
    \A e \in PlEvents \ unclaimed : row[e].level # "none" =>
        stage[e] \in {"claim", "insert"} \/ (claimed = e /\ stage[e] \in Announced \union {"photo"})
NoAlertYet ==
    \A e \in PlEvents :
        stage[e] \in {"new", "persisted", "analyse", "signals"} => row[e].level = "none"

PipelineInv == PipelineTyped /\ BusFollows /\ CapturesEnd /\ ModeWasInForce /\ AlertsHoldTheClaim
               /\ NoAlertYet

\* A stage that works on one event and takes no mode keeps the invariant, when it
\* keeps it of that event.
LEMMA OneEventMoves ==
    ASSUME PipelineInv, PipelineTyped', NEW e \in PlEvents,
           \A d \in PlEvents : d # e => /\ stage'[d] = stage[d] /\ row'[d] = row[d] /\ told'[d] = told[d]
                                        /\ reader'[d] = reader[d] /\ (d \in incidentOf' => d \in incidentOf),
           unclaimed' \in {unclaimed, unclaimed \union {e}},
           armedThen' = armedThen, inForce' = inForce,
           claimed' = claimed \/ claimed = PlNone,
           IF stage'[e] \in Announced THEN told'[e] = row'[e] ELSE told'[e].level = "none",
           stage'[e] = "over" => reader'[e] # "running",
           stage'[e] \notin {"new", "persisted"},
           e \in incidentOf' => armedThen[e],
           e \notin unclaimed' /\ row'[e].level # "none" =>
               stage'[e] \in {"claim", "insert"} \/ (claimed' = e /\ stage'[e] \in Announced \union {"photo"}),
           stage'[e] \in {"analyse", "signals"} => row'[e].level = "none",
           armedNow' = armedNow
    PROVE  PipelineInv'
<1>1. BusFollows'
    BY DEF PipelineInv, BusFollows
<1>2. CapturesEnd'
    BY DEF PipelineInv, CapturesEnd
<1>3. ModeWasInForce'
    BY DEF PipelineInv, ModeWasInForce
<1>4. AlertsHoldTheClaim'
    <2> SUFFICES ASSUME NEW d \in PlEvents, d \notin unclaimed', row'[d].level # "none"
                 PROVE  \/ stage'[d] \in {"claim", "insert"}
                        \/ claimed' = d /\ stage'[d] \in Announced \union {"photo"}
        BY DEF AlertsHoldTheClaim
    <2>1. CASE d = e
        BY <2>1
    <2>2. CASE d # e
        <3>1. \/ stage[d] \in {"claim", "insert"}
              \/ claimed = d /\ stage[d] \in Announced \union {"photo"}
            BY <2>2 DEF PipelineInv, AlertsHoldTheClaim
        <3>2. claimed = d => claimed' = d
            BY PipelineAssumption
        <3>3. QED
            BY <2>2, <3>1, <3>2
    <2>3. QED
        BY <2>1, <2>2
<1>5. NoAlertYet'
    BY DEF PipelineInv, NoAlertYet
<1>6. QED
    BY <1>1, <1>2, <1>3, <1>4, <1>5 DEF PipelineInv

\* The stage moves as the guard says.
LEMMA Moves ==
    ASSUME PipelineInv, NEW e \in PlEvents, NEW from, NEW to \in Stages, Goes(e, from, to)
    PROVE  /\ stage[e] = from /\ stage' \in [PlEvents -> Stages] /\ stage'[e] = to
           /\ \A d \in PlEvents : d # e => stage'[d] = stage[d]
BY DEF Goes, PipelineInv, PipelineTyped

LEMMA MishapCounted ==
    ASSUME PipelineInv, Fails PROVE plMishaps' \in Nat /\ plMishaps' # plMishaps
BY PipelineAssumption DEF Fails, PipelineInv, PipelineTyped

LEMMA PersistKeeps ==
    ASSUME PipelineInv, NEW e \in PlEvents, Persist(e)
    PROVE  PipelineInv'
<1>1. /\ stage[e] = "new" /\ stage' \in [PlEvents -> Stages] /\ stage'[e] = "persisted"
      /\ \A d \in PlEvents : d # e => stage'[d] = stage[d]
    BY Moves DEF Persist, Stages
<1>2. /\ inForce' = [inForce EXCEPT ![e] = {armedNow}] /\ reader' \in [PlEvents -> Readers]
      /\ UNCHANGED <<row, told, armedNow, armedThen, incidentOf, claimed, unclaimed, sought, plMishaps>>
    BY DEF Persist, PipelineInv, PipelineTyped, Readers
<1>3. inForce' \in [PlEvents -> SUBSET BOOLEAN] /\ inForce'[e] = {armedNow}
      /\ \A d \in PlEvents : d # e => inForce'[d] = inForce[d]
    BY <1>2 DEF PipelineInv, PipelineTyped
<1>4. PipelineTyped'
    BY <1>1, <1>2, <1>3 DEF PipelineInv, PipelineTyped
<1>5. BusFollows'
    BY <1>1, <1>2 DEF PipelineInv, BusFollows, Announced
<1>6. CapturesEnd'
    <2>1. \A d \in PlEvents : d # e => reader'[d] = reader[d]
        BY DEF Persist, PipelineInv, PipelineTyped
    <2>2. QED
        BY <1>1, <2>1 DEF PipelineInv, CapturesEnd
<1>7. ModeWasInForce'
    BY <1>1, <1>2, <1>3 DEF PipelineInv, ModeWasInForce
<1>8. AlertsHoldTheClaim' /\ NoAlertYet'
    BY <1>1, <1>2 DEF PipelineInv, AlertsHoldTheClaim, NoAlertYet, Announced
<1>9. QED
    BY <1>4, <1>5, <1>6, <1>7, <1>8 DEF PipelineInv

LEMMA TakeModeKeeps ==
    ASSUME PipelineInv, NEW e \in PlEvents, TakeMode(e)
    PROVE  PipelineInv'
<1>1. /\ stage[e] = "persisted" /\ stage' \in [PlEvents -> Stages] /\ stage'[e] = "analyse"
      /\ \A d \in PlEvents : d # e => stage'[d] = stage[d]
    BY Moves DEF TakeMode, Stages
<1>2. /\ armedThen' = [armedThen EXCEPT ![e] = armedNow]
      /\ UNCHANGED <<row, told, armedNow, inForce, incidentOf, reader, claimed, unclaimed, sought, plMishaps>>
    BY DEF TakeMode
<1>3. armedThen' \in [PlEvents -> BOOLEAN] /\ armedThen'[e] = armedNow
      /\ \A d \in PlEvents : d # e => armedThen'[d] = armedThen[d]
    BY <1>2 DEF PipelineInv, PipelineTyped
<1>4. PipelineTyped'
    BY <1>1, <1>2, <1>3 DEF PipelineInv, PipelineTyped
<1>5. BusFollows' /\ CapturesEnd' /\ AlertsHoldTheClaim' /\ NoAlertYet'
    BY <1>1, <1>2 DEF PipelineInv, BusFollows, CapturesEnd, AlertsHoldTheClaim, NoAlertYet, Announced
<1>6. ModeWasInForce'
    <2>1. armedNow \in inForce[e] /\ e \notin incidentOf /\ armedNow \in BOOLEAN
        BY <1>1 DEF PipelineInv, ModeWasInForce, PipelineTyped
    <2>2. armedNow => armedNow = TRUE
        BY <2>1
    <2>3. QED
        BY <1>1, <1>2, <1>3, <2>1, <2>2 DEF PipelineInv, ModeWasInForce
<1>7. QED
    BY <1>4, <1>5, <1>6 DEF PipelineInv

LEMMA SetsModeKeeps ==
    ASSUME PipelineInv, SetsMode
    PROVE  PipelineInv'
<1>1. /\ armedNow' = ~armedNow
      /\ inForce' = [d \in PlEvents |->
             IF stage[d] = "persisted" THEN inForce[d] \union {~armedNow} ELSE inForce[d]]
      /\ UNCHANGED <<stage, row, told, armedThen, incidentOf, reader, claimed, unclaimed, sought, plMishaps>>
    BY DEF SetsMode
<1>2. armedNow' \in BOOLEAN /\ inForce' \in [PlEvents -> SUBSET BOOLEAN]
    BY <1>1 DEF PipelineInv, PipelineTyped
<1>3. PipelineTyped'
    BY <1>1, <1>2 DEF PipelineInv, PipelineTyped
<1>4. BusFollows' /\ CapturesEnd' /\ AlertsHoldTheClaim' /\ NoAlertYet'
    BY <1>1 DEF PipelineInv, BusFollows, CapturesEnd, AlertsHoldTheClaim, NoAlertYet
<1>5. \A d \in PlEvents : /\ inForce[d] \subseteq inForce'[d]
                          /\ stage[d] = "persisted" => armedNow' \in inForce'[d]
    BY <1>1
<1>6. ModeWasInForce'
    BY <1>1, <1>5 DEF PipelineInv, ModeWasInForce
<1>7. QED
    BY <1>3, <1>4, <1>6 DEF PipelineInv

LEMMA EnrichKeeps ==
    ASSUME PipelineInv, NEW e \in PlEvents, Enrich(e)
    PROVE  PipelineInv'
<1>1. /\ stage[e] = "analyse" /\ stage' \in [PlEvents -> Stages] /\ stage'[e] = "signals"
      /\ \A d \in PlEvents : d # e => stage'[d] = stage[d]
    BY Moves DEF Enrich, Stages
<1>2. UNCHANGED <<told, armedNow, armedThen, inForce, incidentOf, reader, claimed, unclaimed, sought>>
    BY DEF Enrich
<1>3. row[e] \in Rows(PhotoStates) /\ row[e].level = "none" /\ told[e].level = "none"
    BY <1>1 DEF PipelineInv, PipelineTyped, NoAlertYet, BusFollows, Announced
<1>4. /\ row' \in [PlEvents -> Rows(PhotoStates)] /\ row'[e].level = "none"
      /\ \A d \in PlEvents : d # e => row'[d] = row[d]
      /\ plMishaps' \in Nat
    <2>1. CASE Fails /\ UNCHANGED row
        BY <1>3, <2>1, MishapCounted DEF PipelineInv, PipelineTyped
    <2>2. CASE /\ UNCHANGED plMishaps
               /\ \E r \in Classified(row[e]) : \E s \in Photographed(r) : row' = [row EXCEPT ![e] = s]
        <3>1. PICK r \in Classified(row[e]) : \E s \in Photographed(r) : row' = [row EXCEPT ![e] = s]
            BY <2>2
        <3>2. r \in Rows(PhotoStates) /\ r.level = "none"
            BY <1>3 DEF Classified, Rows
        <3>3. PICK s \in Photographed(r) : row' = [row EXCEPT ![e] = s]
            BY <3>1
        <3>4. s \in Rows(PhotoStates) /\ s.level = "none"
            BY <3>2 DEF Photographed, Rows, PhotoStates
        <3>5. QED
            BY <2>2, <3>3, <3>4 DEF PipelineInv, PipelineTyped
    <2>3. QED
        BY <2>1, <2>2 DEF Enrich
<1>5. PipelineTyped'
    BY <1>1, <1>2, <1>4 DEF PipelineInv, PipelineTyped
<1>6. QED
    BY <1>1, <1>2, <1>3, <1>4, <1>5, OneEventMoves DEF PipelineInv, ModeWasInForce, Announced

LEMMA ApplySignalsKeeps ==
    ASSUME PipelineInv, NEW e \in PlEvents, ApplySignals(e)
    PROVE  PipelineInv'
<1>1. UNCHANGED <<told, armedNow, armedThen, inForce, incidentOf, reader, claimed, unclaimed, sought>>
    BY DEF ApplySignals
<1>2. row[e] \in Rows(PhotoStates)
    BY DEF PipelineInv, PipelineTyped
<1>3. /\ row' \in [PlEvents -> Rows(PhotoStates)]
      /\ \A d \in PlEvents : d # e => row'[d] = row[d]
      /\ plMishaps' \in Nat
      /\ stage[e] = "signals" /\ stage' \in [PlEvents -> Stages]
      /\ \A d \in PlEvents : d # e => stage'[d] = stage[d]
      /\ \/ stage'[e] = "claim"
         \/ stage'[e] = "photo" /\ row'[e].level = "none"
    <2>1. CASE Fails /\ UNCHANGED row /\ Goes(e, "signals", "photo")
        <3>1. /\ stage[e] = "signals" /\ stage' \in [PlEvents -> Stages] /\ stage'[e] = "photo"
              /\ \A d \in PlEvents : d # e => stage'[d] = stage[d]
            BY <2>1, Moves DEF Stages
        <3>2. QED
            BY <2>1, <3>1, MishapCounted DEF PipelineInv, PipelineTyped, NoAlertYet
    <2>2. CASE /\ UNCHANGED plMishaps
               /\ \E level \in IF row[e].type = "person" THEN {"none", "suspicious"} ELSE {"none"} :
                    /\ row' = [row EXCEPT ![e].level = level,
                                  ![e].priority = IF level = "none" THEN "normal" ELSE "high"]
                    /\ Goes(e, "signals", IF level = "none" THEN "photo" ELSE "claim")
        <3>1. PICK level \in {"none", "suspicious"} :
                    /\ row' = [row EXCEPT ![e].level = level,
                                  ![e].priority = IF level = "none" THEN "normal" ELSE "high"]
                    /\ Goes(e, "signals", IF level = "none" THEN "photo" ELSE "claim")
            BY <2>2
        <3> DEFINE p == IF level = "none" THEN "normal" ELSE "high"
                   r == [row[e] EXCEPT !.level = level, !.priority = p]
                   to == IF level = "none" THEN "photo" ELSE "claim"
        <3>2. r \in Rows(PhotoStates) /\ r.level = level
            BY <1>2 DEF Rows
        <3>3. row' = [row EXCEPT ![e] = r]
            BY <3>1 DEF PipelineInv, PipelineTyped
        <3>4. to \in Stages /\ Goes(e, "signals", to)
            BY <3>1 DEF Stages
        <3>5. /\ stage[e] = "signals" /\ stage' \in [PlEvents -> Stages] /\ stage'[e] = to
              /\ \A d \in PlEvents : d # e => stage'[d] = stage[d]
            BY <3>4, Moves
        <3>6. /\ row' \in [PlEvents -> Rows(PhotoStates)] /\ row'[e].level = level
              /\ \A d \in PlEvents : d # e => row'[d] = row[d]
            <4> HIDE DEF r
            <4>1. QED
                BY <3>2, <3>3 DEF PipelineInv, PipelineTyped
        <3>7. plMishaps' = plMishaps /\ plMishaps \in Nat
            BY <2>2 DEF PipelineInv, PipelineTyped
        <3>8. QED
            BY <3>5, <3>6, <3>7
    <2>3. QED
        BY <2>1, <2>2 DEF ApplySignals
<1>4. PipelineTyped'
    BY <1>1, <1>3 DEF PipelineInv, PipelineTyped
<1>5. told[e].level = "none"
    BY <1>3 DEF PipelineInv, BusFollows, Announced
<1>6. QED
    BY <1>1, <1>3, <1>4, <1>5, OneEventMoves DEF PipelineInv, ModeWasInForce, Announced

LEMMA ClaimFreeKeeps ==
    ASSUME PipelineInv, NEW e \in PlEvents, ClaimFree(e)
    PROVE  PipelineInv'
<1>1. /\ stage[e] = "claim" /\ stage' \in [PlEvents -> Stages] /\ stage'[e] = "insert"
      /\ \A d \in PlEvents : d # e => stage'[d] = stage[d]
    BY Moves DEF ClaimFree, Stages
<1>2. UNCHANGED <<row, told, armedNow, armedThen, inForce, incidentOf, reader, claimed, unclaimed, sought, plMishaps>>
    BY DEF ClaimFree
<1>3. PipelineTyped'
    BY <1>1, <1>2 DEF PipelineInv, PipelineTyped
<1>4. told[e].level = "none"
    BY <1>1 DEF PipelineInv, BusFollows, Announced
<1>5. QED
    BY <1>1, <1>2, <1>3, <1>4, OneEventMoves DEF PipelineInv, ModeWasInForce, Announced

\* Whoever comes through the claim with its alert has the claim, or the claim failed.
LEMMA ClaimKeeps ==
    ASSUME PipelineInv, NEW e \in PlEvents, Claim(e)
    PROVE  PipelineInv'
<1>1. /\ UNCHANGED <<told, armedNow, armedThen, inForce, incidentOf, reader, sought>>
      /\ unclaimed' = IF plMishaps' = plMishaps THEN unclaimed ELSE unclaimed \union {e}
    BY DEF Claim
<1>2. row[e] \in Rows(PhotoStates) /\ Demoted(row[e]) \in Rows(PhotoStates)
      /\ Demoted(row[e]).level = "none"
    <2>1. row[e] \in Rows(PhotoStates)
        BY DEF PipelineInv, PipelineTyped
    <2>2. QED
        BY <2>1 DEF Rows, Demoted
<1>3. /\ stage[e] \in {"claim", "insert"} /\ stage' \in [PlEvents -> Stages] /\ stage'[e] = "photo"
      /\ \A d \in PlEvents : d # e => stage'[d] = stage[d]
    <2>1. Goes(e, "insert", "photo") \/ Goes(e, "claim", "photo")
        BY DEF Claim
    <2>2. QED
        BY <2>1, Moves DEF Stages
<1>4. /\ row' \in [PlEvents -> Rows(PhotoStates)]
      /\ \A d \in PlEvents : d # e => row'[d] = row[d]
      /\ plMishaps' \in Nat
      /\ claimed' \in PlEvents \union {PlNone} /\ (claimed' = claimed \/ claimed = PlNone)
      /\ e \notin unclaimed' /\ row'[e].level # "none" => claimed' = e
    <2>0. /\ row \in [PlEvents -> Rows(PhotoStates)] /\ claimed \in PlEvents \union {PlNone}
          /\ plMishaps \in Nat
        BY DEF PipelineInv, PipelineTyped
    <2>1. CASE Fails /\ UNCHANGED <<row, claimed>>
        BY <1>1, <2>0, <2>1, MishapCounted
    <2>2. CASE row' = [row EXCEPT ![e] = Demoted(@)] /\ UNCHANGED <<claimed, plMishaps>>
        BY <1>2, <2>0, <2>2
    <2>3. CASE claimed = PlNone /\ claimed' = e /\ UNCHANGED <<row, plMishaps>>
        BY <2>0, <2>3
    <2>4. QED
        BY <2>1, <2>2, <2>3 DEF Claim, InsertsClaim
<1>5. PipelineTyped'
    BY <1>1, <1>3, <1>4 DEF PipelineInv, PipelineTyped
<1>6. told[e].level = "none"
    BY <1>3 DEF PipelineInv, BusFollows, Announced
<1>7. QED
    BY <1>1, <1>3, <1>4, <1>5, <1>6, OneEventMoves DEF PipelineInv, ModeWasInForce, Announced

\* An event past the claim alerts as the one that has it.
LEMMA PastTheClaim ==
    ASSUME PipelineInv, NEW e \in PlEvents, stage[e] \in Announced \union {"photo"},
           e \notin unclaimed, row[e].level # "none"
    PROVE  claimed = e
BY DEF PipelineInv, AlertsHoldTheClaim, Announced

LEMMA BroadcastKeeps ==
    ASSUME PipelineInv, NEW e \in PlEvents, Broadcast(e)
    PROVE  PipelineInv'
<1>1. /\ stage[e] = "photo" /\ stage' \in [PlEvents -> Stages] /\ stage'[e] = "schedule"
      /\ \A d \in PlEvents : d # e => stage'[d] = stage[d]
    BY Moves DEF Broadcast, Stages
<1>2. /\ told' = [told EXCEPT ![e] = row'[e]]
      /\ UNCHANGED <<armedNow, armedThen, inForce, incidentOf, reader, claimed, unclaimed, sought, plMishaps>>
    BY DEF Broadcast, Tell
<1>3. PICK r \in StoreFallback(row[e]) : row' = [row EXCEPT ![e] = r]
    BY DEF Broadcast
<1>4. r \in Rows(PhotoStates) /\ r \in Rows(PhotoStates \union {"untold"}) /\ r.level = row[e].level
    <2>1. row[e] \in Rows(PhotoStates)
        BY DEF PipelineInv, PipelineTyped
    <2>2. QED
        BY <2>1 DEF StoreFallback, Rows, PhotoStates
<1>5. /\ row' \in [PlEvents -> Rows(PhotoStates)] /\ row'[e] = r /\ told'[e] = r
      /\ told' \in [PlEvents -> Rows(PhotoStates \union {"untold"})]
      /\ \A d \in PlEvents : d # e => row'[d] = row[d] /\ told'[d] = told[d]
    BY <1>2, <1>3, <1>4 DEF PipelineInv, PipelineTyped
<1>6. PipelineTyped'
    BY <1>1, <1>2, <1>5 DEF PipelineInv, PipelineTyped
<1>7. e \notin unclaimed /\ row[e].level # "none" => claimed = e
    BY <1>1, PastTheClaim
<1>8. QED
    BY <1>1, <1>2, <1>4, <1>5, <1>6, <1>7, OneEventMoves DEF PipelineInv, ModeWasInForce, Announced

LEMMA ScheduleKeeps ==
    ASSUME PipelineInv, NEW e \in PlEvents, Schedule(e)
    PROVE  PipelineInv'
<1>1. /\ stage[e] = "schedule" /\ stage' \in [PlEvents -> Stages] /\ stage'[e] = "route"
      /\ \A d \in PlEvents : d # e => stage'[d] = stage[d]
    BY Moves DEF Schedule, Stages
<1>2. UNCHANGED <<armedNow, armedThen, inForce, incidentOf, reader, claimed, unclaimed, plMishaps>>
    BY DEF Schedule
<1>3. row[e] \in Rows(PhotoStates) /\ told[e] = row[e]
    BY <1>1 DEF PipelineInv, PipelineTyped, BusFollows, Announced
<1>4. /\ row' \in [PlEvents -> Rows(PhotoStates)] /\ row'[e].level = row[e].level /\ told'[e] = row'[e]
      /\ told' \in [PlEvents -> Rows(PhotoStates \union {"untold"})]
      /\ \A d \in PlEvents : d # e => row'[d] = row[d] /\ told'[d] = told[d]
      /\ sought' \subseteq PlEvents
    <2> DEFINE r == [row[e] EXCEPT !.photo = "failed"]
    <2>1. r \in Rows(PhotoStates) /\ r \in Rows(PhotoStates \union {"untold"}) /\ r.level = row[e].level
        BY <1>3 DEF Rows, PhotoStates
    <2>2. CASE row' = [row EXCEPT ![e].photo = "failed"] /\ Tell(e, row'[e]) /\ UNCHANGED sought
        <3>1. row' = [row EXCEPT ![e] = r] /\ told' = [told EXCEPT ![e] = row'[e]]
            BY <2>2 DEF PipelineInv, PipelineTyped, Tell
        <3> HIDE DEF r
        <3>2. QED
            BY <2>1, <2>2, <3>1 DEF PipelineInv, PipelineTyped
    <2>3. CASE sought' \subseteq sought \union {e} /\ UNCHANGED <<row, told>>
        BY <1>3, <2>3 DEF PipelineInv, PipelineTyped
    <2>4. QED
        BY <2>2, <2>3 DEF Schedule, Schedules
<1>5. PipelineTyped'
    BY <1>1, <1>2, <1>4 DEF PipelineInv, PipelineTyped
<1>6. e \notin unclaimed /\ row[e].level # "none" => claimed = e
    BY <1>1, PastTheClaim DEF Announced
<1>7. QED
    BY <1>1, <1>2, <1>4, <1>5, <1>6, OneEventMoves DEF PipelineInv, ModeWasInForce, Announced

\* A clip state in the row, told at once.
LEMMA ClipIsTold ==
    ASSUME PipelineInv, NEW e \in PlEvents, NEW clip1 \in {"pending", "unavailable"},
           row' = [row EXCEPT ![e].clip = clip1], Tell(e, row'[e])
    PROVE  /\ row' \in [PlEvents -> Rows(PhotoStates)] /\ row'[e].level = row[e].level
           /\ told'[e] = row'[e] /\ told' \in [PlEvents -> Rows(PhotoStates \union {"untold"})]
           /\ \A d \in PlEvents : d # e => row'[d] = row[d] /\ told'[d] = told[d]
<1> DEFINE r == [row[e] EXCEPT !.clip = clip1]
<1>1. row[e] \in Rows(PhotoStates)
    BY DEF PipelineInv, PipelineTyped
<1>2. r \in Rows(PhotoStates) /\ r \in Rows(PhotoStates \union {"untold"}) /\ r.level = row[e].level
    BY <1>1 DEF Rows
<1>3. row' = [row EXCEPT ![e] = r] /\ told' = [told EXCEPT ![e] = row'[e]]
    BY DEF PipelineInv, PipelineTyped, Tell
<1> HIDE DEF r
<1>4. QED
    BY <1>2, <1>3 DEF PipelineInv, PipelineTyped

LEMMA RouteKeeps ==
    ASSUME PipelineInv, NEW e \in PlEvents, RouteEvent(e)
    PROVE  PipelineInv'
<1>1. UNCHANGED <<armedNow, armedThen, inForce, claimed, unclaimed, sought>>
    BY DEF RouteEvent
<1>2. /\ stage[e] = "route" /\ stage' \in [PlEvents -> Stages] /\ stage'[e] \in {"clip", "over"}
      /\ \A d \in PlEvents : d # e => stage'[d] = stage[d]
    <2>1. Goes(e, "route", "clip") \/ Goes(e, "route", "over")
        BY DEF RouteEvent, Route1, RouteFails1
    <2>2. QED
        BY <2>1, Moves DEF Stages
<1>3. /\ incidentOf' \subseteq incidentOf \union {e}
      /\ e \in incidentOf' => armedThen[e]
      /\ plMishaps' \in Nat
    BY <1>2, MishapCounted DEF RouteEvent, Route1, RouteFails1, AlertWorthy, PipelineInv, PipelineTyped,
                               ModeWasInForce
<1>4. told[e] = row[e] /\ (e \notin unclaimed /\ row[e].level # "none" => claimed = e)
    BY <1>2, PastTheClaim DEF PipelineInv, BusFollows, Announced
<1>5. /\ row' \in [PlEvents -> Rows(PhotoStates)] /\ row'[e].level = row[e].level
      /\ told'[e] = row'[e] /\ told' \in [PlEvents -> Rows(PhotoStates \union {"untold"})]
      /\ \A d \in PlEvents : d # e => row'[d] = row[d] /\ told'[d] = told[d]
    <2>1. CASE row' = [row EXCEPT ![e].clip = "pending"] /\ Tell(e, row'[e])
        BY <2>1, ClipIsTold
    <2>2. CASE UNCHANGED <<row, told>>
        BY <1>4, <2>2 DEF PipelineInv, PipelineTyped
    <2>3. QED
        BY <2>1, <2>2 DEF RouteEvent, Route1, RouteFails1
<1>6. /\ reader' \in [PlEvents -> Readers] /\ (stage'[e] = "over" => reader'[e] # "running")
      /\ \A d \in PlEvents : d # e => reader'[d] = reader[d]
    <2>0. reader \in [PlEvents -> Readers]
        BY DEF PipelineInv, PipelineTyped
    <2>1. CASE reader' = [reader EXCEPT ![e] = "incident"]
        BY <2>0, <2>1 DEF Readers
    <2>2. CASE Goes(e, "route", "clip") /\ UNCHANGED reader
        <3>1. stage'[e] = "clip"
            BY <2>2, Moves DEF Stages
        <3>2. QED
            BY <2>0, <2>2, <3>1
    <2>3. QED
        BY <2>1, <2>2 DEF RouteEvent, Route1, RouteFails1
<1>7. PipelineTyped'
    BY <1>1, <1>2, <1>3, <1>5, <1>6 DEF PipelineInv, PipelineTyped
<1>8. QED
    BY <1>1, <1>2, <1>3, <1>4, <1>5, <1>6, <1>7, OneEventMoves DEF Announced

LEMMA AttachKeepsOrder ==
    ASSUME PipelineInv, NEW e \in PlEvents, Attach(e)
    PROVE  PipelineInv'
<1>1. UNCHANGED <<armedNow, armedThen, inForce, incidentOf, claimed, unclaimed, sought>>
    BY DEF Attach
<1>2. /\ stage[e] = "clip" /\ stage' \in [PlEvents -> Stages] /\ stage'[e] = "over"
      /\ \A d \in PlEvents : d # e => stage'[d] = stage[d]
    BY Moves DEF Attach, Stages
<1>3. plMishaps' \in Nat
    BY MishapCounted DEF Attach, PipelineInv, PipelineTyped
<1>4. /\ told[e] = row[e] /\ (e \notin unclaimed /\ row[e].level # "none" => claimed = e)
      /\ (e \in incidentOf => armedThen[e])
    BY <1>2, PastTheClaim DEF PipelineInv, BusFollows, ModeWasInForce, Announced
<1>5. /\ row' \in [PlEvents -> Rows(PhotoStates)] /\ row'[e].level = row[e].level
      /\ told'[e] = row'[e] /\ told' \in [PlEvents -> Rows(PhotoStates \union {"untold"})]
      /\ \A d \in PlEvents : d # e => row'[d] = row[d] /\ told'[d] = told[d]
    <2>1. ASSUME NEW clip1 \in {"pending", "unavailable"}, row' = [row EXCEPT ![e].clip = clip1],
                 Tell(e, row'[e])
          PROVE  <1>5!:
        BY <2>1, ClipIsTold
    <2>2. CASE UNCHANGED <<row, told>>
        BY <1>4, <2>2 DEF PipelineInv, PipelineTyped
    <2>3. QED
        BY <2>1, <2>2 DEF Attach
<1>6. /\ reader' \in [PlEvents -> Readers] /\ reader'[e] # "running"
      /\ \A d \in PlEvents : d # e => reader'[d] = reader[d]
    <2>1. reader \in [PlEvents -> Readers]
        BY DEF PipelineInv, PipelineTyped
    <2>2. \E r \in {Discarded(reader[e]), IF reader[e] = "running" THEN "event" ELSE reader[e]} :
             reader' = [reader EXCEPT ![e] = r]
        BY <2>1 DEF Attach
    <2>3. QED
        BY <2>1, <2>2 DEF Discarded, Readers
<1>7. PipelineTyped'
    BY <1>1, <1>2, <1>3, <1>5, <1>6 DEF PipelineInv, PipelineTyped
<1>8. QED
    BY <1>1, <1>2, <1>3, <1>4, <1>5, <1>6, <1>7, OneEventMoves DEF Announced

\* The stages owe each other no more than they deliver: the bus is told the row, no
\* capture is left over, incidents go by the mode of the detection, and one
\* appearance alerts once (create_and_broadcast_event).
THEOREM PipelineDeliversThroughout == PlSpec => []PipelineDelivers
<1>1. PlInit => PipelineInv
    <2> SUFFICES ASSUME PlInit PROVE PipelineInv
        OBVIOUS
    <2>1. NewRow \in Rows(PhotoStates) /\ NewRow.level = "none"
          /\ Untold \in Rows(PhotoStates \union {"untold"}) /\ Untold.level = "none"
        BY DEF NewRow, Untold, Rows, PhotoStates
    <2>2. PipelineTyped
        BY <2>1 DEF PlInit, PipelineTyped, Stages, Readers
    <2>3. BusFollows /\ CapturesEnd /\ ModeWasInForce
        BY <2>1 DEF PlInit, BusFollows, CapturesEnd, ModeWasInForce, Announced
    <2>4. AlertsHoldTheClaim /\ NoAlertYet
        BY <2>1 DEF PlInit, AlertsHoldTheClaim, NoAlertYet
    <2>5. QED
        BY <2>2, <2>3, <2>4 DEF PipelineInv
<1>2. PipelineInv /\ [PlNext]_plVars => PipelineInv'
    <2> SUFFICES ASSUME PipelineInv, [PlNext]_plVars PROVE PipelineInv'
        OBVIOUS
    <2>1. CASE UNCHANGED plVars
        BY <2>1 DEF plVars, PipelineInv, PipelineTyped, BusFollows, CapturesEnd, ModeWasInForce,
                    AlertsHoldTheClaim, NoAlertYet
    <2>2. CASE PlNext
        BY <2>2, SetsModeKeeps, PersistKeeps, TakeModeKeeps, EnrichKeeps, ApplySignalsKeeps, ClaimFreeKeeps,
           ClaimKeeps, BroadcastKeeps, ScheduleKeeps, RouteKeeps, AttachKeepsOrder DEF PlNext
    <2>3. QED
        BY <2>1, <2>2
<1>3. PipelineInv => PipelineDelivers
    <2> SUFFICES ASSUME PipelineInv PROVE PipelineDelivers
        OBVIOUS
    <2>1. LeftInOrder /\ ModeOfDetection
        BY DEF PipelineInv, PipelineTyped, BusFollows, CapturesEnd, ModeWasInForce, Announced, LeftInOrder,
               ModeOfDetection
    <2>2. OneAlertPerFace
        <3> DEFINE A == {e \in PlEvents : told[e].level # "none"} \ unclaimed
        <3>1. A \subseteq {claimed}
            <4> SUFFICES ASSUME NEW e \in PlEvents, told[e].level # "none", e \notin unclaimed PROVE e = claimed
                OBVIOUS
            <4>1. stage[e] \in Announced /\ row[e].level # "none"
                BY DEF PipelineInv, BusFollows
            <4>2. QED
                BY <4>1, PastTheClaim
        <3>2. IsFiniteSet({claimed}) /\ Cardinality({claimed}) = 1
            BY FS_Singleton
        <3> HIDE DEF A
        <3>3. Cardinality(A) <= Cardinality({claimed})
            BY <3>1, <3>2, FS_Subset
        <3>4. QED
            BY <3>2, <3>3 DEF A, OneAlertPerFace
    <2>3. QED
        BY <2>1, <2>2 DEF PipelineDelivers
<1>4. QED
    BY <1>1, <1>2, <1>3, PTL DEF PlSpec

-------------------------------------------------------------------------------
(* Loitering                                                               *)

Presences == [first : Nat, last : Nat, alert : Nat]
Sightings == [at : Nat, row : Presences]

LoiterTyped ==
    /\ presence \in Presences /\ presenceBy \in LoiterReplicas \union {NoVisitor}
    /\ sighting \in [LoiterReplicas -> Sightings]
    /\ clock \in Nat /\ loSightings \in SUBSET Nat
    /\ flagged \in loSightings \union {0} /\ flagged <= clock

\* Who is recording a sighting has the row's lock, so what it read is the row, and
\* it took the time of the sighting after the latest alert was given.
RowIsHeld ==
    \A r \in LoiterReplicas : sighting[r] # NoSighting =>
        /\ presenceBy = r /\ sighting[r].row = presence
        /\ sighting[r].at \in 1..clock /\ flagged - LoiterLate <= sighting[r].at

\* The row describes a stay: of recorded sightings with no gap among them.
RowIsAStay ==
    IF presence.first = 0 THEN flagged = 0 /\ presence.alert = 0
    ELSE /\ {presence.first, presence.last} \subseteq loSightings
         /\ presence.first <= presence.last /\ Unbroken(presence.first, presence.last)

\* The row's alert is the latest one, or the stay began after that one.
AlertIsOfTheStay ==
    IF presence.alert = 0
    THEN flagged = 0 \/ flagged - LoiterLate <= presence.first
    ELSE presence.alert = flagged

LoiterInv == LoiterTyped /\ RowIsHeld /\ RowIsAStay /\ AlertIsOfTheStay /\ LoiteredMeansStayed


\* Unbroken, of any set of sightings.
NoGap(S, from, to) ==
    \A t \in S \ {to} : t \in from..to => \E u \in S : u > t /\ u <= to /\ u - t <= LoiterGap

\* A sighting recorded late leaves no gap where there was none.
LEMMA LateIsNoGap ==
    ASSUME NEW S \in SUBSET Nat, NEW at \in Nat, NEW from \in S, NEW to \in S, NoGap(S, from, to)
    PROVE  NoGap(S \union {at}, from, to)
<1> DEFINE Times == S \union {at}
<1>0. LoiterGap \in Nat
    BY LoiterAssumption
<1>1. SUFFICES ASSUME NEW t \in Times \ {to}, t \in from..to
               PROVE  \E u \in Times : u > t /\ u <= to /\ u - t <= LoiterGap
    BY DEF NoGap
<1>2. CASE t \in S
    BY <1>1, <1>2 DEF NoGap
<1>3. CASE t \notin S
    <2> DEFINE T == {n \in Nat : t - n \in S /\ from <= t - n}
    <2>1. t \in Nat /\ from \in Nat /\ from <= t /\ t - from \in T
        BY <1>1
    <2>2. PICK n \in T : \A m \in T : n <= m
        BY <2>1, LeastNumber
    <2> DEFINE v == t - n
    <2>3. v \in S /\ from <= v /\ v <= t /\ v # t
        BY <1>3, <2>1, <2>2
    <2>4. v \in S \ {to} /\ v \in from..to
        BY <1>1, <2>3
    <2>5. PICK u \in S : u > v /\ u <= to /\ u - v <= LoiterGap
        BY <2>4 DEF NoGap
    <2>6. u > t
        <3> SUFFICES ASSUME u <= t PROVE FALSE
            BY <1>1
        <3>1. t - u \in T /\ t - u < n
            BY <2>1, <2>2, <2>3, <2>5
        <3>2. QED
            BY <2>2, <3>1
    <2>7. u - t <= LoiterGap
        BY <1>0, <1>1, <2>3, <2>5
    <2>8. QED
        BY <2>5, <2>6, <2>7
<1>4. QED
    BY <1>2, <1>3

\* What a sighting makes of the row: a stay that goes on, or one that begins.
LEMMA VisitMade ==
    ASSUME NEW old \in Presences, NEW at \in Nat
    PROVE  /\ Visit(old, at) \in Presences /\ Visit(old, at).last = at
           /\ IF old.first = 0 \/ EndsVisit(old, at)
              THEN Visit(old, at).first = at /\ Visit(old, at).alert = 0
              ELSE Visit(old, at).first = old.first /\ Visit(old, at).alert = old.alert
BY DEF Presences, Visit, NewVisit

LEMMA ReadPresenceKeeps ==
    ASSUME LoiterInv, NEW r \in LoiterReplicas, ReadPresence(r)
    PROVE  LoiterInv'
<1>1. PICK at \in 1..clock : /\ clock - at <= LoiterLate
                             /\ sighting' = [sighting EXCEPT ![r] = [at |-> at, row |-> presence]]
    BY DEF ReadPresence
<1>2. presenceBy = NoVisitor /\ presenceBy' = r /\ UNCHANGED <<presence, clock, loSightings, flagged>>
    BY DEF ReadPresence, PresenceLock
<1> DEFINE s == [at |-> at, row |-> presence]
<1>3. s \in Sightings /\ s.at = at /\ s.row = presence
    BY DEF LoiterInv, LoiterTyped, Sightings
<1>4. sighting' = [sighting EXCEPT ![r] = s]
    BY <1>1
<1> HIDE DEF s
<1>5. LoiterTyped'
    BY <1>2, <1>3, <1>4 DEF LoiterInv, LoiterTyped
<1>6. RowIsHeld'
    <2> SUFFICES ASSUME NEW q \in LoiterReplicas, sighting'[q] # NoSighting
                 PROVE  /\ presenceBy' = q /\ sighting'[q].row = presence
                        /\ sighting'[q].at \in 1..clock /\ flagged - LoiterLate <= sighting'[q].at
        BY <1>2 DEF RowIsHeld
    <2>1. q = r
        <3> SUFFICES ASSUME q # r PROVE FALSE
            OBVIOUS
        <3>1. sighting'[q] = sighting[q]
            BY <1>4 DEF LoiterInv, LoiterTyped
        <3>2. presenceBy = q
            BY <3>1 DEF LoiterInv, RowIsHeld
        <3>3. QED
            BY <1>2, <3>2, LoiterAssumption DEF NoVisitor
    <2>2. sighting'[q] = s
        BY <1>4, <2>1 DEF LoiterInv, LoiterTyped
    <2>3. at \in 1..clock /\ flagged - LoiterLate <= at
        BY <1>1, LoiterAssumption DEF LoiterInv, LoiterTyped
    <2>4. QED
        BY <1>2, <1>3, <2>1, <2>2, <2>3
<1>7. RowIsAStay' /\ AlertIsOfTheStay' /\ LoiteredMeansStayed'
    BY <1>2 DEF LoiterInv, RowIsAStay, AlertIsOfTheStay, LoiteredMeansStayed, Unbroken
<1>8. QED
    BY <1>5, <1>6, <1>7 DEF LoiterInv

\* A sighting of a stay that goes on is no gap away from it, and of one that begins
\* it is all there is.
LEMMA StayGoesOn ==
    ASSUME LoiterInv, NEW at \in Nat, at > 0, loSightings' = loSightings \union {at}
    PROVE  LET now == Visit(presence, at) IN
           /\ now.first \in loSightings' /\ now.first <= at /\ now.first > 0
           /\ NoGap(loSightings', now.first, at)
<1> DEFINE now == Visit(presence, at)
<1>0. presence \in Presences /\ loSightings \subseteq Nat /\ LoiterGap \in Nat
    BY LoiterAssumption DEF LoiterInv, LoiterTyped
<1>1. CASE presence.first = 0 \/ EndsVisit(presence, at)
    <2>1. now.first = at
        BY <1>0, <1>1, VisitMade
    <2>2. NoGap(loSightings', at, at)
        BY <1>0 DEF NoGap
    <2>3. QED
        BY <2>1, <2>2
<1>2. CASE ~(presence.first = 0 \/ EndsVisit(presence, at))
    <2>1. now.first = presence.first /\ presence.first # 0
        BY <1>0, <1>2, VisitMade
    <2>2. at - presence.last <= LoiterGap /\ at >= presence.last
        BY <1>0, <1>2 DEF EndsVisit, Presences
    <2>3. /\ presence.first \in loSightings /\ presence.last \in loSightings
          /\ presence.first <= presence.last /\ NoGap(loSightings, presence.first, presence.last)
        BY <2>1 DEF LoiterInv, RowIsAStay, Unbroken, NoGap
    <2>4. NoGap(loSightings', presence.first, presence.last)
        BY <1>0, <2>3, LateIsNoGap
    <2>5. presence.first \in Nat /\ presence.last \in Nat
        BY <1>0 DEF Presences
    <2> HIDE DEF now
    <2>6. NoGap(loSightings', now.first, at)
        <3> SUFFICES ASSUME NEW t \in loSightings' \ {at}, t \in now.first..at
                     PROVE  \E u \in loSightings' : u > t /\ u <= at /\ u - t <= LoiterGap
            BY DEF NoGap
        <3>0. t \in Nat
            BY <1>0
        <3>1. CASE t < presence.last
            <4>1. PICK u \in loSightings' : u > t /\ u <= presence.last /\ u - t <= LoiterGap
                BY <2>1, <2>4, <2>5, <3>0, <3>1 DEF NoGap
            <4>2. u \in Nat
                BY <1>0
            <4>3. QED
                BY <2>2, <2>5, <4>1, <4>2
        <3>2. CASE t >= presence.last
            BY <1>0, <2>2, <2>5, <3>0, <3>2
        <3>3. QED
            BY <2>5, <3>0, <3>1, <3>2
    <2>7. QED
        BY <2>1, <2>2, <2>3, <2>5, <2>6 DEF now
<1>3. QED
    BY <1>1, <1>2

\* While a replica holds the row no other records anything.
LEMMA OneRecords ==
    ASSUME LoiterInv, NEW r \in LoiterReplicas, sighting[r] # NoSighting
    PROVE  /\ \A q \in LoiterReplicas : q # r => sighting[q] = NoSighting
           /\ sighting[r].row = presence /\ sighting[r].at \in Nat
           /\ sighting[r].at > 0 /\ sighting[r].at <= clock
           /\ flagged - LoiterLate <= sighting[r].at
BY DEF LoiterInv, LoiterTyped, RowIsHeld, Sightings

\* What recording a sighting makes of the row, of the alerts and of the history.
LEMMA SightMade ==
    ASSUME LoiterInv, NEW r \in LoiterReplicas, SightAt(r)
    PROVE  LET at  == sighting[r].at
               now == Visit(presence, at)
           IN  /\ presence' \in Presences /\ presence'.first = now.first /\ presence'.last = at
               /\ loSightings' = loSightings \union {at}
               /\ \/ Loiters(now, at) /\ presence'.alert = at /\ flagged' = at
                  \/ ~Loiters(now, at) /\ presence'.alert = now.alert /\ flagged' = flagged
<1> DEFINE at == sighting[r].at
           now == Visit(presence, at)
           alerted == [now EXCEPT !.alert = at]
<1>1. sighting[r].row = presence /\ at \in Nat /\ presence \in Presences
    BY OneRecords DEF SightAt, LoiterInv, LoiterTyped
<1>2. now \in Presences /\ now.last = at
    BY <1>1, VisitMade
<1>3. alerted \in Presences /\ alerted.first = now.first /\ alerted.last = now.last /\ alerted.alert = at
    <2> HIDE DEF now, at
    <2>1. QED
        BY <1>1, <1>2 DEF Presences
<1>4. /\ loSightings' = loSightings \union {at}
      /\ \/ Loiters(now, at) /\ presence' = alerted /\ flagged' = at
         \/ ~Loiters(now, at) /\ presence' = now /\ flagged' = flagged
    BY <1>1 DEF SightAt
<1> HIDE DEF alerted, now
<1>5. QED
    BY <1>2, <1>3, <1>4 DEF now

\* Every alert is apart from the one before it.
LEMMA AlertIsApart ==
    ASSUME LoiterInv, NEW r \in LoiterReplicas, SightAt(r), flagged # 0,
           Loiters(Visit(presence, sighting[r].at), sighting[r].at)
    PROVE  sighting[r].at - flagged >= LoiterMin(LoiterRepeat, LoiterThreshold - LoiterLate)
<1> DEFINE at == sighting[r].at
           now == Visit(presence, at)
<1>1. /\ at \in Nat /\ flagged - LoiterLate <= at /\ presence \in Presences /\ flagged \in Nat
      /\ LoiterLate \in Nat /\ LoiterThreshold \in Nat /\ LoiterRepeat \in Nat
    BY OneRecords, LoiterAssumption DEF SightAt, LoiterInv, LoiterTyped
<1>2. now \in Presences
    BY <1>1, VisitMade
<1>3. at - now.first >= LoiterThreshold /\ (now.alert = 0 \/ at - now.alert >= LoiterRepeat)
    BY DEF Loiters
<1>4. (now.alert = 0 /\ flagged - LoiterLate <= now.first) \/ now.alert = flagged
    <2>1. CASE presence.first = 0 \/ EndsVisit(presence, at)
        BY <1>1, <2>1, VisitMade
    <2>2. CASE ~(presence.first = 0 \/ EndsVisit(presence, at))
        <3>1. now.first = presence.first /\ now.alert = presence.alert
            BY <1>1, <2>2, VisitMade
        <3>2. QED
            BY <3>1 DEF LoiterInv, AlertIsOfTheStay
    <2>3. QED
        BY <2>1, <2>2
<1>5. now.first \in Nat /\ now.alert \in Nat
    BY <1>2 DEF Presences
<1> HIDE DEF now, at
<1>6. \/ at - flagged >= LoiterRepeat
      \/ at - flagged >= LoiterThreshold - LoiterLate
    BY <1>1, <1>3, <1>4, <1>5
<1>7. QED
    BY <1>1, <1>6 DEF LoiterMin, at

LEMMA SightKeeps ==
    ASSUME LoiterInv, NEW r \in LoiterReplicas, SightAt(r)
    PROVE  LoiterInv'
<1> DEFINE at == sighting[r].at
           now == Visit(presence, at)
<1>1. /\ at \in Nat /\ at > 0 /\ presence \in Presences /\ flagged \in Nat /\ clock \in Nat
      /\ flagged <= clock /\ loSightings \subseteq Nat /\ LoiterLate \in Nat /\ LoiterThreshold \in Nat \ {0}
      /\ at <= clock
    BY OneRecords, LoiterAssumption DEF SightAt, LoiterInv, LoiterTyped
<1>2. /\ presence' \in Presences /\ presence'.first = now.first /\ presence'.last = at
      /\ loSightings' = loSightings \union {at}
      /\ \/ Loiters(now, at) /\ presence'.alert = at /\ flagged' = at
         \/ ~Loiters(now, at) /\ presence'.alert = now.alert /\ flagged' = flagged
    BY SightMade
<1>3. /\ now.first \in loSightings' /\ now.first <= at /\ now.first > 0
      /\ NoGap(loSightings', now.first, at)
    BY <1>1, <1>2, StayGoesOn
<1>4. /\ sighting' = [sighting EXCEPT ![r] = NoSighting] /\ presenceBy' = NoVisitor /\ clock' = clock
      /\ sighting[r] # NoSighting
    BY DEF SightAt
<1>5. NoSighting \in Sightings
    BY DEF NoSighting, NoPresence, Sightings, Presences
<1>6. now \in Presences /\ now.first \in Nat /\ now.alert \in Nat
      /\ (\/ now.first = at /\ now.alert = 0
          \/ now.first = presence.first /\ now.alert = presence.alert)
    BY <1>1, VisitMade DEF Presences
<1> HIDE DEF now, at
<1>7. LoiterTyped'
    BY <1>1, <1>2, <1>4, <1>5 DEF LoiterInv, LoiterTyped
<1>8. RowIsHeld'
    <2>1. \A q \in LoiterReplicas : sighting'[q] = NoSighting
        BY <1>4, OneRecords DEF LoiterInv, LoiterTyped
    <2>2. QED
        BY <2>1 DEF RowIsHeld
<1>9. RowIsAStay'
    BY <1>2, <1>3 DEF RowIsAStay, Unbroken, NoGap
<1>10. AlertIsOfTheStay'
    <2>1. CASE flagged' = at /\ presence'.alert = at
        BY <1>1, <2>1 DEF AlertIsOfTheStay
    <2>2. CASE flagged' = flagged /\ presence'.alert = now.alert
        <3>1. CASE now.first = at /\ now.alert = 0
            <4>1. flagged - LoiterLate <= at
                BY <1>4, OneRecords DEF at
            <4>2. QED
                BY <1>2, <2>2, <3>1, <4>1 DEF AlertIsOfTheStay
        <3>2. CASE now.first = presence.first /\ now.alert = presence.alert
            BY <1>2, <2>2, <3>2 DEF LoiterInv, AlertIsOfTheStay
        <3>3. QED
            BY <1>6, <3>1, <3>2
    <2>3. QED
        BY <1>2, <2>1, <2>2
<1>11. LoiteredMeansStayed'
    <2>1. CASE flagged' = at /\ Loiters(now, at)
        <3>1. at - now.first >= LoiterThreshold
            BY <2>1 DEF Loiters
        <3>2. QED
            BY <1>3, <2>1, <3>1 DEF LoiteredMeansStayed, Unbroken, NoGap
    <2>2. CASE flagged' = flagged
        <3> SUFFICES ASSUME flagged # 0
                     PROVE  \E from \in loSightings' : /\ flagged - from >= LoiterThreshold
                                                       /\ NoGap(loSightings', from, flagged)
            BY <2>2 DEF LoiteredMeansStayed, Unbroken, NoGap
        <3>1. PICK from \in loSightings : flagged - from >= LoiterThreshold /\ NoGap(loSightings, from, flagged)
            BY DEF LoiterInv, LoiteredMeansStayed, Unbroken, NoGap
        <3>2. flagged \in loSightings
            BY DEF LoiterInv, LoiterTyped
        <3>3. QED
            BY <1>1, <1>2, <3>1, <3>2, LateIsNoGap
    <2>3. QED
        BY <1>2, <2>1, <2>2
<1>12. QED
    BY <1>7, <1>8, <1>9, <1>10, <1>11 DEF LoiterInv

LEMMA LostAndTickKeep ==
    ASSUME LoiterInv, LoiterTick \/ \E r \in LoiterReplicas : SightingLost(r)
    PROVE  LoiterInv'
<1>1. UNCHANGED <<presence, loSightings, flagged>>
    BY DEF LoiterTick, SightingLost
<1>2. RowIsAStay' /\ AlertIsOfTheStay' /\ LoiteredMeansStayed'
    BY <1>1 DEF LoiterInv, RowIsAStay, AlertIsOfTheStay, LoiteredMeansStayed, Unbroken
<1>3. CASE LoiterTick
    <2>1. clock' = clock + 1 /\ UNCHANGED <<presenceBy, sighting>> /\ clock \in Nat
        BY <1>3 DEF LoiterTick, LoiterInv, LoiterTyped
    <2>2. LoiterTyped'
        BY <1>1, <2>1 DEF LoiterInv, LoiterTyped
    <2>3. RowIsHeld'
        BY <1>1, <2>1 DEF LoiterInv, LoiterTyped, RowIsHeld, Sightings
    <2>4. QED
        BY <1>2, <2>2, <2>3 DEF LoiterInv
<1>4. ASSUME NEW r \in LoiterReplicas, SightingLost(r) PROVE LoiterInv'
    <2>1. /\ sighting' = [sighting EXCEPT ![r] = NoSighting] /\ presenceBy' = NoVisitor /\ clock' = clock
          /\ sighting[r] # NoSighting
        BY <1>4 DEF SightingLost
    <2>2. NoSighting \in Sightings
        BY DEF NoSighting, NoPresence, Sightings, Presences
    <2>3. LoiterTyped'
        BY <1>1, <2>1, <2>2 DEF LoiterInv, LoiterTyped
    <2>4. \A q \in LoiterReplicas : sighting'[q] = NoSighting
        BY <2>1, OneRecords DEF LoiterInv, LoiterTyped
    <2>5. RowIsHeld'
        BY <2>4 DEF RowIsHeld
    <2>6. QED
        BY <1>2, <2>3, <2>5 DEF LoiterInv
<1>5. QED
    BY <1>3, <1>4

\* An alert means a stay of recorded sightings without a gap, and two alerts are
\* apart, with any number of replicas recording (record_sighting).
THEOREM LoiteringIsOneThroughout == LoiterSpec => LoiteringIsOne
<1>1. LoiterInit => LoiterInv
    BY LoiterAssumption DEF LoiterInit, LoiterInv, LoiterTyped, RowIsHeld, RowIsAStay, AlertIsOfTheStay,
                            LoiteredMeansStayed, NoPresence, NoSighting, Presences, Sightings
<1>2. LoiterInv /\ [LoiterNext]_loiterVars => LoiterInv'
    <2> SUFFICES ASSUME LoiterInv, [LoiterNext]_loiterVars PROVE LoiterInv'
        OBVIOUS
    <2>1. CASE UNCHANGED loiterVars
        BY <2>1 DEF loiterVars, LoiterInv, LoiterTyped, RowIsHeld, RowIsAStay, AlertIsOfTheStay,
                    LoiteredMeansStayed, Unbroken
    <2>2. CASE LoiterNext
        BY <2>2, ReadPresenceKeeps, SightKeeps, LostAndTickKeep DEF LoiterNext
    <2>3. QED
        BY <2>1, <2>2
<1>3. LoiterInv /\ [LoiterNext]_loiterVars
      => [flagged' # flagged /\ flagged # 0 =>
            flagged' - flagged >= LoiterMin(LoiterRepeat, LoiterThreshold - LoiterLate)]_loiterVars
    <2> SUFFICES ASSUME LoiterInv, LoiterNext, flagged' # flagged, flagged # 0
                 PROVE  flagged' - flagged >= LoiterMin(LoiterRepeat, LoiterThreshold - LoiterLate)
        BY DEF loiterVars
    <2>1. PICK r \in LoiterReplicas : SightAt(r)
        BY DEF LoiterNext, LoiterTick, ReadPresence, SightingLost
    <2>2. flagged' = sighting[r].at /\ Loiters(Visit(presence, sighting[r].at), sighting[r].at)
        BY <2>1, SightMade
    <2>3. QED
        BY <2>1, <2>2, AlertIsApart
<1>4. LoiterInv => LoiteredMeansStayed
    BY DEF LoiterInv
<1>5. QED
    BY <1>1, <1>2, <1>3, <1>4, PTL DEF LoiterSpec, LoiteringIsOne, AlertsApart

-------------------------------------------------------------------------------
(* Bins                                                                    *)

BinStates == {"unknown", "present", "absent"}
Shots == [look : Looks, taken : Nat]
Bins == [state : BinStates, baseline : Shots \union {None}, pending : Shots \union {None}, count : Nat,
         stale : BOOLEAN, by : {"nobody", "person", "truck"}, age : Int, placed : Int, emptied : Int]
BinChecks == [look : Looks, shot : Shots, before : BinStates, age : Int]

BinTyped ==
    /\ look \in Looks /\ bin \in Bins /\ binPicture \in Shots \union {None}
    /\ candidate \in BinChecks \union {None} /\ binAnswer \in {"no", "true", "failed"}
    /\ dark \in Nat /\ away \in BOOLEAN

\* Wherever the record, the check under way or the kept picture says that the bin is
\* not there, it was away since it was last announced.
AwayIsKnown ==
    /\ ~Present(look) => away
    /\ bin.state = "absent" => away
    /\ candidate # None => /\ candidate.before = "absent" => away
                           /\ ~Present(candidate.shot.look) => away
    /\ binPicture # None /\ ~Present(binPicture.look) => away

BinInv == BinTyped /\ AwayIsKnown

LEMMA AgedBinKeeps ==
    ASSUME NEW b \in Bins
    PROVE  AgedBin(b) \in Bins /\ AgedBin(b).state = b.state
<1> DEFINE age == IF b.by = "nobody" THEN 0 ELSE BinUpTo(b.age, BinInteraction + BinTimeout + 1)
           placed == BinUpTo(b.placed, BinNever)
           emptied == BinUpTo(b.emptied, BinNever)
<1>1. BinInteraction \in Nat /\ BinTimeout \in Nat /\ BinDedupe \in Nat
    BY BinAssumption
<1>2. age \in Int /\ placed \in Int /\ emptied \in Int
    BY <1>1 DEF Bins, BinUpTo, BinNever
<1>3. AgedBin(b) = [b EXCEPT !.age = age, !.placed = placed, !.emptied = emptied]
    BY DEF AgedBin, Bins
<1> HIDE DEF age, placed, emptied
<1>4. QED
    BY <1>2, <1>3 DEF Bins

LEMMA AfterOutageKeeps ==
    ASSUME NEW b \in Bins
    PROVE  AfterOutage(b) \in Bins /\ AfterOutage(b).state = b.state
BY DEF AfterOutage, Bins

LEMMA InteractionKeeps ==
    ASSUME NEW b \in Bins, NEW who \in {"nobody", "person", "truck"}
    PROVE  Interaction(b, who) \in Bins /\ Interaction(b, who).state = b.state
<1> DEFINE by == IF BinRecent(b) /\ b.by = "truck" THEN b.by ELSE who
<1>1. by \in {"nobody", "person", "truck"}
    BY DEF Bins
<1>2. Interaction(b, who) = (IF who = "nobody" THEN b ELSE [b EXCEPT !.age = 0, !.by = by])
    BY DEF Interaction, Bins
<1> HIDE DEF by
<1>3. [b EXCEPT !.age = 0, !.by = by] \in Bins /\ [b EXCEPT !.age = 0, !.by = by].state = b.state
    <2> DEFINE seen1 == [b EXCEPT !.age = 0]
    <2>1. seen1 \in Bins /\ seen1.state = b.state
        BY DEF Bins
    <2> HIDE DEF seen1
    <2>2. [seen1 EXCEPT !.by = by] \in Bins /\ [seen1 EXCEPT !.by = by].state = b.state
        BY <1>1, <2>1 DEF Bins
    <2>3. QED
        BY <2>2 DEF seen1
<1>4. QED
    BY <1>2, <1>3

LEMMA ComparedKeeps ==
    ASSUME NEW b \in Bins, NEW shot \in Shots
    PROVE  Compared(b, shot) \in Bins /\ Compared(b, shot).state = b.state
<1> DEFINE count == IF b.count < BinConfirm THEN b.count + 1 ELSE b.count
<1>1. count \in Nat
    BY DEF Bins
<1>2. [b EXCEPT !.count = count] \in Bins /\ [b EXCEPT !.count = count].state = b.state
    <2> HIDE DEF count
    <2>1. QED
        BY <1>1 DEF Bins
<1>3. /\ [b EXCEPT !.baseline = shot] \in Bins /\ [b EXCEPT !.baseline = shot].state = b.state
      /\ [b EXCEPT !.pending = None, !.count = 0] \in Bins
      /\ [b EXCEPT !.pending = None, !.count = 0].state = b.state
    BY DEF Bins
<1>4. /\ [b EXCEPT !.pending = shot, !.count = 1] \in Bins
      /\ [b EXCEPT !.pending = shot, !.count = 1].state = b.state
    BY DEF Bins
<1>5. Compared(b, shot) \in {[b EXCEPT !.baseline = shot], [b EXCEPT !.pending = None, !.count = 0],
                             [b EXCEPT !.count = count], [b EXCEPT !.pending = shot, !.count = 1]}
    BY DEF Compared, Bins
<1>6. QED
    BY <1>2, <1>3, <1>4, <1>5

\* What is decided: the record's state, and a bin put out only where one is now and
\* none was before.
LEMMA Decided ==
    ASSUME NEW b \in Bins, NEW c \in BinChecks, NEW answer
    PROVE  /\ Decide(b, c, answer).box \in Bins
           /\ Decide(b, c, answer).box.state = StateAfter(b, NowState(c, answer), BeforeState(c, answer))
           /\ Decide(b, c, answer).said.what = "placed_out"
                 => PlacedOut(NowState(c, answer), BeforeState(c, answer))
<1> DEFINE now == NowState(c, answer)
           before == BeforeState(c, answer)
           placed == PlacedOut(now, before) /\ b.placed - c.age >= BinDedupe
           empty == ~PlacedOut(now, before) /\ Emptied(b, c, now, before, answer)
                    /\ b.emptied - c.age >= BinDedupe
           state == StateAfter(b, now, before)
           by == IF b.by # "nobody" /\ b.age - c.age < BinInteraction THEN "nobody" ELSE b.by
           p == IF placed THEN c.age ELSE b.placed
           m == IF empty THEN c.age ELSE b.emptied
<1>1. now \in BinStates /\ before \in BinStates
    BY DEF NowState, BeforeState, BinStates, BinChecks
<1>2. state \in BinStates
    <2> HIDE DEF now, before
    <2>1. QED
        BY <1>1 DEF StateAfter, Bins
<1>3. by \in {"nobody", "person", "truck"} /\ p \in Int /\ m \in Int /\ c.shot \in Shots
    <2> HIDE DEF placed, empty
    <2>1. QED
        BY DEF Bins, BinChecks
<1>4. Decide(b, c, answer).box = [b EXCEPT !.state = state, !.baseline = c.shot, !.pending = None,
                                    !.count = 0, !.stale = FALSE, !.by = by, !.placed = p, !.emptied = m]
    <2> HIDE DEF empty, now, before, state
    <2>1. QED
        BY DEF Decide, Bins, now, before, empty, state
<1>5. Decide(b, c, answer).said.what = "placed_out" => placed
    BY DEF Decide
<1> HIDE DEF placed, empty, by, p, m, state
<1> DEFINE b1 == [b EXCEPT !.state = state, !.baseline = c.shot, !.pending = None]
           b2 == [b1 EXCEPT !.count = 0, !.stale = FALSE, !.by = by]
           b3 == [b2 EXCEPT !.placed = p, !.emptied = m]
<1>6. Decide(b, c, answer).box \in Bins /\ Decide(b, c, answer).box.state = state
    <2>1. Decide(b, c, answer).box = b3
        BY <1>4
    <2>2. b1 \in Bins /\ b1.state = state
        BY <1>2, <1>3 DEF Bins
    <2> HIDE DEF b1
    <2>3. b2 \in Bins /\ b2.state = b1.state
        BY <1>3, <2>2 DEF Bins
    <2> HIDE DEF b2
    <2>4. b3 \in Bins /\ b3.state = b2.state
        BY <1>3, <2>3 DEF Bins
    <2> HIDE DEF b3
    <2>5. QED
        BY <2>1, <2>2, <2>3, <2>4
<1>7. QED
    BY <1>5, <1>6 DEF state, placed

\* A frame that decides of a check: a bin is announced only if it was away, and then
\* the zone is known to hold one.
LEMMA DecisionKeeps ==
    ASSUME BinInv, NEW b \in Bins, b.state = bin.state,
           candidate # None, binAnswer # "no",
           bin' = Decide(b, [candidate EXCEPT !.age = @ + 1], binAnswer).box,
           said' = Decide(b, [candidate EXCEPT !.age = @ + 1], binAnswer).said,
           binPicture' = candidate.shot, candidate' = None, binAnswer' = "no",
           dark' \in Nat, look' = look,
           away' = IF said'.what = "placed_out" THEN ~Present(look) ELSE away
    PROVE  BinInv' /\ (said'.what = "placed_out" => away)
<1> DEFINE c == [candidate EXCEPT !.age = @ + 1]
           now == NowState(c, binAnswer)
           before == BeforeState(c, binAnswer)
<1>1. /\ c \in BinChecks /\ candidate \in BinChecks
      /\ c.shot = candidate.shot /\ c.before = candidate.before
    BY DEF BinInv, BinTyped, BinChecks
<1>2. candidate.shot \in Shots
    BY <1>1 DEF BinChecks
<1> HIDE DEF c
<1>3. /\ bin' \in Bins /\ bin'.state = StateAfter(b, now, before)
      /\ said'.what = "placed_out" => PlacedOut(now, before)
    BY <1>1, Decided DEF c
<1>4. BinTyped'
    BY <1>2, <1>3 DEF BinInv, BinTyped, Present
<1>5. /\ now = "absent" => ~Present(candidate.shot.look)
      /\ now = "present" => Present(candidate.shot.look)
      /\ now \in BinStates
    BY <1>1 DEF NowState, BinStates
<1>6. before = "absent" => away
    <2>1. c.before = "absent" => away
        BY <1>1 DEF BinInv, AwayIsKnown
    <2>2. binPicture # None /\ ~Present(binPicture.look) => away
        BY DEF BinInv, AwayIsKnown
    <2>3. QED
        BY <2>1, <2>2 DEF BeforeState
<1>7. (~Present(candidate.shot.look) => away) /\ (bin.state = "absent" => away) /\ (~Present(look) => away)
    BY DEF BinInv, AwayIsKnown
<1> HIDE DEF now, before
<1>8. CASE said'.what = "placed_out"
    <2>1. now = "present" /\ before = "absent"
        BY <1>3, <1>8 DEF PlacedOut
    <2>2. bin'.state = "present" /\ Present(candidate.shot.look) /\ away' = ~Present(look)
        BY <1>3, <1>5, <1>8, <2>1 DEF StateAfter
    <2>3. AwayIsKnown'
        BY <2>2 DEF AwayIsKnown, Present
    <2>4. QED
        BY <1>4, <1>6, <2>1, <2>3 DEF BinInv
<1>9. CASE said'.what # "placed_out"
    <2>1. away' = away
        BY <1>9
    <2>2. bin'.state = "absent" => away
        BY <1>3, <1>5, <1>6, <1>7 DEF StateAfter
    <2>3. AwayIsKnown'
        BY <1>7, <2>1, <2>2 DEF AwayIsKnown, Present
    <2>4. QED
        BY <1>4, <1>9, <2>3 DEF BinInv
<1>10. QED
    BY <1>8, <1>9

LEMMA BinFrameKeeps ==
    ASSUME BinInv, NEW who \in {"nobody", "person", "truck"}, NEW compares \in BOOLEAN, NEW ask \in BOOLEAN,
           NEW outage \in BOOLEAN, BinFrame(who, compares, ask, outage)
    PROVE  BinInv' /\ (said'.what = "placed_out" => away)
<1> DEFINE aged == AgedBin(bin)
           b == Interaction(IF outage THEN AfterOutage(aged) ELSE aged, who)
           t == IF outage THEN dark + 1 ELSE dark
           c == IF candidate = None THEN None ELSE [candidate EXCEPT !.age = @ + 1]
           seen == Compared(b, Shot(look, t))
<1>1. aged \in Bins /\ aged.state = bin.state
    BY AgedBinKeeps DEF BinInv, BinTyped
<1>2. b \in Bins /\ b.state = bin.state
    <2> DEFINE o == IF outage THEN AfterOutage(aged) ELSE aged
    <2> HIDE DEF aged
    <2>1. o \in Bins /\ o.state = bin.state
        BY <1>1, AfterOutageKeeps
    <2> HIDE DEF o
    <2>2. Interaction(o, who) \in Bins /\ Interaction(o, who).state = bin.state
        BY <2>1, InteractionKeeps
    <2>3. QED
        BY <2>2 DEF o
<1>3. t \in Nat /\ Shot(look, t) \in Shots /\ Shot(look, t).look = look
    BY DEF BinInv, BinTyped, Shots, Shot
<1>4. seen \in Bins /\ seen.state = bin.state
    <2> HIDE DEF b, t
    <2>1. QED
        BY <1>2, <1>3, ComparedKeeps
<1>5. /\ c \in BinChecks \union {None}
      /\ candidate # None => c # None /\ c.shot = candidate.shot /\ c.before = candidate.before
      /\ candidate = None => c = None
    BY DEF BinInv, BinTyped, BinChecks, None
<1>6. /\ dark' = t /\ look' = look
      /\ away' = IF said'.what = "placed_out" THEN ~Present(look) ELSE away
    BY DEF BinFrame
<1>7. /\ look \in Looks /\ bin \in Bins /\ binPicture \in Shots \union {None} /\ away \in BOOLEAN
      /\ candidate \in BinChecks \union {None} /\ binAnswer \in {"no", "true", "failed"}
    BY DEF BinInv, BinTyped
<1>8. CASE candidate # None /\ binAnswer = "no"
    <2>1. bin' = b /\ candidate' = c /\ said' = [what |-> "nothing"] /\ UNCHANGED <<binPicture, binAnswer>>
        BY <1>8 DEF BinFrame
    <2> HIDE DEF b, c, t
    <2>2. BinTyped'
        BY <1>2, <1>3, <1>5, <1>6, <1>7, <2>1 DEF BinTyped
    <2>3. AwayIsKnown'
        BY <1>2, <1>5, <1>6, <1>8, <2>1 DEF BinInv, AwayIsKnown, Present
    <2>4. QED
        BY <2>1, <2>2, <2>3 DEF BinInv
<1>9. CASE candidate # None /\ binAnswer # "no"
    <2>1. /\ bin' = Decide(b, [candidate EXCEPT !.age = @ + 1], binAnswer).box
          /\ said' = Decide(b, [candidate EXCEPT !.age = @ + 1], binAnswer).said
          /\ binPicture' = c.shot /\ candidate' = None /\ binAnswer' = "no"
        BY <1>9 DEF BinFrame
    <2> HIDE DEF b, c, t
    <2>2. QED
        BY <1>2, <1>3, <1>5, <1>6, <1>9, <2>1, DecisionKeeps
<1>10. CASE candidate = None /\ ~compares
    <2>1. bin' = b /\ said' = [what |-> "nothing"] /\ UNCHANGED <<binPicture, candidate, binAnswer>>
        BY <1>10 DEF BinFrame
    <2> HIDE DEF b, c, t
    <2>2. BinTyped'
        BY <1>2, <1>3, <1>6, <1>7, <2>1 DEF BinTyped
    <2>3. AwayIsKnown'
        BY <1>2, <1>6, <1>10, <2>1 DEF BinInv, AwayIsKnown, Present
    <2>4. QED
        BY <2>1, <2>2, <2>3 DEF BinInv
<1>11. CASE candidate = None /\ compares
    <2>1. /\ bin' = seen /\ said' = [what |-> "nothing"] /\ binAnswer' = binAnswer
          /\ binPicture' \in {Shot(look, t), binPicture}
          /\ candidate' \in {[look |-> look, shot |-> Shot(look, t), before |-> b.state, age |-> 0], None}
        BY <1>11 DEF BinFrame
    <2> DEFINE n == [look |-> look, shot |-> Shot(look, t), before |-> b.state, age |-> 0]
    <2>2. n \in BinChecks /\ n.shot = Shot(look, t) /\ n.before = bin.state
        <3> HIDE DEF b, t
        <3>1. bin.state \in BinStates
            BY <1>7 DEF Bins
        <3>2. QED
            BY <1>2, <1>3, <1>7, <3>1 DEF BinChecks
    <2>3. candidate' \in {n, None}
        BY <2>1
    <2> HIDE DEF b, c, t, n, seen
    <2>4. BinTyped'
        BY <1>3, <1>4, <1>6, <1>7, <2>1, <2>2, <2>3 DEF BinTyped
    <2>5. AwayIsKnown'
        BY <1>3, <1>4, <1>6, <2>1, <2>2, <2>3 DEF BinInv, AwayIsKnown, Present
    <2>6. QED
        BY <2>1, <2>4, <2>5 DEF BinInv
<1>12. QED
    BY <1>8, <1>9, <1>10, <1>11 DEF BinFrame

\* A bin is announced as put out only if the zone was without it since the last
\* announcement, through outages, restarts and resets (_bin_transition).
THEOREM PlacedOutThroughout == BinSpec => PlacedOutWasAway
<1>1. BinInit => BinInv
    <2> SUFFICES ASSUME BinInit PROVE BinInv
        OBVIOUS
    <2>1. NewBin \in Bins /\ NewBin.state = "unknown"
        BY BinAssumption DEF NewBin, Bins, BinStates, BinNever
    <2>2. away \in BOOLEAN
        BY DEF BinInit, Present
    <2>3. QED
        BY <2>1, <2>2 DEF BinInit, BinInv, BinTyped, AwayIsKnown
<1>2. BinInv /\ [BinNext]_binVars => BinInv' /\ (said' # said /\ said'.what = "placed_out" => away)
    <2> SUFFICES ASSUME BinInv, [BinNext]_binVars
                 PROVE  BinInv' /\ (said' # said /\ said'.what = "placed_out" => away)
        OBVIOUS
    <2>1. CASE UNCHANGED binVars
        BY <2>1 DEF binVars, BinInv, BinTyped, AwayIsKnown, Present
    <2>2. CASE \E who \in {"nobody", "person", "truck"}, compares, ask, outage \in BOOLEAN :
                  BinFrame(who, compares, ask, outage)
        BY <2>2, BinFrameKeeps
    <2>3. CASE \E a \in {"true", "failed"} : BinAnswers(a)
        BY <2>3 DEF BinAnswers, BinInv, BinTyped, AwayIsKnown, Present
    <2>4. CASE BinRestart
        <3>1. NewBin \in Bins /\ NewBin.state = "unknown"
            BY BinAssumption DEF NewBin, Bins, BinStates, BinNever
        <3>2. bin' \in Bins /\ (bin'.state = "absent" => bin.state = "absent")
            BY <2>4, <3>1, AfterOutageKeeps DEF BinRestart, BinInv, BinTyped
        <3>3. /\ binPicture' = None /\ candidate' = None /\ binAnswer' = "no" /\ dark' \in Nat
              /\ UNCHANGED <<look, away, said>>
            BY <2>4 DEF BinRestart, BinInv, BinTyped
        <3>4. QED
            BY <3>2, <3>3 DEF BinInv, BinTyped, AwayIsKnown, Present
    <2>5. CASE \E l \in Looks : Happens(l)
        <3>1. PICK l \in Looks : Happens(l)
            BY <2>5
        <3>2. /\ look' = l /\ away' = (away \/ ~Present(l))
              /\ UNCHANGED <<bin, binPicture, candidate, binAnswer, dark, said>>
            BY <3>1 DEF Happens
        <3>3. BinTyped'
            BY <3>2 DEF BinInv, BinTyped, Present
        <3>4. AwayIsKnown'
            BY <3>2 DEF BinInv, AwayIsKnown, Present
        <3>5. QED
            BY <3>2, <3>3, <3>4 DEF BinInv
    <2>6. QED
        BY <2>1, <2>2, <2>3, <2>4, <2>5 DEF BinNext
<1>3. BinInv /\ [BinNext]_binVars => [said' # said /\ said'.what = "placed_out" => away]_binVars
    BY <1>2
<1>4. QED
    BY <1>1, <1>2, <1>3, PTL DEF BinSpec, PlacedOutWasAway

-------------------------------------------------------------------------------
(* Retention                                                               *)

Passes == [phase : 0..6, ids : SUBSET (RtEvents \union RtIncidents), left : 0..RtMaxBatches,
           protected : SUBSET RtEvents]
GoneRows == {e \in RtEvents : "row" \notin event[e]}

RetentionTyped ==
    /\ incident \in [RtIncidents -> {"open", "acknowledged", "resolved", "deleted"}]
    /\ clip \in [RtIncidents -> {"none", "ready", "expired"}]
    /\ clipHold \in [RtIncidents -> BOOLEAN] /\ agedIncident \in [RtIncidents -> Ages]
    /\ event \in [RtEvents -> SUBSET Parts] /\ eventHold \in [RtEvents -> BOOLEAN]
    /\ agedEvent \in [RtEvents -> Ages]
    /\ purge \in [RtPasses -> Passes]
    /\ began \in [RtPasses -> [pinned : SUBSET RtEvents, edits : Nat]]
    /\ rtRuns \in Nat /\ rtEdits \in Nat

\* From the clips on, a pass protects all that an incident refers to, and it deletes
\* events of none of those; and the events of its batch have aged enough for the phase.
IsDue(e, k) == agedEvent[e] = "old" \/ (agedEvent[e] = "media" /\ k # 6)
PassProtects ==
    \A p \in RtPasses :
        /\ purge[p].phase \in {0, 2} => purge[p].ids = {}
        /\ purge[p].phase # 0 => purge[p].left # 0
        /\ purge[p].phase >= 3 => Pinned \subseteq purge[p].protected
        /\ purge[p].phase >= 4 => purge[p].ids \intersect purge[p].protected = {}
        /\ purge[p].phase >= 4 => \A e \in purge[p].ids \intersect RtEvents : IsDue(e, purge[p].phase)

\* What a pass protects was pinned when it began.  While nobody has edited anything
\* since, every batch it spent took a batch of rows, which are gone, whoever deleted
\* them; nobody holds the rows of its batch; and a batch that is short has all that
\* may go.
Purgeable(protected) ==
    OldestOf(OldestOf(AgedFor("row"), RtBatch + Cardinality(protected)) \ protected, RtBatch)
Spends(s) ==
    /\ RtBatch * (RtMaxBatches - s.left) <= Cardinality(GoneRows \ s.ids)
    /\ s.ids \subseteq RtEvents /\ \A e \in s.ids : ~eventHold[e]
    /\ s.ids # {} /\ Cardinality(s.ids) < RtBatch => AgedFor("row") \ s.protected \subseteq s.ids
Clears(p, s) ==
    /\ s.phase # 0 => began[p].edits <= rtEdits
    /\ s.phase \in {1, 2} => Pinned \subseteq began[p].pinned
    /\ s.phase >= 3 => s.protected \subseteq began[p].pinned
    /\ s.phase = 6 /\ began[p].edits = rtEdits => Spends(s)
PassClears == \A p \in RtPasses : Clears(p, purge[p])

RetentionInv == RetentionTyped /\ PassProtects /\ PassClears

\* Asking for as many more rows as are protected leaves none out: a batch that comes
\* back short holds every row that is not protected.
LEMMA NothingLeftOut ==
    ASSUME NEW S \in SUBSET Nat, IsFiniteSet(S), NEW P, IsFiniteSet(P), NEW n \in Nat,
           Cardinality(OldestOf(OldestOf(S, n + Cardinality(P)) \ P, n)) < n
    PROVE  S \ P \subseteq OldestOf(OldestOf(S, n + Cardinality(P)) \ P, n)
<1> DEFINE X == OldestOf(S, n + Cardinality(P)) \ P
           Y == OldestOf(X, n)
           T == (S \ P) \ Y
<1>1. SUFFICES ASSUME T # {} PROVE FALSE
    OBVIOUS
<1>2. PICK x \in T : \A y \in T : x <= y
    BY <1>1, LeastNumber
<1> DEFINE B == {f \in S : f < x}
           C == {f \in X : f < x}
<1>3. X \subseteq S /\ Y \subseteq X
    BY DEF OldestOf
<1>4. B \subseteq Y \union P
    <2> HIDE DEF X, Y
    <2> SUFFICES ASSUME NEW f \in S, f < x, f \notin P, f \notin Y PROVE FALSE
        OBVIOUS
    <2>1. f \in T /\ x \in Nat /\ f \in Nat
        BY <1>2
    <2>2. QED
        BY <1>2, <2>1
<1>5. C \subseteq Y
    BY <1>3, <1>4
<1>6. IsFiniteSet(Y) /\ IsFiniteSet(Y \union P)
    BY <1>3, FS_Subset, FS_Union
<1>7. Cardinality(B) <= Cardinality(Y \union P) /\ Cardinality(C) <= Cardinality(Y)
      /\ IsFiniteSet(B) /\ IsFiniteSet(C)
    BY <1>4, <1>5, <1>6, FS_Subset
<1>8. Cardinality(Y \union P) = Cardinality(Y) + Cardinality(P) - Cardinality(Y \intersect P)
    BY <1>6, FS_Union
<1>9. IsFiniteSet(Y \intersect P)
    BY <1>6, FS_Subset
<1>10. /\ Cardinality(Y) \in Nat /\ Cardinality(P) \in Nat /\ Cardinality(Y \intersect P) \in Nat
       /\ Cardinality(B) \in Nat /\ Cardinality(C) \in Nat
    BY <1>6, <1>7, <1>9, FS_CardinalityType
<1>11. Cardinality(B) < n + Cardinality(P) /\ Cardinality(C) < n
    <2> HIDE DEF B, C, Y
    <2>1. Cardinality(Y) < n
        BY DEF Y
    <2>2. QED
        BY <1>7, <1>8, <1>10, <2>1
<1>12. x \in X
    BY <1>2, <1>11 DEF OldestOf
<1>13. x \in Y
    BY <1>11, <1>12 DEF OldestOf
<1>14. QED
    BY <1>2, <1>13

\* The phases by number.
LEMMA PhaseNames ==
    ASSUME NEW p \in RtPasses, purge[p].phase \in 0..6
    PROVE  /\ Len(Phases) = 6
           /\ PhaseOf(p) = "rest" <=> purge[p].phase = 0
           /\ PhaseOf(p) = "incidents" <=> purge[p].phase = 1
           /\ PhaseOf(p) = "protect" <=> purge[p].phase = 2
           /\ PhaseOf(p) = "clips" <=> purge[p].phase = 3
           /\ PhaseOf(p) = "media" <=> purge[p].phase = 4
           /\ PhaseOf(p) = "analyses" <=> purge[p].phase = 5
           /\ PhaseOf(p) = "events" <=> purge[p].phase = 6
<1>1. /\ Len(Phases) = 6 /\ Phases[1] = "incidents" /\ Phases[2] = "protect" /\ Phases[3] = "clips"
      /\ Phases[4] = "media" /\ Phases[5] = "analyses" /\ Phases[6] = "events"
    BY DEF Phases
<1>2. /\ purge[p].phase = 0 => PhaseOf(p) = "rest"
      /\ purge[p].phase # 0 => PhaseOf(p) = Phases[purge[p].phase]
    BY DEF PhaseOf
<1>3. purge[p].phase \in {0, 1, 2, 3, 4, 5, 6}
    OBVIOUS
<1>4. QED
    BY <1>1, <1>2, <1>3

\* The next phase begins with no batch and all its batches to go.
LEMMA NextPhaseMade ==
    ASSUME RetentionInv, NEW p \in RtPasses, purge[p].phase # 0
    PROVE  /\ Resting \in Passes /\ Resting.phase = 0 /\ Resting.ids = {}
           /\ NextPhase(p) \in Passes /\ NextPhase(p).ids = {}
           /\ IF purge[p].phase = 6 THEN NextPhase(p) = Resting
              ELSE /\ NextPhase(p).phase = purge[p].phase + 1 /\ NextPhase(p).left = RtMaxBatches
                   /\ NextPhase(p).protected = purge[p].protected
<1>1. Len(Phases) = 6 /\ RtMaxBatches \in Nat \ {0} /\ purge[p] \in Passes
    BY RetentionAssumption DEF Phases, RetentionInv, RetentionTyped
<1>2. Resting \in Passes /\ Resting.phase = 0 /\ Resting.ids = {}
    BY <1>1 DEF Resting, Passes
<1> DEFINE n == [purge[p] EXCEPT !.phase = @ + 1, !.ids = {}, !.left = RtMaxBatches]
<1>3. CASE purge[p].phase = 6
    BY <1>1, <1>2, <1>3 DEF NextPhase
<1>4. CASE purge[p].phase # 6
    <2>1. NextPhase(p) = n
        BY <1>1, <1>4 DEF NextPhase
    <2>2. purge[p].phase \in 0..5
        BY <1>1, <1>4 DEF Passes
    <2>3. n \in Passes /\ n.ids = {} /\ n.phase = purge[p].phase + 1 /\ n.left = RtMaxBatches
          /\ n.protected = purge[p].protected
        <3> DEFINE s == purge[p]
                   k == s.phase + 1
                   n1 == [s EXCEPT !.phase = k]
                   n2 == [n1 EXCEPT !.ids = {}]
                   n3 == [n2 EXCEPT !.left = RtMaxBatches]
        <3>1. n = n3
            OBVIOUS
        <3>2. s \in Passes /\ k \in 0..6 /\ RtMaxBatches \in 0..RtMaxBatches
            BY <1>1, <2>2
        <3> HIDE DEF s, k
        <3>3. n1 \in Passes /\ n1.phase = k /\ n1.protected = s.protected
            BY <3>2 DEF Passes
        <3> HIDE DEF n1
        <3>4. n2 \in Passes /\ n2.phase = k /\ n2.ids = {} /\ n2.protected = s.protected
            BY <3>3 DEF Passes
        <3> HIDE DEF n2
        <3>5. n3 \in Passes /\ n3.phase = k /\ n3.ids = {} /\ n3.left = RtMaxBatches
              /\ n3.protected = s.protected
            BY <3>2, <3>4 DEF Passes
        <3>6. QED
            BY <3>1, <3>5 DEF s, k
    <2>4. QED
        BY <1>2, <1>4, <2>1, <2>3
<1>5. QED
    BY <1>3, <1>4

LEMMA PurgeableIsPurgeable ==
    ASSUME NEW p \in RtPasses PROVE PurgeableEvents(p) = Purgeable(purge[p].protected)
BY DEF PurgeableEvents, Purgeable, AndMore

\* What is purgeable may go and is not protected.
LEMMA PurgeableMayGo ==
    ASSUME NEW P
    PROVE  Purgeable(P) \subseteq AgedFor("row") \ P
BY DEF Purgeable, OldestOf

\* What deletes rows, releases what was pinned, or is somebody's edit, leaves what
\* is known of the passes it does not move.
LEMMA OthersClear ==
    ASSUME RetentionInv, NEW q \in RtPasses, purge'[q] = purge[q], began'[q] = began[q],
           Pinned' \subseteq Pinned, agedEvent' = agedEvent, \A e \in RtEvents : event'[e] \subseteq event[e],
           (rtEdits' = rtEdits /\ eventHold' = eventHold) \/ rtEdits' = rtEdits + 1
    PROVE  Clears(q, purge[q])'
<1> DEFINE s == purge[q]
<1>0. /\ Clears(q, s) /\ rtEdits \in Nat /\ began[q].edits \in Nat /\ s \in Passes
      /\ RtBatch \in Nat /\ RtMaxBatches \in Nat /\ IsFiniteSet(RtEvents)
    BY RetentionAssumption DEF RetentionInv, RetentionTyped, PassClears
<1>1. purge'[q] = s
    OBVIOUS
<1> SUFFICES /\ s.phase # 0 => began[q].edits <= rtEdits'
             /\ s.phase \in {1, 2} => Pinned' \subseteq began[q].pinned
             /\ s.phase >= 3 => s.protected \subseteq began[q].pinned
             /\ s.phase = 6 /\ began[q].edits = rtEdits' =>
                   /\ RtBatch * (RtMaxBatches - s.left) <= Cardinality(GoneRows' \ s.ids)
                   /\ s.ids \subseteq RtEvents /\ \A e \in s.ids : ~eventHold'[e]
                   /\ s.ids # {} /\ Cardinality(s.ids) < RtBatch =>
                         AgedFor("row")' \ s.protected \subseteq s.ids
    BY <1>1 DEF Clears, Spends
<1> HIDE DEF s
<1>2. /\ s.phase # 0 => began[q].edits <= rtEdits'
      /\ s.phase \in {1, 2} => Pinned' \subseteq began[q].pinned
      /\ s.phase >= 3 => s.protected \subseteq began[q].pinned
    BY <1>0 DEF Clears
<1>3. ASSUME s.phase = 6, began[q].edits = rtEdits'
      PROVE  /\ RtBatch * (RtMaxBatches - s.left) <= Cardinality(GoneRows' \ s.ids)
             /\ s.ids \subseteq RtEvents /\ \A e \in s.ids : ~eventHold'[e]
             /\ s.ids # {} /\ Cardinality(s.ids) < RtBatch =>
                   AgedFor("row")' \ s.protected \subseteq s.ids
    <2>1. rtEdits' = rtEdits /\ eventHold' = eventHold
        <3>1. s.phase # 0
            BY <1>3
        <3>2. began[q].edits <= rtEdits
            BY <1>0, <3>1 DEF Clears
        <3>3. \A m, n \in Nat : ~(n + 1 = m /\ m <= n)
            OBVIOUS
        <3>4. QED
            BY <1>0, <1>3, <3>2, <3>3
    <2>2. Spends(s)
        BY <1>0, <1>3, <2>1 DEF Clears
    <2>3. AgedFor("row")' \subseteq AgedFor("row")
        BY <2>1 DEF AgedFor, Unheld
    <2>4. GoneRows \ s.ids \subseteq GoneRows' \ s.ids /\ GoneRows' \subseteq RtEvents
        BY DEF GoneRows
    <2>5. IsFiniteSet(GoneRows' \ s.ids) /\ IsFiniteSet(GoneRows \ s.ids)
          /\ Cardinality(GoneRows \ s.ids) <= Cardinality(GoneRows' \ s.ids)
        <3>1. IsFiniteSet(GoneRows' \ s.ids)
            BY <1>0, <2>4, FS_Subset
        <3>2. QED
            BY <2>4, <3>1, FS_Subset
    <2>6. /\ Cardinality(GoneRows' \ s.ids) \in Nat /\ Cardinality(GoneRows \ s.ids) \in Nat
          /\ s.left \in Nat
        BY <1>0, <2>5, FS_CardinalityType DEF Passes
    <2>7. RtBatch * (RtMaxBatches - s.left) \in Int
        BY <1>0, <2>6
    <2>8. RtBatch * (RtMaxBatches - s.left) <= Cardinality(GoneRows' \ s.ids)
        <3>1. \A a \in Int, b, c \in Nat : a <= b /\ b <= c => a <= c
            OBVIOUS
        <3>2. RtBatch * (RtMaxBatches - s.left) <= Cardinality(GoneRows \ s.ids)
            BY <2>2 DEF Spends
        <3>3. QED
            BY <2>5, <2>6, <2>7, <3>1, <3>2
    <2>9. QED
        BY <2>1, <2>2, <2>3, <2>8 DEF Spends
<1>4. QED
    BY <1>2, <1>3

\* A step of one pass that leaves the rows alone.
LEMMA PassMoves ==
    ASSUME RetentionInv, NEW p \in RtPasses, NEW s \in Passes, purge' = [purge EXCEPT ![p] = s],
           UNCHANGED <<incident, clip, clipHold, agedIncident, event, eventHold, agedEvent, began, rtRuns, rtEdits>>,
           s.phase \in {0, 2} => s.ids = {},
           s.phase # 0 => s.left # 0,
           s.phase >= 3 => Pinned \subseteq s.protected,
           s.phase >= 4 => s.ids \intersect s.protected = {},
           s.phase >= 4 => \A e \in s.ids \intersect RtEvents : IsDue(e, s.phase),
           Clears(p, s)
    PROVE  RetentionInv'
<1>1. purge' \in [RtPasses -> Passes] /\ purge'[p] = s /\ \A q \in RtPasses : q # p => purge'[q] = purge[q]
    BY DEF RetentionInv, RetentionTyped
<1>2. RetentionTyped'
    BY <1>1 DEF RetentionInv, RetentionTyped
<1>3. Pinned' = Pinned
    BY DEF Pinned
<1>4. PassProtects'
    BY <1>1, <1>3 DEF RetentionInv, PassProtects, IsDue
<1>5. Clears(p, purge[p])'
    BY <1>1, <1>3 DEF Clears, Spends, GoneRows, AgedFor, Unheld
<1>6. ASSUME NEW q \in RtPasses, q # p PROVE Clears(q, purge[q])'
    BY <1>1, <1>3, <1>6, OthersClear
<1>7. QED
    BY <1>2, <1>4, <1>5, <1>6 DEF RetentionInv, PassClears

LEMMA BatchesAreSubsets ==
    ASSUME NEW S, NEW n, NEW B \in Batches(S, n) PROVE B \subseteq S
BY DEF Batches

\* What a batch may hold, in each phase.
LEMMA SelectedBatch ==
    ASSUME RetentionInv, NEW p \in RtPasses, PhaseOf(p) \notin {"rest", "protect"}, NEW B \in SelectsFrom(p)
    PROVE  /\ B \subseteq RtEvents \union RtIncidents
           /\ purge[p].phase >= 4 => B \intersect purge[p].protected = {}
           /\ purge[p].phase >= 4 => \A e \in B \intersect RtEvents : IsDue(e, purge[p].phase)
           /\ purge[p].phase = 6 => B = Purgeable(purge[p].protected)
<1>1. purge[p].phase \in 0..6
    BY DEF RetentionInv, RetentionTyped, Passes
<1>2. \A part : AgedFor(part) \subseteq RtEvents
    BY DEF AgedFor
<1>0. \A part : \A e \in AgedFor(part) : agedEvent[e] = "old" \/ (agedEvent[e] = "media" /\ part # "row")
    BY DEF AgedFor, RetentionInv, RetentionTyped, Ages
<1>3. CASE PhaseOf(p) = "incidents"
    <2>1. B \in Batches({i \in RtIncidents : Deletable(i, "old")}, RtBatch)
        BY <1>3 DEF SelectsFrom
    <2>2. QED
        BY <1>1, <1>3, <2>1, PhaseNames, BatchesAreSubsets
<1>4. CASE PhaseOf(p) = "clips"
    <2>1. B \in Batches({i \in RtIncidents : clip[i] = "ready" /\ Deletable(i, "media")}, RtBatch)
        BY <1>4 DEF SelectsFrom
    <2>2. QED
        BY <1>1, <1>4, <2>1, PhaseNames, BatchesAreSubsets
<1>5. CASE PhaseOf(p) = "media"
    <2>1. B \in Batches(AgedFor("photo") \ purge[p].protected, RtBatch)
        BY <1>5 DEF SelectsFrom
    <2>2. B \subseteq AgedFor("photo") \ purge[p].protected
        BY <2>1, BatchesAreSubsets
    <2>3. QED
        BY <1>0, <1>1, <1>2, <1>5, <2>2, PhaseNames DEF IsDue
<1>6. CASE PhaseOf(p) = "analyses"
    <2>1. B \in Batches(AgedFor("analysis") \ purge[p].protected, RtBatch)
        BY <1>6 DEF SelectsFrom
    <2>2. B \subseteq AgedFor("analysis") \ purge[p].protected
        BY <2>1, BatchesAreSubsets
    <2>3. QED
        BY <1>0, <1>1, <1>2, <1>6, <2>2, PhaseNames DEF IsDue
<1>7. CASE PhaseOf(p) = "events"
    <2>1. B = Purgeable(purge[p].protected)
        BY <1>7, PurgeableIsPurgeable DEF SelectsFrom
    <2>2. QED
        BY <1>0, <1>1, <1>2, <1>7, <2>1, PhaseNames, PurgeableMayGo DEF IsDue
<1>8. PhaseOf(p) \in {"incidents", "clips", "media", "analyses", "events"}
    <2>1. purge[p].phase \in {0, 1, 2, 3, 4, 5, 6}
        BY <1>1
    <2>2. QED
        BY <1>1, <2>1, PhaseNames
<1>9. QED
    BY <1>3, <1>4, <1>5, <1>6, <1>7, <1>8

\* A new phase begins in order.
LEMMA NextPhaseKeeps ==
    ASSUME RetentionInv, NEW p \in RtPasses, purge[p].phase \in 3..6
    PROVE  LET s == NextPhase(p) IN
           /\ s \in Passes /\ s.ids = {}
           /\ s.phase # 0 => s.left # 0 /\ began[p].edits <= rtEdits
           /\ s.phase \notin {1, 2}
           /\ s.phase >= 3 => Pinned \subseteq s.protected /\ s.protected \subseteq began[p].pinned
           /\ s.phase = 6 => s.left = RtMaxBatches
<1> DEFINE s == NextPhase(p)
<1>1. RtMaxBatches \in Nat \ {0}
    BY RetentionAssumption
<1>2. /\ s \in Passes /\ s.ids = {} /\ Resting.phase = 0
      /\ IF purge[p].phase = 6 THEN s = Resting
         ELSE s.phase = purge[p].phase + 1 /\ s.left = RtMaxBatches /\ s.protected = purge[p].protected
    BY NextPhaseMade
<1>3. /\ Pinned \subseteq purge[p].protected /\ purge[p].protected \subseteq began[p].pinned
      /\ began[p].edits <= rtEdits
    BY DEF RetentionInv, PassProtects, PassClears, Clears
<1> HIDE DEF s
<1>4. QED
    BY <1>1, <1>2, <1>3 DEF s

\* A fresh phase has spent none of its batches.
LEMMA NothingSpent ==
    ASSUME RetentionTyped, NEW s, s.ids = {}, s.left = RtMaxBatches
    PROVE  Spends(s)
<1>1. IsFiniteSet(GoneRows) /\ GoneRows \ s.ids = GoneRows
    BY RetentionAssumption, FS_Subset DEF GoneRows
<1>2. Cardinality(GoneRows) \in Nat
    BY <1>1, FS_CardinalityType
<1>3. RtBatch * (RtMaxBatches - s.left) = 0
    BY RetentionAssumption
<1>4. QED
    BY <1>1, <1>2, <1>3 DEF Spends

LEMMA ProtectKeeps ==
    ASSUME RetentionInv, NEW p \in RtPasses, Protect(p)
    PROVE  RetentionInv'
<1> DEFINE n == NextPhase(p)
           s == [n EXCEPT !.protected = Pinned]
<1>1. purge[p].phase = 2 /\ RtMaxBatches \in Nat \ {0}
    BY PhaseNames, RetentionAssumption DEF Protect, RetentionInv, RetentionTyped, Passes
<1>2. n \in Passes /\ n.ids = {} /\ n.phase = 3 /\ n.left = RtMaxBatches
    BY <1>1, NextPhaseMade
<1>3. Pinned \subseteq RtEvents
    BY RetentionAssumption DEF Pinned
<1> HIDE DEF n
<1>4. s \in Passes /\ s.ids = {} /\ s.phase = 3 /\ s.left = RtMaxBatches /\ s.protected = Pinned
    BY <1>2, <1>3 DEF Passes
<1>5. /\ purge' = [purge EXCEPT ![p] = s]
      /\ UNCHANGED <<incident, clip, clipHold, agedIncident, event, eventHold, agedEvent, began, rtRuns, rtEdits>>
    BY DEF Protect, n
<1> HIDE DEF s
<1>6. /\ s.phase \in {0, 2} => s.ids = {}
      /\ s.phase # 0 => s.left # 0
      /\ s.phase >= 3 => Pinned \subseteq s.protected
      /\ s.phase >= 4 => s.ids \intersect s.protected = {}
      /\ s.phase >= 4 => \A e \in s.ids \intersect RtEvents : IsDue(e, s.phase)
      /\ s \in Passes
    BY <1>1, <1>4
<1>7. Clears(p, s)
    <2>1. Clears(p, purge[p])
        BY DEF RetentionInv, PassClears
    <2>2. began[p].edits <= rtEdits /\ Pinned \subseteq began[p].pinned
        BY <1>1, <2>1 DEF Clears
    <2>3. QED
        BY <1>4, <2>2 DEF Clears
<1>8. QED
    BY <1>5, <1>6, <1>7, PassMoves

\* A batch that comes back short holds all that may go.
LEMMA NoneLeft ==
    ASSUME RetentionInv, NEW p \in RtPasses, Cardinality(Purgeable(purge[p].protected)) < RtBatch
    PROVE  AgedFor("row") \ purge[p].protected \subseteq Purgeable(purge[p].protected)
<1> DEFINE S == AgedFor("row")
           P == purge[p].protected
<1>1. S \subseteq RtEvents
    BY DEF AgedFor
<1>2. S \in SUBSET Nat /\ IsFiniteSet(S) /\ RtBatch \in Nat
    BY <1>1, RetentionAssumption, FS_Subset
<1>3. P \subseteq RtEvents
    BY DEF RetentionInv, RetentionTyped, Passes
<1>4. IsFiniteSet(P)
    BY <1>3, RetentionAssumption, FS_Subset
<1> HIDE DEF S, P
<1>5. Purgeable(P) = OldestOf(OldestOf(S, RtBatch + Cardinality(P)) \ P, RtBatch)
    BY DEF Purgeable, S
<1>6. Cardinality(OldestOf(OldestOf(S, RtBatch + Cardinality(P)) \ P, RtBatch)) < RtBatch
    BY <1>5 DEF P
<1>7. S \ P \subseteq Purgeable(P)
    BY <1>2, <1>4, <1>5, <1>6, NothingLeftOut
<1>8. QED
    BY <1>7 DEF S, P

LEMMA SelectKeeps ==
    ASSUME RetentionInv, NEW p \in RtPasses, Select(p)
    PROVE  RetentionInv'
<1>1. PICK B \in SelectsFrom(p) :
          purge' = [purge EXCEPT ![p] = IF B = {} THEN NextPhase(p) ELSE [purge[p] EXCEPT !.ids = B]]
    BY DEF Select
<1>2. /\ PhaseOf(p) \notin {"rest", "protect"}
      /\ UNCHANGED <<incident, clip, clipHold, agedIncident, event, eventHold, agedEvent, began, rtRuns, rtEdits>>
    BY DEF Select
<1>3. purge[p] \in Passes /\ purge[p].phase \in 0..6 /\ purge[p].phase # 0 /\ purge[p].phase # 2
    BY <1>2, PhaseNames DEF RetentionInv, RetentionTyped, Passes
<1>4. CASE B = {}
    <2>1. CASE purge[p].phase = 1
        <3>1. NextPhase(p) \in Passes /\ NextPhase(p).ids = {} /\ NextPhase(p).phase = 2
              /\ NextPhase(p).left = RtMaxBatches /\ RtMaxBatches # 0
            BY <2>1, NextPhaseMade, RetentionAssumption
        <3> DEFINE s == NextPhase(p)
        <3>2. purge' = [purge EXCEPT ![p] = s]
            BY <1>1, <1>4
        <3> HIDE DEF s
        <3>3. /\ s \in Passes /\ s.ids = {} /\ s.phase = 2 /\ s.left # 0
              /\ ~(s.phase >= 3) /\ ~(s.phase >= 4) /\ ~(s.phase = 6)
            BY <3>1 DEF s
        <3>4. Clears(p, s)
            BY <2>1, <3>3 DEF RetentionInv, PassClears, Clears
        <3>5. QED
            BY <1>2, <3>2, <3>3, <3>4, PassMoves
    <2>2. CASE purge[p].phase \in 3..6
        <3> DEFINE s == NextPhase(p)
        <3>1. /\ s \in Passes /\ s.ids = {}
              /\ s.phase # 0 => s.left # 0 /\ began[p].edits <= rtEdits
              /\ s.phase \notin {1, 2}
              /\ s.phase >= 3 => Pinned \subseteq s.protected /\ s.protected \subseteq began[p].pinned
              /\ s.phase = 6 => s.left = RtMaxBatches
            BY <2>2, NextPhaseKeeps
        <3>2. purge' = [purge EXCEPT ![p] = s]
            BY <1>1, <1>4
        <3> HIDE DEF s
        <3>3. s.phase = 6 => Spends(s)
            BY <3>1, NothingSpent DEF RetentionInv
        <3>4. Clears(p, s)
            BY <3>1, <3>3 DEF Clears
        <3>5. QED
            BY <1>2, <3>1, <3>2, <3>4, PassMoves
    <2>3. QED
        BY <1>3, <2>1, <2>2
<1>5. CASE B # {}
    <2> DEFINE s == [purge[p] EXCEPT !.ids = B]
    <2>1. /\ B \subseteq RtEvents \union RtIncidents
          /\ purge[p].phase >= 4 => B \intersect purge[p].protected = {}
          /\ purge[p].phase >= 4 => \A e \in B \intersect RtEvents : IsDue(e, purge[p].phase)
          /\ purge[p].phase = 6 => B = Purgeable(purge[p].protected)
        BY <1>2, SelectedBatch
    <2>2. s \in Passes /\ s.ids = B /\ s.phase = purge[p].phase /\ s.left = purge[p].left
          /\ s.protected = purge[p].protected
        BY <1>3, <2>1 DEF Passes
    <2>3. purge' = [purge EXCEPT ![p] = s]
        BY <1>1, <1>5
    <2> HIDE DEF s
    <2>4. /\ s.phase # 0 => s.left # 0
          /\ s.phase >= 3 => Pinned \subseteq s.protected
        BY <1>3, <2>2 DEF RetentionInv, PassProtects
    <2>5. Clears(p, s)
        <3>1. Clears(p, purge[p])
            BY DEF RetentionInv, PassClears
        <3>2. ASSUME s.phase = 6, began[p].edits = rtEdits PROVE Spends(s)
            <4>1. Spends(purge[p]) /\ purge[p].ids = {}
                BY <2>2, <3>1, <3>2 DEF Clears, Select
            <4>2. B = Purgeable(purge[p].protected) /\ B \subseteq AgedFor("row")
                BY <2>1, <2>2, <3>2, PurgeableMayGo
            <4>3. GoneRows \ s.ids = GoneRows \ purge[p].ids
                BY <2>2, <4>1, <4>2 DEF GoneRows, AgedFor
            <4>4. s.ids \subseteq RtEvents /\ \A e \in s.ids : ~eventHold[e]
                BY <2>2, <4>2 DEF AgedFor, Unheld
            <4>5. Cardinality(s.ids) < RtBatch => AgedFor("row") \ s.protected \subseteq s.ids
                BY <2>2, <4>2, NoneLeft
            <4>6. RtBatch * (RtMaxBatches - s.left) <= Cardinality(GoneRows \ s.ids)
                BY <2>2, <4>1, <4>3 DEF Spends
            <4>7. QED
                BY <4>4, <4>5, <4>6 DEF Spends
        <3>3. QED
            BY <2>2, <3>1, <3>2 DEF Clears
    <2>6. QED
        BY <1>2, <1>3, <2>1, <2>2, <2>3, <2>4, <2>5, PassMoves
<1>6. QED
    BY <1>4, <1>5

LEMMA RunKeeps ==
    ASSUME RetentionInv, NEW p \in RtPasses, RunPurge(p)
    PROVE  RetentionInv'
<1> DEFINE s == [Resting EXCEPT !.phase = 1, !.left = RtMaxBatches]
<1>1. s \in Passes /\ s.phase = 1 /\ s.left # 0 /\ s.ids = {}
    <2> DEFINE s1 == [Resting EXCEPT !.phase = 1]
    <2>1. RtMaxBatches \in Nat \ {0}
        BY RetentionAssumption
    <2>2. s1 \in Passes /\ s1.phase = 1 /\ s1.ids = {}
        BY <2>1 DEF Resting, Passes
    <2> HIDE DEF s1
    <2>3. [s1 EXCEPT !.left = RtMaxBatches] \in Passes /\ [s1 EXCEPT !.left = RtMaxBatches].phase = 1
          /\ [s1 EXCEPT !.left = RtMaxBatches].left = RtMaxBatches
          /\ [s1 EXCEPT !.left = RtMaxBatches].ids = {}
        BY <2>1, <2>2 DEF Passes
    <2>4. s = [s1 EXCEPT !.left = RtMaxBatches]
        BY DEF s1
    <2>5. QED
        BY <2>1, <2>3, <2>4
<1>2. /\ purge[p].phase = 0 /\ purge' = [purge EXCEPT ![p] = s] /\ rtRuns' = rtRuns + 1
      /\ began' = [began EXCEPT ![p] = [pinned |-> Pinned, edits |-> rtEdits]]
      /\ UNCHANGED <<incident, clip, clipHold, agedIncident, event, eventHold, agedEvent, rtEdits>>
    BY DEF RunPurge
<1> HIDE DEF s
<1>3. purge' \in [RtPasses -> Passes] /\ purge'[p] = s /\ \A q \in RtPasses : q # p => purge'[q] = purge[q]
    BY <1>1, <1>2 DEF RetentionInv, RetentionTyped
<1>4. rtRuns \in Nat
    BY DEF RetentionInv, RetentionTyped
<1>5. RetentionTyped'
    <2>1. Pinned \subseteq RtEvents /\ rtEdits \in Nat
        BY RetentionAssumption DEF Pinned, RetentionInv, RetentionTyped
    <2>2. began' \in [RtPasses -> [pinned : SUBSET RtEvents, edits : Nat]]
        BY <1>2, <2>1 DEF RetentionInv, RetentionTyped
    <2>3. QED
        BY <1>2, <1>3, <1>4, <2>2 DEF RetentionInv, RetentionTyped
<1>6. Pinned' = Pinned
    BY <1>2 DEF Pinned
<1>7. PassProtects'
    BY <1>1, <1>2, <1>3, <1>6 DEF RetentionInv, PassProtects, IsDue
<1>8. Clears(p, purge[p])'
    <2>1. began'[p] = [pinned |-> Pinned, edits |-> rtEdits] /\ rtEdits \in Nat
        BY <1>2 DEF RetentionInv, RetentionTyped
    <2>2. QED
        BY <1>1, <1>2, <1>3, <1>6, <2>1 DEF Clears
<1>9. ASSUME NEW q \in RtPasses, q # p PROVE Clears(q, purge[q])'
    <2>1. began'[q] = began[q]
        BY <1>2, <1>9 DEF RetentionInv, RetentionTyped
    <2>2. QED
        BY <1>2, <1>3, <1>6, <1>9, <2>1, OthersClear
<1>10. QED
    BY <1>5, <1>7, <1>8, <1>9 DEF RetentionInv, PassClears

LEMMA FailureKeeps ==
    ASSUME RetentionInv, NEW p \in RtPasses, PurgeFails(p)
    PROVE  RetentionInv'
<1>1. /\ purge' = [purge EXCEPT ![p] = Resting] /\ rtEdits' = rtEdits + 1
      /\ UNCHANGED <<incident, clip, clipHold, agedIncident, event, eventHold, agedEvent, began, rtRuns>>
    BY DEF PurgeFails
<1>2. Resting \in Passes /\ Resting.phase = 0 /\ Resting.ids = {}
    BY RetentionAssumption DEF Resting, Passes
<1>3. purge' \in [RtPasses -> Passes] /\ purge'[p].phase = 0 /\ purge'[p].ids = {}
      /\ \A q \in RtPasses : q # p => purge'[q] = purge[q]
    BY <1>1, <1>2 DEF RetentionInv, RetentionTyped
<1>4. RetentionTyped'
    BY <1>1, <1>3 DEF RetentionInv, RetentionTyped
<1>5. Pinned' = Pinned
    BY <1>1 DEF Pinned
<1>6. PassProtects'
    BY <1>1, <1>3, <1>5 DEF RetentionInv, PassProtects, IsDue
<1>7. Clears(p, purge[p])'
    BY <1>3 DEF Clears
<1>8. ASSUME NEW q \in RtPasses, q # p PROVE Clears(q, purge[q])'
    BY <1>1, <1>3, <1>5, <1>8, OthersClear
<1>9. QED
    BY <1>4, <1>6, <1>7, <1>8 DEF RetentionInv, PassClears

LEMMA PeopleKeep ==
    ASSUME RetentionInv,
           \/ \E e \in RtEvents, hold \in BOOLEAN : HoldEvent(e, hold)
           \/ \E i \in RtIncidents : \/ \E hold \in BOOLEAN : HoldClip(i, hold)
                                     \/ \E s \in {"acknowledged", "resolved"} : WorkOn(i, s)
    PROVE  RetentionInv' /\ UNCHANGED <<event, clip, purge>> /\ rtEdits' = rtEdits + 1
           /\ \A i \in RtIncidents : incident'[i] = "deleted" => incident[i] = "deleted"
<1>1. UNCHANGED <<event, clip, purge, agedIncident, agedEvent, began, rtRuns>> /\ rtEdits' = rtEdits + 1
    BY DEF HoldEvent, HoldClip, WorkOn, RtEdit
<1>2. RetentionTyped'
    BY <1>1 DEF HoldEvent, HoldClip, WorkOn, RtEdit, RetentionInv, RetentionTyped
<1>3. \A i \in RtIncidents : incident'[i] = "deleted" <=> incident[i] = "deleted"
    BY DEF HoldEvent, HoldClip, WorkOn, RetentionInv, RetentionTyped
<1>4. Pinned' \subseteq Pinned
    BY <1>3 DEF Pinned
<1>5. PassProtects'
    BY <1>1, <1>4 DEF RetentionInv, PassProtects, IsDue
<1>6. ASSUME NEW q \in RtPasses PROVE Clears(q, purge[q])'
    BY <1>1, <1>4, OthersClear
<1>7. QED
    BY <1>1, <1>2, <1>3, <1>5, <1>6 DEF RetentionInv, PassClears

\* What the deletion of a batch does to the incidents and their clips.
LEMMA IncidentsDeleted ==
    ASSUME RetentionInv, NEW p \in RtPasses, DeleteBatch(p)
    PROVE  /\ incident' \in [RtIncidents -> {"open", "acknowledged", "resolved", "deleted"}]
           /\ clip' \in [RtIncidents -> {"none", "ready", "expired"}]
           /\ \A i \in RtIncidents : clip'[i] # clip[i] =>
                 incident[i] = "resolved" /\ ~clipHold[i] /\ agedIncident[i] # "young"
           /\ \A i \in RtIncidents : incident'[i] = "deleted" /\ incident[i] # "deleted" => agedIncident[i] = "old"
           /\ \A i \in RtIncidents : incident'[i] # "deleted" => incident[i] # "deleted"
           /\ purge[p].phase # 1 => incident' = incident
           /\ purge[p].phase \in {1, 3} => event' = event
<1>1. purge[p].phase \in 0..6
    BY DEF RetentionInv, RetentionTyped, Passes
<1>2. /\ incident \in [RtIncidents -> {"open", "acknowledged", "resolved", "deleted"}]
      /\ clip \in [RtIncidents -> {"none", "ready", "expired"}]
    BY DEF RetentionInv, RetentionTyped
<1>3. CASE PhaseOf(p) \in {"incidents", "clips"}
    <2> DEFINE age == IF PhaseOf(p) = "clips" THEN "media" ELSE "old"
               gone == StillDeletable(purge[p].ids, age)
               kind == IF PhaseOf(p) = "clips" THEN "expired" ELSE "none"
    <2>1. /\ clip' = [i \in RtIncidents |-> IF i \in gone THEN kind ELSE clip[i]]
          /\ incident' = IF PhaseOf(p) = "clips" THEN incident
                         ELSE [i \in RtIncidents |-> IF i \in gone THEN "deleted" ELSE incident[i]]
          /\ event' = event
        BY <1>3 DEF DeleteBatch
    <2>2. \A i \in gone : /\ incident[i] = "resolved" /\ ~clipHold[i] /\ agedIncident[i] # "young"
                          /\ PhaseOf(p) = "clips" \/ agedIncident[i] = "old"
        BY DEF StillDeletable, Deletable
    <2>3. kind \in {"expired", "none"}
        OBVIOUS
    <2>4. purge[p].phase # 1 => PhaseOf(p) = "clips"
        BY <1>1, <1>3, PhaseNames
    <2> HIDE DEF gone, kind
    <2>5. QED
        BY <1>2, <2>1, <2>2, <2>3, <2>4
<1>4. CASE PhaseOf(p) \notin {"incidents", "clips"}
    <2>1. UNCHANGED <<incident, clip>>
        BY <1>4 DEF DeleteBatch
    <2>2. purge[p].phase \notin {1, 3}
        BY <1>1, <1>4, PhaseNames
    <2>3. QED
        BY <1>2, <2>1, <2>2
<1>5. QED
    BY <1>3, <1>4

\* What it does to the events: those of the batch that nobody holds lose what the
\* phase deletes.
LEMMA EventsDeleted ==
    ASSUME RetentionInv, NEW p \in RtPasses, DeleteBatch(p)
    PROVE  /\ event' \in [RtEvents -> SUBSET Parts]
           /\ \A e \in RtEvents : event'[e] # event[e] =>
                 e \in purge[p].ids /\ ~eventHold[e] /\ purge[p].phase \in {4, 5, 6}
           /\ purge[p].phase # 6 => \A e \in RtEvents : event'[e] # event[e] => "row" \in event'[e]
           /\ \A e \in RtEvents : event'[e] \subseteq event[e]
           /\ purge[p].phase = 6 => \A e \in RtEvents : Unheld(e) /\ e \in purge[p].ids => event'[e] = {}
<1>1. purge[p].phase \in 0..6 /\ purge[p].phase \notin {0, 2} /\ event \in [RtEvents -> SUBSET Parts]
    BY DEF RetentionInv, RetentionTyped, Passes, PassProtects, DeleteBatch
<1>2. CASE PhaseOf(p) \in {"incidents", "clips"}
    <2>1. purge[p].phase \in {1, 3}
        BY <1>1, <1>2, PhaseNames
    <2>2. QED
        BY <1>1, <2>1, IncidentsDeleted
<1>3. CASE PhaseOf(p) \notin {"incidents", "clips"}
    <2> DEFINE lost == CASE PhaseOf(p) = "media" -> {"photo"}
                         [] PhaseOf(p) = "analyses" -> {"analysis"}
                         [] OTHER -> Parts
               ids == purge[p].ids
    <2>1. event' = [e \in RtEvents |-> IF e \in StillUnheld(ids) THEN event[e] \ lost ELSE event[e]]
        BY <1>3 DEF DeleteBatch
    <2>2. IF purge[p].phase = 6 THEN lost = Parts ELSE "row" \notin lost
        BY <1>1, <1>3, PhaseNames
    <2>3. purge[p].phase \in {4, 5, 6}
        BY <1>1, <1>3, PhaseNames
    <2> HIDE DEF lost
    <2>4. QED
        BY <1>1, <2>1, <2>2, <2>3 DEF StillUnheld, Unheld
<1>4. QED
    BY <1>2, <1>3

\* The rows of a batch that nobody could hold meanwhile are gone after it, whoever
\* deleted them, next to those that were gone already.
LEMMA RowsSpent ==
    ASSUME RetentionInv, NEW p \in RtPasses, DeleteBatch(p), began[p].edits = rtEdits, purge[p].phase = 6
    PROVE  /\ purge[p].ids \subseteq GoneRows'
           /\ Cardinality(GoneRows \ purge[p].ids) + Cardinality(purge[p].ids) <= Cardinality(GoneRows')
           /\ Cardinality(GoneRows \ purge[p].ids) \in Nat /\ Cardinality(purge[p].ids) \in Nat
           /\ Cardinality(GoneRows') \in Nat
           /\ Cardinality(GoneRows') <= Cardinality(RtEvents) /\ Cardinality(RtEvents) \in Nat
<1> DEFINE ids == purge[p].ids
           others == GoneRows \ ids
<1>1. ids \subseteq RtEvents /\ \A e \in ids : ~eventHold[e]
    BY DEF RetentionInv, PassClears, Clears, Spends
<1>2. ASSUME NEW e \in RtEvents, e \in ids \/ "row" \notin event[e] PROVE "row" \notin event'[e]
    <2>1. event'[e] \subseteq event[e]
        BY EventsDeleted
    <2>2. CASE "row" \notin event[e]
        BY <2>1, <2>2
    <2>3. CASE "row" \in event[e]
        <3>1. event'[e] = {}
            BY <1>1, <1>2, <2>3, EventsDeleted DEF Unheld
        <3>2. QED
            BY <3>1
    <2>4. QED
        BY <2>2, <2>3
<1>3. ids \subseteq GoneRows' /\ others \subseteq GoneRows' /\ GoneRows' \subseteq RtEvents
    BY <1>1, <1>2 DEF GoneRows
<1>4. IsFiniteSet(RtEvents)
    BY RetentionAssumption
<1>5. IsFiniteSet(GoneRows') /\ Cardinality(GoneRows') <= Cardinality(RtEvents)
    BY <1>3, <1>4, FS_Subset
<1>6. IsFiniteSet(ids) /\ IsFiniteSet(others)
    BY <1>3, <1>5, FS_Subset
<1>7. ids \union others \subseteq GoneRows' /\ others \intersect ids = {}
    BY <1>3
<1> HIDE DEF ids, others
<1>8. Cardinality(others \union ids) = Cardinality(others) + Cardinality(ids) - Cardinality(others \intersect ids)
    BY <1>6, FS_Union
<1>9. Cardinality(others \intersect ids) = 0
    BY <1>7, FS_EmptySet
<1>10. Cardinality(others \union ids) <= Cardinality(GoneRows')
    BY <1>5, <1>7, FS_Subset
<1>11. /\ Cardinality(ids) \in Nat /\ Cardinality(others) \in Nat /\ Cardinality(GoneRows') \in Nat
       /\ Cardinality(RtEvents) \in Nat
    BY <1>4, <1>5, <1>6, FS_CardinalityType
<1>12. Cardinality(others) + Cardinality(ids) <= Cardinality(GoneRows')
    BY <1>8, <1>9, <1>10, <1>11
<1>13. QED
    BY <1>3, <1>5, <1>11, <1>12 DEF ids, others

\* Where a pass goes on after a batch.
LEMMA BatchIsOver ==
    ASSUME RetentionInv, NEW p \in RtPasses, DeleteBatch(p)
    PROVE  LET more == ~(Cardinality(purge[p].ids) < RtBatch) /\ purge[p].left # 1
               s == purge'[p]
           IN  /\ purge[p].phase \in {1, 3, 4, 5, 6} /\ purge[p].left \in 1..RtMaxBatches
               /\ purge' \in [RtPasses -> Passes] /\ \A q \in RtPasses : q # p => purge'[q] = purge[q]
               /\ s.ids = {} /\ (s.phase # 0 => s.left # 0)
               /\ IF more THEN /\ s.phase = purge[p].phase /\ s.left = purge[p].left - 1
                               /\ s.protected = purge[p].protected
                  ELSE IF purge[p].phase = 6 THEN s = Resting /\ s.phase = 0
                  ELSE /\ s.phase = purge[p].phase + 1 /\ s.left = RtMaxBatches
                       /\ s.protected = purge[p].protected
<1> DEFINE stops == Cardinality(purge[p].ids) < RtBatch \/ purge[p].left = 1
           again == [purge[p] EXCEPT !.ids = {}, !.left = @ - 1]
<1>1. purge[p] \in Passes /\ purge \in [RtPasses -> Passes] /\ RtMaxBatches \in Nat \ {0}
    BY RetentionAssumption DEF RetentionInv, RetentionTyped
<1>2. purge[p].phase \in {1, 3, 4, 5, 6} /\ purge[p].left \in 1..RtMaxBatches
    <2>1. purge[p].phase \in 0..6 /\ purge[p].left \in 0..RtMaxBatches
        BY <1>1 DEF Passes
    <2>2. purge[p].phase \notin {0, 2}
        BY DEF DeleteBatch, RetentionInv, PassProtects
    <2>3. purge[p].left # 0
        BY <2>2 DEF RetentionInv, PassProtects
    <2>4. QED
        BY <1>1, <2>1, <2>2, <2>3
<1>3. purge' = [purge EXCEPT ![p] = IF stops THEN NextPhase(p) ELSE again]
    BY DEF DeleteBatch
<1>4. /\ NextPhase(p) \in Passes /\ NextPhase(p).ids = {} /\ Resting.phase = 0
      /\ IF purge[p].phase = 6 THEN NextPhase(p) = Resting
         ELSE /\ NextPhase(p).phase = purge[p].phase + 1 /\ NextPhase(p).left = RtMaxBatches
              /\ NextPhase(p).protected = purge[p].protected
    BY <1>2, NextPhaseMade
<1>5. purge[p].left # 1 =>
         /\ again \in Passes /\ again.ids = {} /\ again.phase = purge[p].phase
         /\ again.left = purge[p].left - 1 /\ again.protected = purge[p].protected
    <2> DEFINE o == purge[p]
               l == o.left - 1
               o1 == [o EXCEPT !.ids = {}]
               o2 == [o1 EXCEPT !.left = l]
    <2> SUFFICES ASSUME o.left # 1
                 PROVE  /\ again \in Passes /\ again.ids = {} /\ again.phase = purge[p].phase
                        /\ again.left = purge[p].left - 1 /\ again.protected = purge[p].protected
        OBVIOUS
    <2>1. again = o2
        BY <1>1 DEF Passes
    <2>2. l \in 0..RtMaxBatches /\ o \in Passes
        BY <1>1, <1>2
    <2> HIDE DEF o, l
    <2>3. o1 \in Passes /\ o1.ids = {} /\ o1.phase = o.phase /\ o1.protected = o.protected
        BY <2>2 DEF Passes
    <2> HIDE DEF o1
    <2>4. o2 \in Passes /\ o2.ids = {} /\ o2.phase = o.phase /\ o2.protected = o.protected /\ o2.left = l
        BY <2>2, <2>3 DEF Passes
    <2>5. QED
        BY <2>1, <2>4 DEF o, l
<1> HIDE DEF again
<1>6. CASE stops
    <2>1. purge' = [purge EXCEPT ![p] = NextPhase(p)]
        BY <1>3, <1>6
    <2>2. purge' \in [RtPasses -> Passes] /\ purge'[p] = NextPhase(p)
          /\ \A q \in RtPasses : q # p => purge'[q] = purge[q]
        BY <1>1, <1>4, <2>1
    <2>3. NextPhase(p).phase # 0 => NextPhase(p).left # 0
        BY <1>1, <1>4
    <2>4. QED
        BY <1>2, <1>4, <1>6, <2>2, <2>3
<1>7. CASE ~stops
    <2>1. purge' = [purge EXCEPT ![p] = again] /\ purge[p].left # 1
        BY <1>3, <1>7
    <2>2. purge' \in [RtPasses -> Passes] /\ purge'[p] = again
          /\ \A q \in RtPasses : q # p => purge'[q] = purge[q]
        BY <1>1, <1>5, <2>1
    <2>3. again.left # 0
        BY <1>2, <1>5, <2>1
    <2>4. QED
        BY <1>2, <1>5, <1>7, <2>1, <2>2, <2>3
<1>8. QED
    BY <1>6, <1>7

LEMMA DeleteKeeps ==
    ASSUME RetentionInv, NEW p \in RtPasses, DeleteBatch(p)
    PROVE  RetentionInv'
<1> DEFINE s == purge'[p]
           more == ~(Cardinality(purge[p].ids) < RtBatch) /\ purge[p].left # 1
<1>1. UNCHANGED <<clipHold, agedIncident, eventHold, agedEvent, began, rtRuns, rtEdits>>
    BY DEF DeleteBatch
<1>2. /\ purge[p].phase \in {1, 3, 4, 5, 6} /\ purge[p].left \in 1..RtMaxBatches
      /\ purge' \in [RtPasses -> Passes] /\ \A q \in RtPasses : q # p => purge'[q] = purge[q]
      /\ s.ids = {} /\ (s.phase # 0 => s.left # 0)
      /\ IF more THEN /\ s.phase = purge[p].phase /\ s.left = purge[p].left - 1
                      /\ s.protected = purge[p].protected
         ELSE IF purge[p].phase = 6 THEN s = Resting /\ s.phase = 0
         ELSE /\ s.phase = purge[p].phase + 1 /\ s.left = RtMaxBatches
              /\ s.protected = purge[p].protected
    BY BatchIsOver
<1>3. /\ incident' \in [RtIncidents -> {"open", "acknowledged", "resolved", "deleted"}]
      /\ clip' \in [RtIncidents -> {"none", "ready", "expired"}]
      /\ event' \in [RtEvents -> SUBSET Parts]
    BY IncidentsDeleted, EventsDeleted
<1>4. RetentionTyped'
    BY <1>1, <1>2, <1>3 DEF RetentionInv, RetentionTyped
<1>5. Pinned' \subseteq Pinned /\ (purge[p].phase # 1 => Pinned' = Pinned)
    <2>1. \A i \in RtIncidents : incident'[i] # "deleted" => incident[i] # "deleted"
        BY IncidentsDeleted
    <2>2. purge[p].phase # 1 => incident' = incident
        BY IncidentsDeleted
    <2>3. QED
        BY <2>1, <2>2 DEF Pinned
<1> HIDE DEF s, more
<1>6. PassProtects'
    <2> SUFFICES ASSUME NEW q \in RtPasses
                 PROVE  /\ purge'[q].phase \in {0, 2} => purge'[q].ids = {}
                        /\ purge'[q].phase # 0 => purge'[q].left # 0
                        /\ purge'[q].phase >= 3 => Pinned' \subseteq purge'[q].protected
                        /\ purge'[q].phase >= 4 => purge'[q].ids \intersect purge'[q].protected = {}
                        /\ purge'[q].phase >= 4 =>
                              \A e \in purge'[q].ids \intersect RtEvents : IsDue(e, purge[q].phase)'
        BY <1>1 DEF PassProtects, IsDue
    <2>1. CASE q # p
        BY <1>1, <1>2, <1>5, <2>1 DEF RetentionInv, PassProtects, IsDue
    <2>2. CASE q = p
        <3>1. purge[p].phase >= 3 => Pinned \subseteq purge[p].protected
            BY DEF RetentionInv, PassProtects
        <3>2. s.phase >= 3 => purge[p].phase >= 3 /\ s.protected = purge[p].protected
            BY <1>2
        <3>3. QED
            BY <1>2, <1>5, <2>2, <3>1, <3>2 DEF s
    <2>3. QED
        BY <2>1, <2>2
<1>7. ASSUME NEW q \in RtPasses, q # p PROVE Clears(q, purge[q])'
    <2>1. \A e \in RtEvents : event'[e] \subseteq event[e]
        BY EventsDeleted
    <2>2. QED
        BY <1>1, <1>2, <1>5, <1>7, <2>1, OthersClear
<1>8. Clears(p, purge[p])'
    <2>1. Clears(p, purge[p]) /\ rtEdits' = rtEdits /\ began' = began
        BY <1>1 DEF RetentionInv, PassClears
    <2>2. s.phase # 0 => began[p].edits <= rtEdits
        BY <1>2, <2>1 DEF Clears
    <2>3. s.phase \in {1, 2} => Pinned' \subseteq began[p].pinned
        BY <1>2, <1>5, <2>1 DEF Clears
    <2>4. s.phase >= 3 => s.protected \subseteq began[p].pinned
        BY <1>2, <2>1 DEF Clears
    <2>5. ASSUME s.phase = 6, began[p].edits = rtEdits
          PROVE  RtBatch * (RtMaxBatches - s.left) <= Cardinality(GoneRows')
        <3>1. CASE more /\ purge[p].phase = 6
            <4>1. /\ Cardinality(GoneRows \ purge[p].ids) + Cardinality(purge[p].ids) <= Cardinality(GoneRows')
                  /\ Cardinality(GoneRows \ purge[p].ids) \in Nat /\ Cardinality(purge[p].ids) \in Nat
                  /\ Cardinality(GoneRows') \in Nat
                BY <2>5, <3>1, RowsSpent
            <4>2. Cardinality(purge[p].ids) >= RtBatch /\ RtBatch \in Nat /\ RtMaxBatches \in Nat
                BY <3>1, <4>1, RetentionAssumption DEF more
            <4> DEFINE u == RtMaxBatches - purge[p].left
            <4>3. u \in Nat /\ RtMaxBatches - s.left = u + 1
                BY <1>2, <3>1, <4>2
            <4>4. RtBatch * u <= Cardinality(GoneRows \ purge[p].ids)
                BY <2>1, <2>5, <3>1 DEF Clears, Spends
            <4> HIDE DEF u
            <4>5. RtBatch * (u + 1) = RtBatch * u + RtBatch
                BY <4>2, <4>3
            <4>6. RtBatch * u \in Nat
                BY <4>2, <4>3
            <4>7. QED
                BY <4>1, <4>2, <4>3, <4>4, <4>5, <4>6
        <3>2. CASE s.left = RtMaxBatches
            <4>1. IsFiniteSet(GoneRows')
                BY RetentionAssumption, FS_Subset DEF GoneRows
            <4>2. Cardinality(GoneRows') \in Nat
                BY <4>1, FS_CardinalityType
            <4>3. RtBatch * (RtMaxBatches - s.left) = 0
                BY <3>2, RetentionAssumption
            <4>4. QED
                BY <4>2, <4>3
        <3>3. QED
            BY <1>2, <2>5, <3>1, <3>2
    <2>6. GoneRows' \ s.ids = GoneRows' /\ s.ids = {}
        BY <1>2
    <2>7. s.phase = 6 /\ began[p].edits = rtEdits => Spends(purge[p])'
        BY <2>5, <2>6 DEF Spends, s
    <2>8. QED
        BY <2>1, <2>2, <2>3, <2>4, <2>7 DEF Clears, s
<1>9. QED
    BY <1>4, <1>6, <1>7, <1>8 DEF RetentionInv, PassClears

LEMMA BacklogIsCleared ==
    ASSUME RetentionInv, RetentionNext, NEW p \in RtPasses,
           PhaseOf(p) = "events", purge'[p] = Resting, rtEdits' = began[p].edits,
           RtBatch * RtMaxBatches > Cardinality(RtEvents),
           NEW e \in RtEvents, agedEvent[e] = "old", ~eventHold[e], "row" \in event'[e]
    PROVE  e \in began[p].pinned
<1>1. /\ purge[p].phase = 6 /\ purge[p] \in Passes /\ purge \in [RtPasses -> Passes] /\ rtEdits \in Nat
      /\ began[p].edits \in Nat
    BY PhaseNames DEF RetentionInv, RetentionTyped, Passes
<1>2. Resting.phase = 0
    BY DEF Resting
<1>3. rtEdits' # rtEdits + 1 /\ purge[p].protected \subseteq began[p].pinned
    <2>1. began[p].edits <= rtEdits /\ purge[p].protected \subseteq began[p].pinned
        BY <1>1 DEF RetentionInv, PassClears, Clears
    <2>2. \A m, n \in Nat : m <= n => m # n + 1
        OBVIOUS
    <2>3. QED
        BY <1>1, <2>1, <2>2
<1>4. Select(p) \/ DeleteBatch(p)
    <2>1. CASE \E q \in RtPasses : RunPurge(q) \/ Protect(q) \/ Select(q) \/ DeleteBatch(q)
        <3>1. PICK q \in RtPasses : RunPurge(q) \/ Protect(q) \/ Select(q) \/ DeleteBatch(q)
            BY <2>1
        <3>2. \E s : purge' = [purge EXCEPT ![q] = s]
            BY <3>1 DEF RunPurge, Protect, Select, DeleteBatch
        <3>3. q = p
            BY <1>1, <1>2, <3>2
        <3>4. ~RunPurge(p) /\ ~Protect(p)
            BY <1>1 DEF RunPurge, Protect
        <3>5. QED
            BY <3>1, <3>3, <3>4
    <2>2. CASE \E q \in RtPasses : PurgeFails(q)
        BY <1>3, <2>2 DEF PurgeFails
    <2>3. CASE \/ \E d \in RtEvents, hold \in BOOLEAN : HoldEvent(d, hold)
               \/ \E i \in RtIncidents : \/ \E hold \in BOOLEAN : HoldClip(i, hold)
                                         \/ \E s \in {"acknowledged", "resolved"} : WorkOn(i, s)
        BY <1>3, <2>3, PeopleKeep
    <2>4. QED
        BY <2>1, <2>2, <2>3 DEF RetentionNext, PassStep
<1>5. rtEdits' = rtEdits /\ Spends(purge[p]) /\ "row" \in event[e]
    <2>1. rtEdits' = rtEdits
        BY <1>4 DEF Select, DeleteBatch
    <2>2. Spends(purge[p])
        BY <1>1, <2>1 DEF RetentionInv, PassClears, Clears
    <2>3. "row" \in event[e]
        BY <1>4, EventsDeleted DEF Select
    <2>4. QED
        BY <2>1, <2>2, <2>3
<1>6. e \in AgedFor("row")
    BY <1>5 DEF AgedFor, Unheld
<1>7. RtBatch \in Nat \ {0} /\ RtMaxBatches \in Nat \ {0}
    BY RetentionAssumption
<1>8. CASE Select(p)
    <2>1. PICK B \in SelectsFrom(p) :
              purge' = [purge EXCEPT ![p] = IF B = {} THEN NextPhase(p) ELSE [purge[p] EXCEPT !.ids = B]]
        BY <1>8 DEF Select
    <2>2. B = {}
        <3> SUFFICES ASSUME B # {} PROVE FALSE
            OBVIOUS
        <3>1. purge'[p] = [purge[p] EXCEPT !.ids = B]
            BY <1>1, <2>1
        <3>2. purge'[p].phase = 6
            BY <1>1, <3>1 DEF Passes
        <3>3. QED
            BY <1>2, <3>2
    <2>3. Purgeable(purge[p].protected) = {}
        BY <1>1, <2>2, SelectedBatch
    <2>4. Cardinality({}) = 0
        BY FS_EmptySet
    <2>5. Cardinality(Purgeable(purge[p].protected)) < RtBatch
        BY <1>7, <2>3, <2>4
    <2>6. QED
        BY <1>3, <1>6, <2>3, <2>5, NoneLeft
<1>9. CASE DeleteBatch(p)
    <2> DEFINE ids == purge[p].ids
               more == ~(Cardinality(ids) < RtBatch) /\ purge[p].left # 1
    <2>1. ~more /\ purge[p].left \in 1..RtMaxBatches
        BY <1>1, <1>2, <1>9, BatchIsOver
    <2>2. RtBatch * (RtMaxBatches - purge[p].left) <= Cardinality(GoneRows \ ids) /\ ids # {}
        BY <1>5, <1>9 DEF Spends, DeleteBatch
    <2>3. CASE Cardinality(ids) < RtBatch
        <3>1. e \notin ids
            BY <1>1, <1>5, <1>9, EventsDeleted DEF Unheld
        <3>2. AgedFor("row") \ purge[p].protected \subseteq ids
            BY <1>5, <2>2, <2>3 DEF Spends
        <3>3. QED
            BY <1>3, <1>6, <3>1, <3>2
    <2>4. CASE ~(Cardinality(ids) < RtBatch) /\ purge[p].left = 1
        <3>1. /\ Cardinality(GoneRows \ ids) + Cardinality(ids) <= Cardinality(GoneRows')
              /\ Cardinality(GoneRows \ ids) \in Nat /\ Cardinality(ids) \in Nat
              /\ Cardinality(GoneRows') \in Nat
              /\ Cardinality(GoneRows') <= Cardinality(RtEvents) /\ Cardinality(RtEvents) \in Nat
            BY <1>1, <1>5, <1>9, RowsSpent
        <3>2. RtBatch * (RtMaxBatches - 1) = RtBatch * RtMaxBatches - RtBatch
            BY <1>7
        <3>3. RtBatch * RtMaxBatches \in Nat
            BY <1>7
        <3> HIDE DEF ids
        <3>4. FALSE
            BY <1>7, <2>2, <2>4, <3>1, <3>2, <3>3
        <3>5. QED
            BY <3>4
    <2>5. QED
        BY <2>1, <2>3, <2>4
<1>10. QED
    BY <1>4, <1>8, <1>9

LEMMA RetentionStep ==
    ASSUME RetentionInv, RetentionNext
    PROVE  RetentionInv'
<1>1. CASE \E p \in RtPasses : RunPurge(p) \/ Protect(p) \/ Select(p) \/ DeleteBatch(p) \/ PurgeFails(p)
    BY <1>1, RunKeeps, ProtectKeeps, SelectKeeps, DeleteKeeps, FailureKeeps
<1>2. CASE \/ \E d \in RtEvents, hold \in BOOLEAN : HoldEvent(d, hold)
           \/ \E i \in RtIncidents : \/ \E hold \in BOOLEAN : HoldClip(i, hold)
                                     \/ \E s \in {"acknowledged", "resolved"} : WorkOn(i, s)
    BY <1>2, PeopleKeep
<1>3. QED
    BY <1>1, <1>2 DEF RetentionNext, PassStep

\* Only what is free to go is deleted.
LEMMA OnlyTheFreeGo ==
    ASSUME RetentionInv, RetentionNext
    PROVE  /\ \A e \in RtEvents : event'[e] # event[e] => ~eventHold[e] /\ e \notin Pinned
           /\ \A i \in RtIncidents : clip'[i] # clip[i] => incident[i] = "resolved" /\ ~clipHold[i]
           /\ \A e \in RtEvents : event'[e] # event[e] =>
                 agedEvent[e] = "old" \/ (agedEvent[e] = "media" /\ "row" \in event'[e])
           /\ \A i \in RtIncidents :
                 /\ clip'[i] # clip[i] => agedIncident[i] # "young"
                 /\ incident'[i] = "deleted" /\ incident[i] # "deleted" => agedIncident[i] = "old"
<1>1. CASE \E p \in RtPasses : DeleteBatch(p)
    <2>1. PICK p \in RtPasses : DeleteBatch(p)
        BY <1>1
    <2>2. purge[p].phase \in {4, 5, 6} =>
             /\ Pinned \subseteq purge[p].protected /\ purge[p].ids \intersect purge[p].protected = {}
             /\ \A e \in purge[p].ids \intersect RtEvents : IsDue(e, purge[p].phase)
        BY DEF RetentionInv, PassProtects
    <2>3. QED
        BY <2>1, <2>2, EventsDeleted, IncidentsDeleted DEF IsDue
<1> DEFINE Spared == UNCHANGED <<event, clip>>
                     /\ \A i \in RtIncidents : incident'[i] = "deleted" => incident[i] = "deleted"
<1>2. CASE Spared
    BY <1>2
<1>3. Spared \/ \E p \in RtPasses : DeleteBatch(p)
    BY PeopleKeep DEF RetentionNext, PassStep, RunPurge, Protect, Select, PurgeFails
<1>4. QED
    BY <1>1, <1>2, <1>3

\* The purge takes what has aged, and nothing that has not, that is held, protected or
\* worked on, whenever the hold came, and leaves no row that may go (run,
\* _lock_unheld, _purgeable_event_ids).
THEOREM PurgeIsExactThroughout == RetentionSpec => PurgeIsExact
<1>1. RetentionInit => RetentionInv
    <2> SUFFICES ASSUME RetentionInit PROVE RetentionInv
        OBVIOUS
    <2>1. Resting \in Passes /\ Resting.phase = 0 /\ Resting.ids = {}
        BY RetentionAssumption DEF Resting, Passes
    <2>2. RetentionTyped
        BY <2>1 DEF RetentionInit, RetentionTyped
    <2>3. PassProtects /\ PassClears
        BY <2>1 DEF RetentionInit, PassProtects, PassClears, Clears
    <2>4. QED
        BY <2>2, <2>3 DEF RetentionInv
<1>2. RetentionInv /\ [RetentionNext]_retentionVars => RetentionInv'
    <2> SUFFICES ASSUME RetentionInv, UNCHANGED retentionVars PROVE RetentionInv'
        BY RetentionStep
    <2>1. RetentionTyped'
        BY DEF retentionVars, RetentionInv, RetentionTyped
    <2>2. PassProtects'
        BY DEF retentionVars, RetentionInv, PassProtects, Pinned, IsDue
    <2>3. PassClears'
        <3>1. Pinned' = Pinned
            BY DEF retentionVars, Pinned
        <3>2. /\ purge' = purge /\ began' = began /\ agedEvent' = agedEvent /\ event' = event
              /\ rtEdits' = rtEdits /\ eventHold' = eventHold
            BY DEF retentionVars
        <3>3. ASSUME NEW q \in RtPasses PROVE Clears(q, purge[q])'
            BY <3>1, <3>2, OthersClear
        <3>4. QED
            BY <3>3 DEF PassClears
    <2>4. QED
        BY <2>1, <2>2, <2>3 DEF RetentionInv
<1>3. RetentionInv /\ [RetentionNext]_retentionVars =>
         [\A e \in RtEvents : event'[e] # event[e] => ~eventHold[e] /\ e \notin Pinned]_retentionVars
    BY OnlyTheFreeGo
<1>4. RetentionInv /\ [RetentionNext]_retentionVars =>
         [\A i \in RtIncidents :
             clip'[i] # clip[i] => incident[i] = "resolved" /\ ~clipHold[i]]_retentionVars
    BY OnlyTheFreeGo
<1>5. RetentionInv /\ [RetentionNext]_retentionVars =>
         [/\ \A e \in RtEvents : event'[e] # event[e] =>
                agedEvent[e] = "old" \/ (agedEvent[e] = "media" /\ "row" \in event'[e])
          /\ \A i \in RtIncidents :
                /\ clip'[i] # clip[i] => agedIncident[i] # "young"
                /\ incident'[i] = "deleted" /\ incident[i] # "deleted" => agedIncident[i] = "old"
         ]_retentionVars
    BY OnlyTheFreeGo
<1>6. RetentionInv /\ [RetentionNext]_retentionVars =>
         [\A p \in RtPasses :
             /\ PhaseOf(p) = "events" /\ purge'[p] = Resting /\ rtEdits' = began[p].edits
             /\ RtBatch * RtMaxBatches > Cardinality(RtEvents)
             => \A e \in RtEvents :
                   agedEvent[e] = "old" /\ ~eventHold[e] /\ "row" \in event'[e]
                      => e \in began[p].pinned]_retentionVars
    BY BacklogIsCleared
<1>7. QED
    BY <1>1, <1>2, <1>3, <1>4, <1>5, <1>6, PTL DEF RetentionSpec, PurgeIsExact, EvidenceIsKept, ClipIsKept,
                                                  OnlyAged, NoBacklog

-------------------------------------------------------------------------------
(* Mailbox                                                                 *)

BoxFields == {"visiting", "ref", "open", "pending", "lidAge", "visit", "age", "seen", "misses", "changed",
              "before", "package", "ended", "asking", "last"}
IsBox(b) == b = [f \in BoxFields |-> b[f]]
IsAsk(a) == a = [f \in {"visit", "changed", "age"} |-> a[f]]

MailboxTyped ==
    /\ visits \in 0..MailVisits /\ reported \in [1..MailVisits -> Nat]
    /\ IsBox(box) /\ box.visiting \in BOOLEAN /\ box.visit \in 0..visits
    /\ asked = NoVisit \/ IsAsk(asked)
    /\ mailAnswered \in Answers \union {"no"} /\ (mailAnswered # "no" => asked # NoVisit)

\* The database's word on a transition is when it was last told.
ClaimIsTheLastWord == claims = spoken

\* A visit that has no event yet is in one place: under way, being checked, or an
\* event still to be emitted; and one that has its event is in none.
Unreported == {v \in 1..visits : reported[v] = 0}
VisitIsInOnePlace ==
    /\ \A v \in 1..MailVisits : reported[v] <= 1 /\ (v > visits => reported[v] = 0)
    /\ \A e \in unsent : e.visit \in Unreported /\ (\A f \in unsent : e.visit = f.visit => e = f)
    /\ asked # NoVisit => asked.visit \in Unreported /\ (\A e \in unsent : e.visit # asked.visit)
    /\ box.visiting => /\ box.visit \in Unreported
                       /\ \A e \in unsent : e.visit # box.visit
                       /\ asked # NoVisit => asked.visit # box.visit

MailboxInv == MailboxTyped /\ ClaimIsTheLastWord /\ VisitIsInOnePlace

\* --- what the operators make of the record ------------------------------------

SameVisit(b, c) == IsBox(c) /\ c.visit = b.visit /\ c.visiting = b.visiting
OneEventOf(sent, v) == (\A e \in sent : e.visit = v) /\ (\A e, f \in sent : e = f)

LEMMA AgedBoxKeeps ==
    ASSUME NEW b, IsBox(b) PROVE SameVisit(b, AgedBox(b))
BY DEF AgedBox, IsBox, BoxFields, SameVisit

LEMMA RebasedKeeps ==
    ASSUME NEW b, IsBox(b) PROVE SameVisit(b, Rebased(b))
BY DEF Rebased, IsBox, BoxFields, SameVisit

LEMMA LidKeeps ==
    ASSUME NEW b, IsBox(b), NEW r, NEW near PROVE SameVisit(b, LidUpdate(b, r, near).box)
<1>1. SameVisit(b, b) /\ SameVisit(b, Rebased(b))
    BY RebasedKeeps DEF SameVisit
<1>2. SameVisit(b, [b EXCEPT !.open = FALSE, !.lidAge = 0, !.pending = 0])
    BY DEF IsBox, BoxFields, SameVisit
<1>3. SameVisit(b, [b EXCEPT !.open = TRUE, !.lidAge = 0, !.pending = 0])
    BY DEF IsBox, BoxFields, SameVisit
<1>4. SameVisit(b, [b EXCEPT !.pending = @ + 1]) /\ SameVisit(b, [b EXCEPT !.pending = 0])
    BY DEF IsBox, BoxFields, SameVisit
<1>5. LidUpdate(b, r, near).box \in
         {b, Rebased(b), [b EXCEPT !.open = FALSE, !.lidAge = 0, !.pending = 0],
          [b EXCEPT !.open = TRUE, !.lidAge = 0, !.pending = 0], [b EXCEPT !.pending = @ + 1],
          [b EXCEPT !.pending = 0]}
    BY DEF LidUpdate
<1>6. QED
    BY <1>1, <1>2, <1>3, <1>4, <1>5

\* A result is at most one event, of the visit it was asked about.
LEMMA ResultMade ==
    ASSUME NEW b, IsBox(b), NEW context, NEW action
    PROVE  /\ SameVisit(b, Result(b, context, action).box)
           /\ OneEventOf(Result(b, context, action).out, context.visit)
<1> DEFINE t == Classify(context, action)
           ev == [what |-> t, visit |-> context.visit, age |-> context.age]
           kept1 == [b EXCEPT !.last[t] = context.age]
<1> HIDE DEF t
<1>1. Result(b, context, action) \in {[box |-> b, out |-> {}], [box |-> kept1, out |-> {ev}]}
    BY DEF Result, t
<1>2. SameVisit(b, b) /\ SameVisit(b, kept1)
    BY DEF IsBox, BoxFields, SameVisit
<1>3. OneEventOf({}, context.visit) /\ OneEventOf({ev}, context.visit)
    BY DEF OneEventOf
<1> HIDE DEF kept1, ev
<1>4. QED
    BY <1>1, <1>2, <1>3

\* A finished visit is reported, or asked about when nothing else is, but not both.
LEMMA FinishMade ==
    ASSUME NEW b, IsBox(b), NEW package, NEW verify, NEW waiting
    PROVE  LET done == FinishVisit(b, package, verify, waiting) IN
           /\ SameVisit(b, done.box) /\ OneEventOf(done.out, b.visit)
           /\ \/ done.ask = waiting
              \/ waiting = NoVisit /\ done.out = {} /\ IsAsk(done.ask) /\ done.ask.visit = b.visit
<1> DEFINE context == Context(b, b.changed)
           local == IF package /\ ~b.before THEN "deposited"
                    ELSE IF ~package /\ b.before THEN "retrieved" ELSE "nothing"
           res == Result(b, context, local)
           done == FinishVisit(b, package, verify, waiting)
<1>1. SameVisit(b, b) /\ SameVisit(b, [b EXCEPT !.asking = 0])
    BY DEF IsBox, BoxFields, SameVisit
<1>2. context.visit = b.visit /\ IsAsk(context)
    BY DEF Context, IsAsk
<1>3. SameVisit(b, res.box) /\ OneEventOf(res.out, b.visit)
    <2> HIDE DEF context, local
    <2>1. QED
        BY <1>2, ResultMade
<1>4. OneEventOf({}, b.visit)
    BY DEF OneEventOf
<1>5. \/ done = [box |-> b, out |-> {}, ask |-> waiting]
      \/ waiting = NoVisit /\ done = [box |-> [b EXCEPT !.asking = 0], out |-> {}, ask |-> context]
      \/ done = [box |-> res.box, out |-> res.out, ask |-> waiting]
    <2> HIDE DEF context
    <2>1. QED
        BY DEF FinishVisit, context
<1> HIDE DEF context, res, done
<1>6. QED
    BY <1>1, <1>2, <1>3, <1>4, <1>5 DEF done

\* An opening nobody was seen at is told as a visit of its own.
LEMMA StandaloneMade ==
    ASSUME NEW b, IsBox(b)
    PROVE  LET done == StandaloneOpen(b) IN
           /\ IsBox(done.box) /\ done.box.visiting = b.visiting
           /\ \/ done.box.visit = b.visit /\ done.out = {}
              \/ done.box.visit = visits + 1 /\ OneEventOf(done.out, visits + 1)
<1> DEFINE u == [b EXCEPT !.visit = visits + 1, !.seen = 0, !.changed = TRUE, !.before = b.package]
           res == Result(u, Context(u, TRUE), "opened_only")
<1>1. IsBox(u) /\ u.visit = visits + 1 /\ u.visiting = b.visiting
    BY DEF IsBox, BoxFields
<1>2. Context(u, TRUE).visit = u.visit
    BY DEF Context
<1>3. StandaloneOpen(b) = [box |-> b, out |-> {}] \/ StandaloneOpen(b) = res
    BY DEF StandaloneOpen
<1> HIDE DEF u
<1>4. SameVisit(u, res.box) /\ OneEventOf(res.out, u.visit)
    BY <1>1, <1>2, ResultMade
<1> HIDE DEF res
<1>5. QED
    BY <1>1, <1>3, <1>4 DEF SameVisit

LEMMA BeginVisitMade ==
    ASSUME NEW b, IsBox(b), NEW change
    PROVE  /\ IsBox(BeginVisit(b, change)) /\ BeginVisit(b, change).visit = visits + 1
           /\ BeginVisit(b, change).visiting = TRUE
BY DEF BeginVisit, IsBox, BoxFields

\* What a frame begins with: the record b, the check w that is still waiting, and the
\* result of the one that is not.
Begun(b, w, sent) ==
    /\ IsBox(b) /\ b.visit = box.visit /\ (b.visiting => box.visiting)
    /\ w = NoVisit \/ (asked # NoVisit /\ IsAsk(w) /\ w.visit = asked.visit /\ sent = {})
    /\ sent # {} => asked # NoVisit /\ OneEventOf(sent, asked.visit)

\* A frame moves a visit from one place to the next, and begins others.
LEMMA PlacesAfter ==
    ASSUME MailboxInv, NEW w, NEW sent, NEW more, NEW b, Begun(b, w, sent),
           UNCHANGED <<reported>>, ClaimIsTheLastWord', mailAnswered' = "no",
           visits' \in visits..MailVisits, visits' <= visits + 1,
           IsBox(box'), box'.visiting \in BOOLEAN,
           unsent' = sent \union more,
           \/ /\ box'.visit = b.visit /\ (box'.visiting => b.visiting /\ more = {})
              /\ more # {} => b.visiting /\ OneEventOf(more, b.visit)
              /\ asked' = w \/ (b.visiting /\ ~box'.visiting /\ more = {} /\ IsAsk(asked')
                                  /\ asked'.visit = b.visit)
           \/ /\ box'.visit = visits + 1 /\ visits' = visits + 1 /\ asked' = w
              /\ more # {} => ~box'.visiting /\ OneEventOf(more, visits + 1)
    PROVE  MailboxInv'
<1>1. /\ visits \in 0..MailVisits /\ visits \in Nat /\ visits' \in Nat /\ visits' \in 0..MailVisits
      /\ visits <= visits' /\ reported \in [1..MailVisits -> Nat] /\ box.visit \in 0..visits
      /\ MailVisits \in Nat
    BY MailboxAssumption DEF MailboxInv, MailboxTyped
<1>2. MailboxTyped'
    <2>1. box'.visit \in 0..visits'
        BY <1>1 DEF Begun
    <2>2. asked' = NoVisit \/ IsAsk(asked')
        BY DEF Begun
    <2>3. QED
        BY <1>1, <2>1, <2>2 DEF MailboxTyped
<1>3. \A v \in 1..MailVisits : reported'[v] <= 1 /\ (v > visits' => reported'[v] = 0)
    BY <1>1 DEF MailboxInv, VisitIsInOnePlace
<1>4. Unreported \subseteq Unreported'
    BY <1>1 DEF Unreported
<1>5. visits' = visits + 1 => visits + 1 \in Unreported'
    <2> SUFFICES ASSUME visits' = visits + 1
                 PROVE  visits + 1 \in 1..visits' /\ reported'[visits + 1] = 0
        BY DEF Unreported
    <2>1. visits + 1 \in 1..MailVisits /\ visits + 1 > visits
        BY <1>1
    <2>2. reported[visits + 1] = 0
        BY <2>1 DEF MailboxInv, VisitIsInOnePlace
    <2>3. QED
        BY <1>1, <2>2
<1>6. /\ asked # NoVisit => asked.visit \in Unreported /\ asked.visit \in 1..visits
      /\ b.visiting => b.visit \in Unreported /\ b.visit \in 1..visits
      /\ asked # NoVisit /\ b.visiting => asked.visit # b.visit
    BY DEF MailboxInv, VisitIsInOnePlace, Unreported, Begun
<1>7. \A e \in sent : asked # NoVisit /\ e.visit = asked.visit
    BY DEF Begun, OneEventOf
<1>8. /\ \A e, f \in sent : e = f
      /\ \A e, f \in more : e = f
      /\ \A e \in more : \/ e.visit = b.visit /\ b.visiting /\ box'.visit = b.visit
                         \/ e.visit = visits + 1 /\ visits' = visits + 1 /\ box'.visit = visits + 1
    BY DEF Begun, OneEventOf
<1>9. \A e \in sent, f \in more : e.visit # f.visit
    BY <1>1, <1>6, <1>7, <1>8
<1>10. \A e \in unsent' : e.visit \in Unreported' /\ (\A f \in unsent' : e.visit = f.visit => e = f)
    <2> SUFFICES ASSUME NEW e \in unsent'
                 PROVE  e.visit \in Unreported' /\ (\A f \in unsent' : e.visit = f.visit => e = f)
        OBVIOUS
    <2>1. CASE e \in sent
        <3>1. asked.visit \in Unreported /\ e.visit = asked.visit
            BY <1>6, <1>7, <2>1
        <3>2. QED
            BY <1>1, <1>8, <1>9, <2>1, <3>1 DEF Unreported
    <2>2. CASE e \in more
        <3>1. (b.visit \in Unreported /\ e.visit = b.visit) \/ (e.visit = visits + 1 /\ visits' = visits + 1)
            BY <1>6, <1>8, <2>2
        <3>2. e.visit \in 1..visits' /\ reported'[e.visit] = 0
            BY <1>1, <1>5, <3>1 DEF Unreported
        <3>3. QED
            BY <1>8, <1>9, <2>2, <3>2 DEF Unreported
    <2>3. QED
        BY <2>1, <2>2
<1>11. asked' # NoVisit => asked'.visit \in Unreported' /\ (\A e \in unsent' : e.visit # asked'.visit)
    <2>1. CASE asked' = w
        <3>1. w # NoVisit => asked # NoVisit /\ w.visit = asked.visit /\ sent = {}
            BY DEF Begun
        <3>2. w # NoVisit => \A e \in more : e.visit # asked.visit
            BY <1>1, <1>6, <1>8, <3>1
        <3>3. QED
            BY <1>1, <1>6, <2>1, <3>1, <3>2 DEF Unreported
    <2>2. CASE b.visiting /\ more = {} /\ asked'.visit = b.visit
        BY <1>1, <1>6, <1>7, <2>2 DEF Unreported
    <2>3. QED
        BY <2>1, <2>2
<1>12. box'.visiting => /\ box'.visit \in Unreported'
                        /\ \A e \in unsent' : e.visit # box'.visit
                        /\ asked' # NoVisit => asked'.visit # box'.visit
    <2> SUFFICES ASSUME box'.visiting
                 PROVE  /\ box'.visit \in Unreported' /\ (\A e \in unsent' : e.visit # box'.visit)
                        /\ asked' # NoVisit => asked'.visit # box'.visit
        OBVIOUS
    <2>1. more = {} /\ asked' = w
        BY DEF OneEventOf
    <2>2. w # NoVisit => asked # NoVisit /\ w.visit = asked.visit
        BY DEF Begun
    <2>3. CASE box'.visit = b.visit /\ b.visiting
        BY <1>1, <1>6, <1>7, <2>1, <2>2, <2>3 DEF Unreported
    <2>4. CASE box'.visit = visits + 1 /\ visits' = visits + 1
        BY <1>1, <1>5, <1>6, <1>7, <2>1, <2>2, <2>4 DEF Unreported
    <2>5. QED
        BY <2>3, <2>4
<1>13. VisitIsInOnePlace'
    BY <1>3, <1>10, <1>11, <1>12 DEF VisitIsInOnePlace
<1>14. QED
    BY <1>2, <1>13 DEF MailboxInv

\* --- the actions ---------------------------------------------------------------

\* A frame takes the answer there is, and compares the lid.
LEMMA FrameBegins ==
    ASSUME MailboxInv, NEW near, NEW reading, NEW outage \in BOOLEAN
    PROVE  LET b == LidNoted(LidSeen(reading, near, outage)) IN
           Begun(b, StillChecked, AnswerTaken.out) /\ b.visiting \in BOOLEAN
<1> DEFINE seen == [AnswerTaken.box EXCEPT !.visiting = @ /\ ~outage]
           lid == LidSeen(reading, near, outage)
           b   == LidNoted(lid)
<1>1. /\ IsBox(box) /\ box.visiting \in BOOLEAN
      /\ asked = NoVisit \/ IsAsk(asked)
      /\ mailAnswered # "no" => asked # NoVisit
    BY DEF MailboxInv, MailboxTyped
<1>2. SameVisit(box, AgedBox(box))
    BY <1>1, AgedBoxKeeps
<1>3. asked # NoVisit => IsAsk(BeingChecked) /\ BeingChecked.visit = asked.visit
    BY <1>1 DEF IsAsk, BeingChecked
<1>4. \/ StillChecked = NoVisit
      \/ asked # NoVisit /\ mailAnswered = "no" /\ StillChecked = BeingChecked
    BY DEF StillChecked, BeingChecked
<1>5. /\ IsBox(AnswerTaken.box) /\ AnswerTaken.box.visit = box.visit
      /\ AnswerTaken.box.visiting = box.visiting
      /\ mailAnswered = "no" => AnswerTaken.out = {}
      /\ mailAnswered # "no" => OneEventOf(AnswerTaken.out, BeingChecked.visit)
    <2>1. CASE mailAnswered = "no"
        <3>1. AnswerTaken = [box |-> AgedBox(box), out |-> {}]
            BY <2>1 DEF AnswerTaken
        <3>2. QED
            BY <1>2, <2>1, <3>1 DEF SameVisit
    <2>2. CASE mailAnswered # "no"
        <3>1. IsBox(AgedBox(box)) /\ AnswerTaken = Result(AgedBox(box), BeingChecked, mailAnswered)
            BY <1>2, <2>2 DEF SameVisit, AnswerTaken
        <3>2. SameVisit(AgedBox(box), AnswerTaken.box) /\ OneEventOf(AnswerTaken.out, BeingChecked.visit)
            BY <3>1, ResultMade
        <3>3. QED
            BY <1>2, <2>2, <3>2 DEF SameVisit
    <2>3. QED
        BY <2>1, <2>2
<1>6. IsBox(seen) /\ seen.visit = box.visit /\ seen.visiting = (box.visiting /\ ~outage)
    BY <1>5 DEF IsBox, BoxFields
<1>7. lid = LidUpdate(seen, reading, near)
    BY DEF LidSeen
<1> HIDE DEF seen, lid
<1>8. SameVisit(seen, lid.box)
    BY <1>6, <1>7, LidKeeps
<1>9. SameVisit(lid.box, b)
    BY <1>8 DEF IsBox, BoxFields, SameVisit, LidNoted
<1> HIDE DEF b
<1>10. IsBox(b) /\ b.visit = box.visit /\ (b.visiting => box.visiting) /\ b.visiting \in BOOLEAN
    <2>1. b.visiting = (box.visiting /\ ~outage) /\ IsBox(b) /\ b.visit = box.visit
        BY <1>6, <1>8, <1>9 DEF SameVisit
    <2>2. QED
        BY <1>1, <2>1
<1>11. AnswerTaken.out # {} => asked # NoVisit /\ OneEventOf(AnswerTaken.out, asked.visit)
    BY <1>1, <1>3, <1>5
<1>12. \/ StillChecked = NoVisit
       \/ /\ asked # NoVisit /\ IsAsk(StillChecked) /\ StillChecked.visit = asked.visit
          /\ AnswerTaken.out = {}
    BY <1>3, <1>4, <1>5
<1>13. Begun(b, StillChecked, AnswerTaken.out) /\ b.visiting \in BOOLEAN
    BY <1>10, <1>11, <1>12 DEF Begun
<1>14. QED
    BY <1>13 DEF b, lid

\* A frame of a visit reports it, asks about it or goes on, never two of them.
LEMMA VisitFrameMoves ==
    ASSUME MailboxInv, NEW b, NEW w, NEW sent, Begun(b, w, sent), b.visiting, b.visiting \in BOOLEAN,
           NEW near \in BOOLEAN, NEW package, NEW verify,
           VisitFrame(b, near, package, verify, w, sent),
           UNCHANGED <<visits, reported>>, ClaimIsTheLastWord', mailAnswered' = "no"
    PROVE  MailboxInv'
<1>1. IsBox(b) /\ visits \in Nat /\ visits' \in visits..MailVisits /\ visits' <= visits + 1
    BY MailboxAssumption DEF Begun, MailboxInv, MailboxTyped
<1> DEFINE ended == [b EXCEPT !.visiting = FALSE, !.ended = 0, !.package = package]
           done  == FinishVisit(ended, package, verify, w)
           seen  == [b EXCEPT !.seen = IF @ < MailMinObservations THEN @ + 1 ELSE @, !.misses = 0,
                              !.visiting = b.age <= MailMaxVisit]
<1>2. CASE box' = seen /\ unsent' = sent /\ asked' = w
    <2>1. /\ box' = [b EXCEPT !.seen = IF @ < MailMinObservations THEN @ + 1 ELSE @, !.misses = 0,
                              !.visiting = b.age <= MailMaxVisit]
          /\ unsent' = sent /\ asked' = w
        BY <1>2
    <2>2. IsBox(box') /\ box'.visit = b.visit /\ box'.visiting = (b.age <= MailMaxVisit)
        BY <1>1, <2>1 DEF IsBox, BoxFields
    <2>3. box'.visiting \in BOOLEAN
        BY <2>2
    <2>4. QED
        BY <1>1, <2>1, <2>2, <2>3, PlacesAfter, unsent' = sent \union {}
<1>3. CASE box' = [b EXCEPT !.misses = @ + 1] /\ unsent' = sent /\ asked' = w
    <2>1. IsBox(box') /\ box'.visit = b.visit /\ box'.visiting \in BOOLEAN
        BY <1>1, <1>3 DEF IsBox, BoxFields
    <2>2. QED
        BY <1>1, <1>3, <2>1, PlacesAfter, unsent' = sent \union {}
<1>4. CASE box' = done.box /\ unsent' = sent \union done.out /\ asked' = done.ask
    <2>1. IsBox(ended) /\ ended.visit = b.visit /\ ended.visiting = FALSE
        BY <1>1 DEF IsBox, BoxFields
    <2>2. box' = done.box /\ unsent' = sent \union done.out /\ asked' = done.ask
        BY <1>4
    <2> HIDE DEF ended
    <2>3. /\ SameVisit(ended, done.box) /\ OneEventOf(done.out, ended.visit)
          /\ \/ done.ask = w
             \/ w = NoVisit /\ done.out = {} /\ IsAsk(done.ask) /\ done.ask.visit = ended.visit
        BY <2>1, FinishMade
    <2> HIDE DEF done
    <2>4. IsBox(box') /\ box'.visit = b.visit /\ box'.visiting = FALSE
        BY <2>1, <2>2, <2>3 DEF SameVisit
    <2>5. asked' = w \/ (done.out = {} /\ IsAsk(asked') /\ asked'.visit = b.visit)
        BY <2>1, <2>2, <2>3
    <2>6. OneEventOf(done.out, b.visit)
        BY <2>1, <2>3
    <2>7. QED
        BY <1>1, <2>2, <2>4, <2>5, <2>6, PlacesAfter
<1>5. QED
    BY <1>2, <1>3, <1>4 DEF VisitFrame

\* A frame without a visit begins one, or tells an opening as one of its own.
LEMMA IdleFrameMoves ==
    ASSUME MailboxInv, NEW b, NEW w, NEW sent, Begun(b, w, sent), ~b.visiting, b.visiting \in BOOLEAN,
           NEW near \in BOOLEAN, NEW package, NEW change,
           IdleFrame(b, near, package, change, sent), asked' = w,
           UNCHANGED <<reported>>, ClaimIsTheLastWord', mailAnswered' = "no"
    PROVE  MailboxInv'
<1> DEFINE here == [b EXCEPT !.package = package]
           done == IF change = "opened" THEN StandaloneOpen(here) ELSE [box |-> here, out |-> {}]
<1>1. /\ IsBox(b) /\ visits \in Nat /\ b.visit \in 0..visits
    BY MailboxAssumption DEF Begun, MailboxInv, MailboxTyped
<1>2. /\ box' = IF near THEN BeginVisit(b, change) ELSE done.box
      /\ unsent' = IF near THEN sent ELSE sent \union done.out
      /\ visits' = IF box'.visit > visits THEN visits + 1 ELSE visits
      /\ visits' <= MailVisits
    BY DEF IdleFrame
<1>3. visits' \in visits..MailVisits /\ visits' <= visits + 1
    BY <1>1, <1>2, MailboxAssumption
<1>4. CASE near
    <2>1. IsBox(box') /\ box'.visit = visits + 1 /\ box'.visiting = TRUE /\ unsent' = sent \union {}
        BY <1>1, <1>2, <1>4, BeginVisitMade
    <2>2. visits' = visits + 1
        BY <1>1, <1>2, <2>1
    <2>3. QED
        BY <1>3, <2>1, <2>2, PlacesAfter
<1>5. CASE ~near
    <2>1. IsBox(here) /\ here.visit = b.visit /\ here.visiting = FALSE
        BY <1>1 DEF IsBox, BoxFields
    <2> HIDE DEF here
    <2>2. /\ IsBox(done.box) /\ done.box.visiting = FALSE
          /\ \/ done.box.visit = b.visit /\ done.out = {}
             \/ done.box.visit = visits + 1 /\ OneEventOf(done.out, visits + 1)
        BY <2>1, StandaloneMade
    <2>3. box' = done.box /\ unsent' = sent \union done.out
        BY <1>2, <1>5
    <2> HIDE DEF done
    <2>4. CASE done.box.visit = b.visit /\ done.out = {}
        BY <1>3, <2>2, <2>3, <2>4, PlacesAfter
    <2>5. CASE done.box.visit = visits + 1 /\ OneEventOf(done.out, visits + 1)
        <3>1. visits' = visits + 1
            BY <1>1, <1>2, <2>3, <2>5
        <3>2. QED
            BY <1>3, <2>2, <2>3, <2>5, <3>1, PlacesAfter
    <2>6. QED
        BY <2>2, <2>4, <2>5
<1>6. QED
    BY <1>4, <1>5

LEMMA MailboxFrameKeeps ==
    ASSUME MailboxInv, NEW sight \in Sights, NEW r \in Readings, NEW verify \in BOOLEAN,
           NEW outage \in BOOLEAN, MailboxFrame(sight, r, verify, outage)
    PROVE  MailboxInv'
<1> DEFINE near == sight = "person"
           lid  == LidSeen(r, near, outage)
           b    == LidNoted(lid)
           package == sight = "package"
<1>1. /\ IF b.visiting
         THEN VisitFrame(b, near, package, verify, StillChecked, AnswerTaken.out) /\ UNCHANGED visits
         ELSE IdleFrame(b, near, package, lid.change, AnswerTaken.out) /\ asked' = StillChecked
      /\ mailAnswered' = "no" /\ UNCHANGED reported
    BY DEF MailboxFrame
<1>2. ClaimIsTheLastWord'
    BY DEF MailboxFrame, MailboxInv, ClaimIsTheLastWord
<1>3. near \in BOOLEAN
    OBVIOUS
<1> HIDE DEF near, package
<1>4. Begun(b, StillChecked, AnswerTaken.out) /\ b.visiting \in BOOLEAN
    BY FrameBegins DEF b, lid
<1> HIDE DEF b, lid
<1>5. CASE b.visiting
    BY <1>1, <1>2, <1>3, <1>4, <1>5, VisitFrameMoves
<1>6. CASE ~b.visiting
    BY <1>1, <1>2, <1>3, <1>4, <1>6, IdleFrameMoves
<1>7. QED
    BY <1>5, <1>6

\* An event is committed under the claim, once, and its visit is then in no place.
LEMMA MailboxEmitKeeps ==
    ASSUME MailboxInv, NEW e \in unsent, MailboxEmit(e)
    PROVE  /\ MailboxInv'
           /\ \A f \in unsent : reported'[f.visit] > reported[f.visit] =>
                 spoken[f.what] - f.age >= MailWindow(f.what)
<1>1. /\ reported \in [1..MailVisits -> Nat] /\ visits \in 0..MailVisits /\ MailVisits \in Nat
      /\ e.visit \in 1..visits /\ reported[e.visit] = 0
      /\ \A f \in unsent : f.visit \in 1..visits /\ reported[f.visit] = 0
                              /\ (e.visit = f.visit => e = f)
      /\ 1..visits \subseteq 1..MailVisits
    <2>1. reported \in [1..MailVisits -> Nat] /\ visits \in 0..MailVisits /\ MailVisits \in Nat
        BY MailboxAssumption DEF MailboxInv, MailboxTyped
    <2>2. \A f \in unsent : f.visit \in Unreported /\ \A g \in unsent : f.visit = g.visit => f = g
        BY DEF MailboxInv, VisitIsInOnePlace
    <2>3. \A v \in Unreported : v \in 1..visits /\ reported[v] = 0
        BY DEF Unreported
    <2>4. 1..visits \subseteq 1..MailVisits
        BY <2>1
    <2>5. \A f \in unsent : f.visit \in 1..visits /\ reported[f.visit] = 0
        BY <2>2, <2>3
    <2>6. QED
        BY <2>1, <2>2, <2>4, <2>5
<1>2. unsent' = unsent \ {e} /\ UNCHANGED <<box, asked, mailAnswered, visits>>
    BY DEF MailboxEmit
<1>3. CASE Wins(e)
    <2>1. /\ claims' = spoken' /\ reported' = [reported EXCEPT ![e.visit] = IF @ < 2 THEN @ + 1 ELSE @]
        BY <1>3 DEF MailboxEmit, MailboxInv, ClaimIsTheLastWord
    <2>2. /\ reported' \in [1..MailVisits -> Nat]
          /\ reported'[e.visit] = 1
          /\ \A v \in 1..MailVisits : v # e.visit => reported'[v] = reported[v]
        BY <1>1, <2>1
    <2>3. Unreported' = Unreported \ {e.visit}
        <3>1. Unreported' = {v \in 1..visits : reported'[v] = 0}
            BY <1>2 DEF Unreported
        <3>2. \A v \in 1..visits : reported'[v] = 0 <=> v # e.visit /\ reported[v] = 0
            <4>1. \A v \in 1..visits : v # e.visit => reported'[v] = reported[v]
                BY <1>1, <2>2
            <4>2. QED
                BY <2>2, <4>1
        <3>3. QED
            BY <3>1, <3>2 DEF Unreported
    <2>4. VisitIsInOnePlace'
        <3>1. \A v \in 1..MailVisits : reported'[v] <= 1 /\ (v > visits' => reported'[v] = 0)
            BY <1>1, <1>2, <2>2 DEF MailboxInv, VisitIsInOnePlace
        <3>2. \A f \in unsent' : /\ f.visit \in Unreported'
                                 /\ \A g \in unsent' : f.visit = g.visit => f = g
            BY <1>1, <1>2, <2>3 DEF MailboxInv, VisitIsInOnePlace
        <3>3. asked' # NoVisit => asked'.visit \in Unreported' /\ (\A f \in unsent' : f.visit # asked'.visit)
            BY <1>2, <2>3 DEF MailboxInv, VisitIsInOnePlace
        <3>4. box'.visiting => /\ box'.visit \in Unreported'
                               /\ \A f \in unsent' : f.visit # box'.visit
                               /\ asked' # NoVisit => asked'.visit # box'.visit
            BY <1>2, <2>3 DEF MailboxInv, VisitIsInOnePlace
        <3>5. QED
            BY <3>1, <3>2, <3>3, <3>4 DEF VisitIsInOnePlace
    <2>5. MailboxTyped' /\ ClaimIsTheLastWord'
        BY <1>2, <2>1, <2>2 DEF MailboxInv, MailboxTyped, ClaimIsTheLastWord
    <2>6. ASSUME NEW f \in unsent, reported'[f.visit] > reported[f.visit]
          PROVE  spoken[f.what] - f.age >= MailWindow(f.what)
        <3>1. f.visit = e.visit
            BY <1>1, <2>2, <2>6
        <3>2. f = e
            BY <1>1, <3>1
        <3>3. QED
            BY <1>3, <3>2 DEF Wins, MailboxInv, ClaimIsTheLastWord
    <2>7. QED
        BY <2>4, <2>5, <2>6 DEF MailboxInv
<1>4. CASE ~Wins(e)
    <2>1. UNCHANGED <<claims, spoken, reported>>
        BY <1>4 DEF MailboxEmit
    <2>2. MailboxInv'
        BY <1>2, <2>1 DEF MailboxInv, MailboxTyped, ClaimIsTheLastWord, VisitIsInOnePlace, Unreported
    <2>3. QED
        BY <1>1, <2>1, <2>2
<1>5. QED
    BY <1>3, <1>4

LEMMA MailboxInitially == MailboxInit => MailboxInv
<1> SUFFICES ASSUME MailboxInit PROVE MailboxInv
    OBVIOUS
<1>1. IsBox(NewBox) /\ NewBox.visiting = FALSE /\ NewBox.visit = 0
    BY DEF NewBox, IsBox, BoxFields
<1>2. MailboxTyped
    <2>1. visits \in 0..MailVisits /\ reported \in [1..MailVisits -> Nat] /\ box.visit \in 0..visits
        BY <1>1, MailboxAssumption DEF MailboxInit
    <2>2. IsBox(box) /\ box.visiting \in BOOLEAN /\ asked = NoVisit /\ mailAnswered = "no"
        BY <1>1 DEF MailboxInit
    <2>3. QED
        BY <2>1, <2>2 DEF MailboxTyped
<1>3. VisitIsInOnePlace
    BY <1>1 DEF MailboxInit, VisitIsInOnePlace
<1>4. QED
    BY <1>2, <1>3 DEF MailboxInit, MailboxInv, ClaimIsTheLastWord

LEMMA MailboxKeeps == MailboxInv /\ [MailboxNext]_mailVars => MailboxInv'
<1> SUFFICES ASSUME MailboxInv, [MailboxNext]_mailVars PROVE MailboxInv'
    OBVIOUS
<1>1. ASSUME NEW sight \in Sights, NEW r \in Readings, NEW verify \in BOOLEAN, NEW outage \in BOOLEAN,
             MailboxFrame(sight, r, verify, outage)
      PROVE  MailboxInv'
    BY <1>1, MailboxFrameKeeps
<1>2. ASSUME NEW action \in Answers, MailboxAnswer(action)
      PROVE  MailboxInv'
    BY <1>2 DEF MailboxAnswer, MailboxInv, MailboxTyped, ClaimIsTheLastWord, VisitIsInOnePlace, Unreported
<1>3. ASSUME NEW e \in unsent, MailboxEmit(e)
      PROVE  MailboxInv'
    BY <1>3, MailboxEmitKeeps
<1>4. ASSUME NEW e \in unsent, MailboxEmitFails(e)
      PROVE  MailboxInv'
    BY <1>4 DEF MailboxEmitFails, MailboxInv, MailboxTyped, ClaimIsTheLastWord, VisitIsInOnePlace, Unreported
<1>5. CASE MailboxRestart
    <2>1. IsBox(box') /\ box'.visiting = FALSE /\ box'.visit \in 0..visits
        <3>1. IsBox(NewBox) /\ NewBox.visiting = FALSE /\ NewBox.visit = 0
            BY DEF NewBox, IsBox, BoxFields
        <3>2. IsBox([box EXCEPT !.visiting = FALSE]) /\ [box EXCEPT !.visiting = FALSE].visiting = FALSE
              /\ [box EXCEPT !.visiting = FALSE].visit = box.visit
            BY DEF IsBox, BoxFields, MailboxInv, MailboxTyped
        <3>3. box.visit \in 0..visits /\ visits \in Nat
            BY MailboxAssumption DEF MailboxInv, MailboxTyped
        <3>4. box' = NewBox \/ box' = [box EXCEPT !.visiting = FALSE]
            BY <1>5 DEF MailboxRestart
        <3> DEFINE dropped == [box EXCEPT !.visiting = FALSE]
        <3> HIDE DEF dropped
        <3>5. box' = dropped => IsBox(box') /\ box'.visiting = FALSE /\ box'.visit \in 0..visits
            BY <3>2, <3>3 DEF dropped
        <3>6. box' = NewBox => IsBox(box') /\ box'.visiting = FALSE /\ box'.visit \in 0..visits
            BY <3>1, <3>3
        <3>7. QED
            BY <3>4, <3>5, <3>6 DEF dropped
    <2>2. MailboxTyped'
        BY <1>5, <2>1 DEF MailboxRestart, MailboxInv, MailboxTyped
    <2>3. VisitIsInOnePlace' /\ ClaimIsTheLastWord'
        BY <1>5, <2>1 DEF MailboxRestart, MailboxInv, VisitIsInOnePlace, ClaimIsTheLastWord
    <2>4. QED
        BY <2>2, <2>3 DEF MailboxInv
<1>6. CASE UNCHANGED mailVars
    BY <1>6 DEF mailVars, MailboxInv, MailboxTyped, ClaimIsTheLastWord, VisitIsInOnePlace, Unreported
<1>7. QED
    BY <1>1, <1>2, <1>3, <1>4, <1>5, <1>6 DEF MailboxNext

LEMMA EventsArePaced ==
    MailboxInv /\ [MailboxNext]_mailVars =>
       [\A e \in unsent : reported'[e.visit] > reported[e.visit] =>
           spoken[e.what] - e.age >= MailWindow(e.what)]_mailVars
<1> SUFFICES ASSUME MailboxInv, MailboxNext, NEW f \in unsent, reported'[f.visit] > reported[f.visit]
             PROVE  spoken[f.what] - f.age >= MailWindow(f.what)
    OBVIOUS
<1>1. ASSUME reported' = reported PROVE FALSE
    BY <1>1 DEF MailboxInv, VisitIsInOnePlace, Unreported
<1>2. ASSUME NEW e \in unsent, MailboxEmit(e)
      PROVE  spoken[f.what] - f.age >= MailWindow(f.what)
    BY <1>2, MailboxEmitKeeps
<1>3. reported' = reported \/ (\E e \in unsent : MailboxEmit(e))
    BY DEF MailboxNext, MailboxFrame, MailboxAnswer, MailboxEmitFails, MailboxRestart
<1>4. QED
    BY <1>1, <1>2, <1>3

\* A visit to the mailbox becomes one event at most, and two events of a kind are of visits a
\* window apart, whatever is restarted, reset, lost or answered late in between
\* (app/services/scene_state.py, scene_dedup.py).
THEOREM MailIsNewsOnceThroughout == MailboxSpec => MailIsNewsOnce
<1>1. MailboxInit => MailboxInv
    BY MailboxInitially
<1>2. MailboxInv /\ [MailboxNext]_mailVars => MailboxInv'
    BY MailboxKeeps
<1>3. MailboxInv => OneEventPerVisit
    BY DEF MailboxInv, VisitIsInOnePlace, OneEventPerVisit
<1>4. MailboxInv /\ [MailboxNext]_mailVars =>
         [\A e \in unsent : reported'[e.visit] > reported[e.visit] =>
             spoken[e.what] - e.age >= MailWindow(e.what)]_mailVars
    BY EventsArePaced
<1>5. QED
    BY <1>1, <1>2, <1>3, <1>4, PTL DEF MailboxSpec, MailIsNewsOnce, MailboxPaced

-----------------------------------------------------------------------------
(* VehicleTracks                                                           *)

Boxes   == [car : Cars, spot : Spots, part : BOOLEAN]
Events  == [what : {"arrived", "first_seen", "returned", "moved", "departed", "interaction"},
            track : Ids, spot : Spots]
\* A track is reported exactly when it is more than tentative.
Tracked == {t \in Track : t.reported <=> t.state # "tentative"}
Slots   == Tracked \union {NoneId}
Scenes  == [tracks : [Ids -> Slots], out : SUBSET Events, met : SUBSET Ids]

\* What a track still is, when only its time and its confirmation went on.
Same(t, u) == u.spot = t.spot /\ u.reported = t.reported /\ u.unseen = t.unseen
\* And nobody counted: one that is not yet reported is as near to it as it was.
Alike(t, u) == Same(t, u) /\ u.missed = t.missed /\ (t.reported \/ u.count = t.count)

LEMMA VehicleNumbers ==
    /\ Confirm \in Nat \ {0} /\ Stable \in Nat /\ Stable > 1 /\ Absence \in Nat \ {0}
    /\ LookGap \in Nat /\ Window \in Nat /\ Touch \in Nat \ {0} /\ Cooldown \in Nat /\ Outage \in Nat \ {0}
    /\ UnseenCap \in Nat /\ UnseenCap >= Absence /\ CountCap \in Nat \ {0}
BY VehicleAssumption DEF UnseenCap, CountCap

LEMMA CaughtUpNumber == /\ Patience \in Nat /\ Patience >= 2 /\ Patience >= Absence
                        /\ Patience * Confirm \in Nat /\ CaughtUp \in Nat
                        /\ CaughtUp > Absence + 2 + Patience * Confirm
<1>1. Patience \in Nat /\ Patience >= 2 /\ Patience >= Absence
    BY VehicleNumbers DEF Patience
<1> DEFINE k == Patience * Confirm
<1>2. k \in Nat /\ CaughtUp = Absence + 3 + k
    BY <1>1, VehicleNumbers DEF CaughtUp
<1> HIDE DEF k
<1>3. CaughtUp \in Nat /\ CaughtUp > Absence + 2 + k
    BY <1>2, VehicleNumbers
<1>4. QED
    BY <1>1, <1>2, <1>3 DEF k

LEMMA NoTrack == NoneId \in Slots /\ NoneId \notin Tracked /\ NoneId.state = "none"
BY DEF Slots, Tracked, Track, NoneId

\* Whatever is not NoneId has the state of a track.
LEMMA StatesOf ==
    ASSUME NEW T \in [Ids -> Slots], NEW i \in Ids
    PROVE  /\ T[i] = NoneId <=> i \notin Alive(T)
           /\ i \in Alive(T) <=> T[i] \in Tracked
           /\ i \in Active(T) <=> T[i] \in Tracked /\ T[i].state # "departed"
           /\ i \in Departed(T) <=> T[i] \in Tracked /\ T[i].state = "departed"
<1>1. \A t \in Tracked : t.state # "none" /\ t # NoneId
    BY DEF Tracked, Track, NoneId
<1>2. T[i] \in Slots
    OBVIOUS
<1>3. QED
    BY <1>1, <1>2, NoTrack DEF Slots, Alive, Active, Departed

\* The tracks that the steps of the algorithm make.
LEMMA TrackFields ==
    ASSUME NEW t \in Tracked
    PROVE  /\ t.state \in {"tentative", "tracking", "stable", "departed"} /\ t.spot \in Spots
           /\ t.count \in 1..CountCap /\ t.reported \in BOOLEAN
           /\ t.watched \in BOOLEAN /\ t.unseen \in 0..UnseenCap /\ t.missed \in 0..2
           /\ t.streak \in 0..Touch /\ t.since \in 0..Cooldown /\ t.interacted \in BOOLEAN
           /\ t.gone \in 0..(Window + 1) /\ t.ident \in {"none", "asked", "known"}
           /\ t.reported <=> t.state # "tentative"
           /\ t \in Track
BY DEF Tracked, Track

LEMMA ConfirmedTrack ==
    ASSUME NEW t \in Tracked, t.state # "departed", NEW s \in {"stable", "tracking"}
    PROVE  LET u == [t EXCEPT !.reported = TRUE, !.watched = FALSE, !.state = s] IN
           /\ u \in Tracked /\ u.spot = t.spot /\ u.unseen = t.unseen
           /\ u.missed = t.missed /\ u.reported /\ u.state # "departed"
BY DEF Tracked, Track

LEMMA AskedTrack ==
    ASSUME NEW t \in Tracked, NEW a \in {"none", "asked", "known"}
    PROVE  LET u == [t EXCEPT !.ident = a] IN u \in Tracked /\ Alike(t, u) /\ u.state = t.state
BY DEF Tracked, Track, Same, Alike

LEMMA MovedTrack ==
    ASSUME NEW t \in Tracked, NEW d \in Boxes, t.state # "departed"
    PROVE  LET u == Moved(t, d) IN
           /\ u \in Tracked /\ u.spot = d.spot /\ u.reported = t.reported
           /\ u.state # "departed" /\ (u.ident = "asked" => t.ident = "asked")
<1>1. /\ d.spot \in Spots /\ 1 \in 1..CountCap /\ FALSE \in BOOLEAN
      /\ (IF t.ident = "known" THEN "none" ELSE t.ident) \in {"none", "asked", "known"}
      /\ (IF t.reported THEN "tracking" ELSE t.state) \in {"tentative", "tracking", "stable", "departed"}
    BY VehicleNumbers DEF Boxes, Tracked, Track
<1>2. QED
    BY <1>1 DEF Tracked, Track, Moved

LEMMA CountedTrack ==
    ASSUME NEW t \in Tracked
    PROVE  LET u == [t EXCEPT !.count = IF @ < CountCap THEN @ + 1 ELSE @] IN
           /\ u \in Tracked /\ Same(t, u) /\ u.state = t.state /\ u.ident = t.ident
           /\ u.count < Confirm => u.count = t.count + 1
<1>1. (IF t.count < CountCap THEN t.count + 1 ELSE t.count) \in 1..CountCap
    BY VehicleNumbers, TrackFields
<1>2. CountCap >= Confirm /\ t.count \in 1..CountCap
    BY VehicleAssumption, TrackFields DEF CountCap
<1>3. (IF t.count < CountCap THEN t.count + 1 ELSE t.count) < Confirm => t.count < CountCap
    BY <1>2, VehicleNumbers
<1>4. QED
    BY <1>1, <1>3 DEF Tracked, Track, Same

LEMMA SeenTrack ==
    ASSUME NEW t \in Tracked
    PROVE  LET u == Seen(t) IN
           /\ u \in Tracked /\ u.spot = t.spot /\ u.reported = t.reported /\ u.state = t.state
           /\ u.unseen = 0 /\ u.missed = 0 /\ u.count = t.count /\ u.ident = t.ident
<1>1. 0 \in 0..UnseenCap /\ 0 \in 0..2
    BY VehicleNumbers
<1>2. QED
    BY <1>1 DEF Tracked, Track, Seen

LEMMA SettledTrack ==
    ASSUME NEW t \in Tracked, t.reported
    PROVE  LET u == [t EXCEPT !.state = "stable"] IN
           u \in Tracked /\ Alike(t, u) /\ u.state = "stable"
BY DEF Tracked, Track, Same, Alike

LEMMA FreshTrack ==
    ASSUME NEW d \in Boxes, NEW watched \in BOOLEAN
    PROVE  LET u == Fresh(d, watched) IN
           /\ u \in Tracked /\ u.spot = d.spot /\ ~u.reported /\ u.unseen = 0
           /\ u.state = "tentative" /\ u.missed = 0
BY VehicleNumbers DEF Tracked, Track, Fresh, Boxes

LEMMA MissedTrack ==
    ASSUME NEW t \in Tracked
    PROVE  LET u == [t EXCEPT !.missed = IF @ < 2 THEN @ + 1 ELSE @]
               v == [u EXCEPT !.state = "departed", !.streak = 0, !.gone = 0] IN
           /\ u \in Tracked /\ Same(t, u) /\ u.state = t.state /\ u.count = t.count
           /\ u.missed = IF t.missed < 2 THEN t.missed + 1 ELSE 2
           /\ t.reported => v \in Tracked /\ v.state = "departed"
<1>1. (IF t.missed < 2 THEN t.missed + 1 ELSE t.missed) \in 0..2
    BY TrackFields
<1>2. 0 \in 0..Touch /\ 0 \in 0..(Window + 1)
    BY VehicleNumbers
<1>3. (IF t.missed < 2 THEN t.missed + 1 ELSE t.missed) = (IF t.missed < 2 THEN t.missed + 1 ELSE 2)
    BY TrackFields
<1>4. QED
    BY <1>1, <1>2, <1>3 DEF Tracked, Track, Same

LEMMA TouchedTrack ==
    ASSUME NEW t \in Tracked, t.state \in {"tracking", "stable"}, NEW n \in 0..Touch
    PROVE  LET u == [t EXCEPT !.streak = n]
               v == [u EXCEPT !.since = 0, !.interacted = TRUE, !.state = "tracking", !.count = 1] IN
           /\ u \in Tracked /\ Alike(t, u) /\ u.state = t.state
           /\ v \in Tracked /\ Alike(t, v) /\ v.state = "tracking"
<1>1. 0 \in 0..Cooldown /\ 1 \in 1..CountCap /\ t.reported
    BY VehicleNumbers, TrackFields
<1>2. QED
    BY <1>1 DEF Tracked, Track, Same, Alike

\* Time leaves a track what it is, and takes nothing from its age unseen.
LEMMA AgedTrack ==
    ASSUME NEW t \in Tracked, NEW dt \in Nat \ {0}, NEW outage \in BOOLEAN
    PROVE  LET u == Aged(t, dt, outage) IN
           /\ u \in Tracked /\ u.spot = t.spot /\ u.reported = t.reported
           /\ u.state = t.state /\ u.unseen = Older(t.unseen, dt, UnseenCap)
           /\ u.missed = t.missed /\ u.count = t.count /\ u.ident = t.ident
<1>1. t.state # "none"
    BY DEF Tracked, Track
<1>2. /\ Older(t.unseen, dt, UnseenCap) \in 0..UnseenCap
      /\ Older(t.since, dt, Cooldown) \in 0..Cooldown
      /\ Older(t.gone, dt, Window + 1) \in 0..(Window + 1) /\ 0 \in 0..(Window + 1)
    BY VehicleNumbers, TrackFields DEF Older
<1>3. (t.watched /\ ~outage) \in BOOLEAN
    OBVIOUS
<1> HIDE DEF Older
<1>4. QED
    BY <1>1, <1>2, <1>3 DEF Tracked, Track, Aged

-----------------------------------------------------------------------------
\* A scene in which one track was put.
LEMMA PutMade ==
    ASSUME NEW a \in Scenes, NEW i \in Ids, NEW t \in Slots
    PROVE  LET b == Put(a, i, t) IN
           /\ b \in Scenes /\ b.out = a.out /\ b.met = a.met
           /\ b.tracks[i] = t /\ \A j \in Ids \ {i} : b.tracks[j] = a.tracks[j]
BY DEF Scenes, Put

LEMMA SayMade ==
    ASSUME NEW a \in Scenes, NEW e \in Events
    PROVE  LET b == Say(a, e) IN
           b \in Scenes /\ b.out = a.out \union {e} /\ b.met = a.met /\ b.tracks = a.tracks
BY DEF Scenes, Say

LEMMA EventMade ==
    ASSUME NEW a \in Scenes, NEW i \in Alive(a.tracks),
           NEW what \in {"arrived", "first_seen", "returned", "moved", "departed", "interaction"}
    PROVE  LET e == Event(a, i, what) IN
           /\ e \in Events /\ e.what = what
           /\ e.spot = a.tracks[i].spot /\ e.track = i
<1>1. a.tracks[i] \in Tracked /\ i \in Ids
    BY StatesOf DEF Scenes, Alive
<1>2. QED
    BY <1>1, TrackFields DEF Event, Events

-----------------------------------------------------------------------------
\* One step of a pass, in which track i is found at a spot: it ends up there, seen, other
\* tracks stay or are forgotten, and what is announced is it, once.
News(a, b) == b.out \ a.out
Quiet(a, b, i) ==
    /\ b \in Scenes /\ i \in Active(b.tracks)
    /\ \A j \in Ids \ {i} : \/ b.tracks[j] = a.tracks[j]
                           \/ (j \in Departed(a.tracks) /\ b.tracks[j] = NoneId)
    /\ a.out \subseteq b.out /\ \A e \in News(a, b) : e.what # "departed"
Found(a, b, i, spot) ==
    /\ Quiet(a, b, i) /\ b.tracks[i].spot = spot /\ b.tracks[i].unseen = 0
    /\ \A e \in News(a, b) : Announces(e) =>
          /\ b.tracks[i].reported /\ e.track = i /\ e.spot = spot
          /\ \A f \in News(a, b) : Announces(f) => f = e
Unannounced(a, b) == \A e \in News(a, b) : ~Announces(e)

LEMMA ThenFound ==
    ASSUME NEW a \in Scenes, NEW b \in Scenes, NEW c \in Scenes, NEW i \in Ids, NEW spot,
           Quiet(a, b, i), Unannounced(a, b), Found(b, c, i, spot)
    PROVE  Found(a, c, i, spot) /\ (Unannounced(b, c) => Unannounced(a, c))
<1>1. a.out \subseteq b.out /\ b.out \subseteq c.out
    BY DEF Quiet, Found
<1>2. \A e \in News(a, c) : e \in News(a, b) \/ e \in News(b, c)
    BY <1>1 DEF News
<1>3. ASSUME NEW j \in Ids \ {i}
      PROVE  c.tracks[j] = a.tracks[j] \/ (j \in Departed(a.tracks) /\ c.tracks[j] = NoneId)
    <2>1. b.tracks[j] = a.tracks[j] \/ (j \in Departed(a.tracks) /\ b.tracks[j] = NoneId)
        BY DEF Quiet
    <2>2. c.tracks[j] = b.tracks[j] \/ (j \in Departed(b.tracks) /\ c.tracks[j] = NoneId)
        BY DEF Quiet, Found
    <2>3. QED
        BY <2>1, <2>2 DEF Departed, Alive, NoneId
<1>4. Quiet(a, c, i)
    BY <1>1, <1>2, <1>3 DEF Quiet, Found
<1>5. QED
    BY <1>2, <1>4 DEF Found, Unannounced

LEMMA FoundThen ==
    ASSUME NEW a \in Scenes, NEW b \in Scenes, NEW c \in Scenes, NEW i \in Ids, NEW spot,
           Found(a, b, i, spot), Quiet(b, c, i), Unannounced(b, c), Same(b.tracks[i], c.tracks[i])
    PROVE  Found(a, c, i, spot) /\ (Unannounced(a, b) => Unannounced(a, c))
<1>1. a.out \subseteq b.out /\ b.out \subseteq c.out
    BY DEF Quiet, Found
<1>2. \A e \in News(a, c) : e \in News(a, b) \/ e \in News(b, c)
    BY <1>1 DEF News
<1>3. ASSUME NEW j \in Ids \ {i}
      PROVE  c.tracks[j] = a.tracks[j] \/ (j \in Departed(a.tracks) /\ c.tracks[j] = NoneId)
    <2>1. b.tracks[j] = a.tracks[j] \/ (j \in Departed(a.tracks) /\ b.tracks[j] = NoneId)
        BY DEF Quiet, Found
    <2>2. c.tracks[j] = b.tracks[j] \/ (j \in Departed(b.tracks) /\ c.tracks[j] = NoneId)
        BY DEF Quiet
    <2>3. QED
        BY <2>1, <2>2 DEF Departed, Alive, NoneId
<1>4. Quiet(a, c, i)
    BY <1>1, <1>2, <1>3 DEF Quiet, Found
<1>5. QED
    BY <1>2, <1>4 DEF Found, Unannounced, Same

\* Putting a track changes nothing else.
LEMMA PutQuiet ==
    ASSUME NEW a \in Scenes, NEW i \in Ids, NEW t \in Tracked, t.state # "departed"
    PROVE  LET b == Put(a, i, t) IN
           /\ b \in Scenes /\ Quiet(a, b, i) /\ Unannounced(a, b) /\ b.met = a.met
           /\ b.tracks[i] = t /\ i \in Active(b.tracks)
<1> DEFINE b == Put(a, i, t)
<1>1. /\ b \in Scenes /\ b.out = a.out /\ b.met = a.met
      /\ b.tracks[i] = t /\ \A j \in Ids \ {i} : b.tracks[j] = a.tracks[j]
    BY PutMade DEF Slots
<1> HIDE DEF b
<1>2. i \in Active(b.tracks)
    BY <1>1, StatesOf DEF Scenes
<1>3. News(a, b) = {}
    BY <1>1 DEF News
<1>4. Quiet(a, b, i) /\ Unannounced(a, b)
    BY <1>1, <1>2, <1>3 DEF Quiet, Unannounced
<1>5. QED
    BY <1>1, <1>2, <1>4 DEF b

\* _maybe_confirm announces the track it is given, unless it was reported before.
LEMMA ConfirmedFound ==
    ASSUME NEW a \in Scenes, NEW i \in Active(a.tracks), NEW alike, a.tracks[i].unseen = 0
    PROVE  LET b == Confirmed(a, i, alike) IN
           /\ b \in Scenes /\ Found(a, b, i, a.tracks[i].spot) /\ b.met = a.met
           /\ b.tracks[i].missed = a.tracks[i].missed
           /\ a.tracks[i].reported => b = a
           /\ ~b.tracks[i].reported =>
                 b = a /\ (a.tracks[i].ident = "asked" \/ a.tracks[i].count < Confirm)
<1> DEFINE t    == a.tracks[i]
           u    == [t EXCEPT !.reported = TRUE, !.watched = FALSE,
                             !.state = IF t.count >= Stable THEN "stable" ELSE "tracking"]
           back == Returning(a.tracks, i, alike)
           b    == Confirmed(a, i, alike)
<1>1. i \in Ids /\ i \in Alive(a.tracks) /\ t \in Tracked /\ t.state # "departed"
    BY StatesOf DEF Scenes, Active, Alive
<1>2. /\ u \in Tracked /\ u.spot = t.spot /\ u.unseen = t.unseen
      /\ u.missed = t.missed /\ u.reported /\ u.state # "departed"
    BY <1>1, ConfirmedTrack
<1> DEFINE p == Put(a, i, u)
<1>3. /\ p \in Scenes /\ p.out = a.out /\ p.met = a.met
      /\ p.tracks[i] = u /\ \A j \in Ids \ {i} : p.tracks[j] = a.tracks[j]
    BY <1>1, <1>2, PutMade DEF Slots
<1>4. CASE t.reported \/ t.count < Confirm \/ t.ident = "asked"
    <2>1. b = a
        BY <1>4 DEF Confirmed
    <2>2. News(a, b) = {}
        BY <2>1 DEF News
    <2> HIDE DEF b, t, u
    <2>3. Found(a, b, i, t.spot)
        BY <1>1, <2>1, <2>2 DEF Found, Quiet, t
    <2>4. QED
        BY <1>4, <2>1, <2>3 DEF b, t
<1>5. CASE ~(t.reported \/ t.count < Confirm \/ t.ident = "asked") /\ back # {}
    <2> DEFINE j == CHOOSE k \in back : TRUE
               e == Event(a, i, "returned")
               q == Put(p, j, NoneId)
    <2>1. b = Say(q, e)
        BY <1>5 DEF Confirmed
    <2>2. j \in back
        BY <1>5
    <2>3. j \in Departed(a.tracks) \ {i} /\ j \in Ids
        BY <2>2 DEF Returning, Departed, Alive
    <2> HIDE DEF j, back, p, u
    <2>4. /\ q \in Scenes /\ q.out = p.out /\ q.met = p.met
          /\ q.tracks[j] = NoneId /\ \A k \in Ids \ {j} : q.tracks[k] = p.tracks[k]
        BY <1>3, <2>3, PutMade, NoTrack
    <2>5. e \in Events /\ e.what = "returned" /\ e.spot = t.spot /\ e.track = i
        BY <1>1, EventMade
    <2> HIDE DEF q, e
    <2>6. b \in Scenes /\ b.out = q.out \union {e} /\ b.met = q.met /\ b.tracks = q.tracks
        BY <2>1, <2>4, <2>5, SayMade
    <2> HIDE DEF b, u, t
    <2>7. b.tracks[i] = u
        BY <1>1, <1>3, <2>3, <2>4, <2>6
    <2>8. i \in Active(b.tracks)
        BY <1>1, <1>2, <2>6, <2>7, StatesOf DEF Scenes
    <2>9. \A k \in Ids \ {i} : \/ b.tracks[k] = a.tracks[k]
                              \/ (k \in Departed(a.tracks) /\ b.tracks[k] = NoneId)
        <3> SUFFICES ASSUME NEW k \in Ids \ {i}
                     PROVE  b.tracks[k] = a.tracks[k] \/ (k \in Departed(a.tracks) /\ b.tracks[k] = NoneId)
            OBVIOUS
        <3>1. CASE k = j
            BY <2>3, <2>4, <2>6, <3>1
        <3>2. CASE k # j
            BY <1>3, <2>4, <2>6, <3>2
        <3>3. QED
            BY <3>1, <3>2
    <2>10. b.out = a.out \union {e} /\ b.met = a.met
        BY <1>3, <2>4, <2>6
    <2>11. News(a, b) \subseteq {e}
        BY <2>10 DEF News
    <2>12. Quiet(a, b, i)
        BY <2>5, <2>6, <2>8, <2>9, <2>10, <2>11 DEF Quiet
    <2>13. Found(a, b, i, t.spot)
        BY <1>2, <2>5, <2>7, <2>11, <2>12 DEF Found, t
    <2>14. QED
        BY <1>2, <1>5, <2>6, <2>7, <2>10, <2>13 DEF t, b
<1>6. CASE ~(t.reported \/ t.count < Confirm \/ t.ident = "asked") /\ back = {}
    <2> DEFINE w == IF t.watched THEN "arrived" ELSE "first_seen"
               e == Event(a, i, w)
    <2>1. b = Say(p, e)
        BY <1>6 DEF Confirmed
    <2>2. w \in {"arrived", "first_seen"}
        OBVIOUS
    <2> HIDE DEF w
    <2>3. e \in Events /\ e.what # "departed" /\ e.spot = t.spot /\ e.track = i
        BY <1>1, <2>2, EventMade
    <2> HIDE DEF p, e
    <2>4. b \in Scenes /\ b.out = p.out \union {e} /\ b.met = p.met /\ b.tracks = p.tracks
        BY <1>3, <2>1, <2>3, SayMade
    <2> HIDE DEF b, u, t
    <2>5. i \in Active(b.tracks)
        BY <1>1, <1>2, <1>3, <2>4, StatesOf DEF Scenes
    <2>6. News(a, b) \subseteq {e}
        BY <1>3, <2>4 DEF News
    <2>7. Quiet(a, b, i)
        BY <1>3, <2>3, <2>4, <2>5, <2>6 DEF Quiet
    <2>8. Found(a, b, i, t.spot)
        BY <1>2, <1>3, <2>3, <2>4, <2>6, <2>7 DEF Found, t
    <2>9. QED
        BY <1>2, <1>3, <1>6, <2>4, <2>8 DEF t, b
<1>7. QED
    BY <1>4, <1>5, <1>6

\* _schedule_vehicle_id and the settling of a track change nothing that is told.
LEMMA AskedQuiet ==
    ASSUME NEW a \in Scenes, NEW i \in Active(a.tracks)
    PROVE  LET b == Asked(a, i) IN
           /\ b \in Scenes /\ Quiet(a, b, i) /\ Unannounced(a, b) /\ b.met = a.met
           /\ Alike(a.tracks[i], b.tracks[i])
<1> DEFINE t == a.tracks[i]
           u == [t EXCEPT !.ident = "asked"]
<1>1. i \in Ids /\ t \in Tracked /\ t.state # "departed"
    BY StatesOf DEF Scenes, Active, Alive
<1>2. u \in Tracked /\ Alike(t, u) /\ u.state = t.state
    BY <1>1, AskedTrack
<1>3. CASE Asked(a, i) = a
    <2>1. News(a, a) = {}
        BY DEF News
    <2>2. Quiet(a, a, i) /\ Unannounced(a, a) /\ Alike(t, t)
        BY <2>1 DEF Quiet, Unannounced, Same, Alike
    <2>3. QED
        BY <1>3, <2>2
<1>4. CASE Asked(a, i) = Put(a, i, u)
    <2> HIDE DEF u
    <2> DEFINE b == Put(a, i, u)
    <2>1. /\ b \in Scenes /\ Quiet(a, b, i) /\ Unannounced(a, b) /\ b.met = a.met
          /\ b.tracks[i] = u
        BY <1>1, <1>2, PutQuiet
    <2> HIDE DEF b
    <2>2. QED
        BY <1>2, <1>4, <2>1 DEF b
<1>5. Asked(a, i) = a \/ Asked(a, i) = Put(a, i, u)
    BY DEF Asked
<1>6. QED
    BY <1>3, <1>4, <1>5

LEMMA SettleQuiet ==
    ASSUME NEW a \in Scenes, NEW i \in Active(a.tracks)
    PROVE  LET b == Settle(a, i) IN
           /\ b \in Scenes /\ Quiet(a, b, i) /\ Unannounced(a, b) /\ b.met = a.met
           /\ Alike(a.tracks[i], b.tracks[i])
<1> DEFINE t == a.tracks[i]
           u == [t EXCEPT !.state = "stable"]
<1>1. i \in Ids /\ t \in Tracked /\ t.state # "departed"
    BY StatesOf DEF Scenes, Active, Alive
<1>2. CASE Settle(a, i) = a
    <2>1. News(a, a) = {}
        BY DEF News
    <2>2. Quiet(a, a, i) /\ Unannounced(a, a) /\ Alike(t, t)
        BY <2>1 DEF Quiet, Unannounced, Same, Alike
    <2>3. QED
        BY <1>2, <2>2
<1>3. CASE t.reported /\ Settle(a, i) = Put(a, i, u)
    <2> DEFINE b == Put(a, i, u)
    <2>1. u \in Tracked /\ Alike(t, u) /\ u.state = "stable"
        BY <1>1, <1>3, SettledTrack
    <2> HIDE DEF u
    <2>2. /\ b \in Scenes /\ Quiet(a, b, i) /\ Unannounced(a, b) /\ b.met = a.met
          /\ b.tracks[i] = u
        BY <1>1, <2>1, PutQuiet
    <2> HIDE DEF b
    <2>3. QED
        BY <1>3, <2>1, <2>2 DEF b
<1>4. Settle(a, i) = a \/ (t.reported /\ Settle(a, i) = Put(a, i, u))
    BY DEF Settle
<1>5. QED
    BY <1>2, <1>3, <1>4

\* A matched track goes on: it was seen where the box is, and as long as it is not reported,
\* it is counted there.
Continues(t, d, u) ==
    /\ u.spot = d.spot /\ u.unseen = 0 /\ u.missed = 0
    /\ ~d.part /\ t.ident # "asked" /\ ~u.reported =>
          ~t.reported /\ u.count < Confirm /\ (t.spot = d.spot => u.count = t.count + 1)
Begins(d, u) == u.spot = d.spot /\ u.unseen = 0 /\ u.missed = 0

\* _continue_track puts the track where the box is; one that was reported is not news.
LEMMA ContinuedFound ==
    ASSUME NEW a \in Scenes, NEW i \in Active(a.tracks), NEW d \in Boxes, NEW alike,
           IouRank(a.tracks[i], d) > 0
    PROVE  LET b == Continued(a, i, d, alike) IN
           /\ b \in Scenes /\ Found(a, b, i, d.spot) /\ b.met = a.met
           /\ a.tracks[i].reported => b.tracks[i].reported /\ Unannounced(a, b)
           /\ Continues(a.tracks[i], d, b.tracks[i])
<1> DEFINE t == a.tracks[i]
           b == Continued(a, i, d, alike)
<1>1. i \in Ids /\ i \in Alive(a.tracks) /\ t \in Tracked /\ t.state # "departed"
    BY StatesOf DEF Scenes, Active, Alive
<1>2. CASE PartOf(t, d)
    <2> DEFINE u == Seen(t)
    <2>1. /\ u \in Tracked /\ u.spot = t.spot /\ u.reported = t.reported
          /\ u.unseen = 0 /\ u.missed = 0 /\ u.state = t.state
        BY <1>1, SeenTrack
    <2>2. b = Put(a, i, u)
        BY <1>2 DEF Continued
    <2> HIDE DEF u
    <2>3. /\ b \in Scenes /\ Quiet(a, b, i) /\ Unannounced(a, b) /\ b.met = a.met
          /\ b.tracks[i] = u
        BY <1>1, <2>1, <2>2, PutQuiet
    <2>4. u.spot = d.spot
        BY <1>2, <2>1 DEF PartOf
    <2> HIDE DEF b, t
    <2>5. Found(a, b, i, d.spot)
        BY <2>1, <2>3, <2>4 DEF Found, Unannounced
    <2>6. Continues(t, d, b.tracks[i])
        BY <1>2, <2>1, <2>3, <2>4 DEF Continues, PartOf
    <2>7. QED
        BY <2>1, <2>3, <2>5, <2>6 DEF b, t
<1>3. CASE ~PartOf(t, d)
    <2> DEFINE seen == IF SamePlace(t, d)
                       THEN [t EXCEPT !.count = IF @ < CountCap THEN @ + 1 ELSE @] ELSE Moved(t, d)
               w    == Seen(seen)
               e    == Event(a, i, "moved")
               telling == IF ~SamePlace(t, d) /\ t.reported /\ (t.state = "stable" \/ t.interacted)
                       THEN Say(a, e) ELSE a
               p    == Put(telling, i, w)
               q    == Confirmed(p, i, alike)
    <2>1. b = Settle(q, i)
        BY <1>3 DEF Continued
    <2>2. /\ seen \in Tracked /\ seen.spot = d.spot
          /\ seen.reported = t.reported /\ seen.state # "departed"
          /\ seen.ident = "asked" => t.ident = "asked"
          /\ SamePlace(t, d) /\ seen.count < Confirm => seen.count = t.count + 1
        <3>1. CASE SamePlace(t, d)
            BY <1>1, <3>1, CountedTrack DEF SamePlace, Same
        <3>2. CASE ~SamePlace(t, d)
            BY <1>1, <3>2, MovedTrack
        <3>3. QED
            BY <3>1, <3>2
    <2> HIDE DEF seen
    <2>3. /\ w \in Tracked /\ w.spot = d.spot /\ w.reported = t.reported /\ w.state # "departed"
          /\ w.unseen = 0 /\ w.missed = 0 /\ w.count = seen.count /\ w.ident = seen.ident
        BY <2>2, SeenTrack
    <2> HIDE DEF w
    <2>4. e \in Events /\ e.what = "moved"
        BY <1>1, EventMade
    <2>5. /\ telling \in Scenes /\ telling.tracks = a.tracks /\ telling.met = a.met
          /\ a.out \subseteq telling.out /\ telling.out \subseteq a.out \union {e}
        <3>1. CASE telling = a
            BY <3>1
        <3>2. CASE telling = Say(a, e)
            BY <2>4, <3>2, SayMade
        <3>3. QED
            BY <3>1, <3>2
    <2> HIDE DEF e, telling
    <2>6. /\ p \in Scenes /\ Quiet(telling, p, i) /\ Unannounced(telling, p) /\ p.met = telling.met
          /\ p.tracks[i] = w /\ i \in Active(p.tracks) /\ p.out = telling.out
        <3>1. w \in Slots
            BY <2>3 DEF Slots
        <3>2. QED
            BY <1>1, <2>3, <2>5, <3>1, PutQuiet, PutMade
    <2> HIDE DEF p
    <2>7. Quiet(a, p, i) /\ Unannounced(a, p)
        <3>1. News(a, p) \subseteq {e}
            BY <2>5, <2>6 DEF News
        <3>2. \A f \in News(a, p) : f.what # "departed" /\ ~Announces(f)
            BY <2>4, <3>1 DEF Announces
        <3>3. QED
            BY <2>5, <2>6, <3>2 DEF Quiet, Unannounced
    <2>8. /\ q \in Scenes /\ Found(p, q, i, d.spot) /\ q.met = p.met
          /\ q.tracks[i].missed = w.missed /\ (w.reported => q = p)
          /\ ~q.tracks[i].reported => q = p /\ (w.ident = "asked" \/ w.count < Confirm)
        BY <2>3, <2>6, ConfirmedFound
    <2> HIDE DEF q
    <2>9. i \in Active(q.tracks)
        BY <2>8 DEF Found, Quiet
    <2>10. /\ b \in Scenes /\ Quiet(q, b, i) /\ Unannounced(q, b) /\ b.met = q.met
           /\ Alike(q.tracks[i], b.tracks[i])
        BY <2>1, <2>8, <2>9, SettleQuiet
    <2> HIDE DEF b
    <2>11. Found(p, b, i, d.spot) /\ (Unannounced(p, q) => Unannounced(p, b))
        BY <1>1, <2>6, <2>8, <2>10, FoundThen DEF Alike
    <2>12. Found(a, b, i, d.spot) /\ (Unannounced(p, b) => Unannounced(a, b))
        BY <1>1, <2>6, <2>7, <2>10, <2>11, ThenFound
    <2>13. t.reported => q = p /\ Unannounced(p, q) /\ q.tracks[i].reported
        BY <2>3, <2>6, <2>8 DEF Unannounced, News
    <2>14. t.reported => b.tracks[i].reported /\ Unannounced(a, b)
        BY <2>10, <2>11, <2>12, <2>13 DEF Alike, Same
    <2>15. b.met = a.met
        BY <2>5, <2>6, <2>8, <2>10
    <2>16. Continues(t, d, b.tracks[i])
        <3>1. b.tracks[i].spot = d.spot /\ b.tracks[i].unseen = 0
            BY <2>12 DEF Found
        <3>2. /\ b.tracks[i].missed = 0
              /\ b.tracks[i].reported = q.tracks[i].reported
              /\ ~q.tracks[i].reported => b.tracks[i].count = q.tracks[i].count
            BY <2>3, <2>8, <2>10 DEF Alike, Same
        <3>3. ASSUME ~d.part, t.ident # "asked", ~b.tracks[i].reported
              PROVE  /\ ~t.reported /\ b.tracks[i].count < Confirm
                     /\ t.spot = d.spot => b.tracks[i].count = t.count + 1
            <4>1. /\ b.tracks[i].count = w.count /\ ~w.reported
                  /\ w.ident = "asked" \/ w.count < Confirm
                BY <2>6, <2>8, <3>2, <3>3
            <4>2. w.count < Confirm
                BY <2>2, <2>3, <3>3, <4>1
            <4>3. QED
                BY <2>2, <2>3, <3>3, <4>1, <4>2 DEF SamePlace
        <3>4. QED
            BY <2>3, <3>1, <3>2, <3>3 DEF Continues
    <2>17. QED
        BY <2>10, <2>12, <2>14, <2>15, <2>16 DEF b, t
<1>4. QED
    BY <1>2, <1>3

\* A matched track's turn: continued, and its identification asked for.
LEMMA MatchedTurn ==
    ASSUME NEW a \in Scenes, NEW i \in Active(a.tracks), NEW d \in Boxes, NEW alike,
           IouRank(a.tracks[i], d) > 0
    PROVE  LET b == Asked(Continued(a, i, d, alike), i) IN
           /\ b \in Scenes /\ Found(a, b, i, d.spot) /\ b.met = a.met
           /\ a.tracks[i].reported => b.tracks[i].reported /\ Unannounced(a, b)
           /\ Continues(a.tracks[i], d, b.tracks[i])
<1> DEFINE c == Continued(a, i, d, alike)
           b == Asked(c, i)
<1>1. /\ c \in Scenes /\ Found(a, c, i, d.spot) /\ c.met = a.met
      /\ a.tracks[i].reported => c.tracks[i].reported /\ Unannounced(a, c)
      /\ Continues(a.tracks[i], d, c.tracks[i])
    BY ContinuedFound
<1>2. i \in Ids /\ i \in Active(c.tracks)
    BY <1>1 DEF Found, Quiet, Active, Alive
<1> HIDE DEF c
<1>3. /\ b \in Scenes /\ Quiet(c, b, i) /\ Unannounced(c, b) /\ b.met = c.met
      /\ Alike(c.tracks[i], b.tracks[i])
    BY <1>1, <1>2, AskedQuiet
<1> HIDE DEF b
<1>4. Found(a, b, i, d.spot) /\ (Unannounced(a, c) => Unannounced(a, b))
    BY <1>1, <1>2, <1>3, FoundThen DEF Alike
<1>5. Continues(a.tracks[i], d, b.tracks[i])
    BY <1>1, <1>3 DEF Continues, Alike, Same
<1>6. QED
    BY <1>1, <1>3, <1>4, <1>5 DEF Alike, Same, b, c

\* A box that no track took begins a track, announced at once where one frame is enough.
LEMMA CreatedTurn ==
    ASSUME NEW a \in Scenes, NEW d \in Boxes, NEW watched \in BOOLEAN, NEW alike,
           \E k \in Ids : a.tracks[k] = NoneId
    PROVE  LET b == Created(a, d, watched, alike) IN
           \/ b = a /\ (d.part \/ \E k \in Active(a.tracks) : a.tracks[k].spot = d.spot)
           \/ \E i \in Ids \ Alive(a.tracks) :
                /\ b \in Scenes /\ Found(a, b, i, d.spot) /\ b.met = a.met \union {i}
                /\ Begins(d, b.tracks[i])
<1> DEFINE b == Created(a, d, watched, alike)
           i == CHOOSE k \in Ids : a.tracks[k].state = "none"
           u == Fresh(d, watched)
           p == Put(a, i, u)
           m == [p EXCEPT !.met = @ \union {i}]
           c == Asked(m, i)
<1>1. \/ b = a /\ (d.part \/ \E k \in Active(a.tracks) : a.tracks[k].spot = d.spot)
      \/ b = Confirmed(c, i, alike)
    BY DEF Created
<1>2. i \in Ids /\ a.tracks[i].state = "none" /\ i \notin Alive(a.tracks)
    BY NoTrack DEF Alive
<1> HIDE DEF i
<1>3. /\ u \in Tracked /\ u.spot = d.spot /\ ~u.reported /\ u.unseen = 0
      /\ u.state = "tentative" /\ u.missed = 0
    BY FreshTrack
<1> HIDE DEF u
<1>4. /\ p \in Scenes /\ Quiet(a, p, i) /\ Unannounced(a, p) /\ p.met = a.met /\ p.tracks[i] = u
      /\ i \in Active(p.tracks)
    BY <1>2, <1>3, PutQuiet
<1> HIDE DEF p
<1>5. m \in Scenes /\ m.tracks = p.tracks /\ m.out = p.out /\ m.met = a.met \union {i}
    BY <1>2, <1>4 DEF Scenes
<1> HIDE DEF m
<1>6. Quiet(a, m, i) /\ Unannounced(a, m) /\ i \in Active(m.tracks)
    BY <1>4, <1>5 DEF Quiet, Unannounced, News
<1>7. /\ c \in Scenes /\ Quiet(m, c, i) /\ Unannounced(m, c) /\ c.met = m.met
      /\ Alike(m.tracks[i], c.tracks[i])
    BY <1>5, <1>6, AskedQuiet
<1> HIDE DEF c
<1>8. Begins(d, c.tracks[i]) /\ i \in Active(c.tracks)
    BY <1>3, <1>4, <1>5, <1>7 DEF Alike, Same, Quiet, Begins
<1> DEFINE f == Confirmed(c, i, alike)
<1>9. /\ f \in Scenes /\ Found(c, f, i, d.spot) /\ f.met = c.met
      /\ f.tracks[i].missed = c.tracks[i].missed
    BY <1>7, <1>8, ConfirmedFound DEF Begins
<1> HIDE DEF f
<1>10. Found(m, f, i, d.spot)
    BY <1>2, <1>5, <1>7, <1>9, ThenFound
<1>11. Found(a, f, i, d.spot)
    BY <1>2, <1>5, <1>6, <1>9, <1>10, ThenFound
<1>12. f.met = a.met \union {i}
    BY <1>5, <1>7, <1>9
<1>13. Begins(d, f.tracks[i])
    BY <1>8, <1>9 DEF Begins, Found
<1>14. QED
    BY <1>1, <1>2, <1>9, <1>11, <1>12, <1>13 DEF f

-----------------------------------------------------------------------------
\* A track that was reported where the car stands, and the only one there.
Stands(T, c, i) == i \in Active(T) /\ T[i].reported /\ T[i].spot = pos[c]
Holds(T, c, i)  == Stands(T, c, i) /\ \A j \in Active(T) : T[j].spot = pos[c] => j = i
\* Nothing that a frame finds comes there but to that track: no box that M gives to
\* another, and none of the boxes B that it gives to none.
Kept(T, M, B, c, i) == /\ Holds(T, c, i)
                       /\ \A p \in M : p[1] # i => p[2].spot # pos[c]
                       /\ \A d \in B : d.spot # pos[c]
NotNews(events, i) == \A e \in events : Announces(e) => e.track # i
\* Each announcement is of a track, where it is, and of each track there is one.
Backed(T, events, by) ==
    /\ \A e \in events : Announces(e) =>
          e.track \in by /\ T[e.track].reported /\ T[e.track].spot = e.spot
    /\ \A e, f \in events : Announces(e) /\ Announces(f) /\ e.track = f.track => e = f

\* What a frame made of track j that was seen in it: it went on with the box that M gave
\* it, or began with one of the boxes B that M gave to none.
Advanced(T, M, B, j, u) == \/ \E p \in M : p[1] = j /\ Continues(T[j], p[2], u)
                           \/ j \notin Active(T) /\ \E d \in B : Begins(d, u)

\* In the middle of a frame that found the tracks T: those of done were seen in it, the
\* others stand as they were; a track that was reported where a car stands is not news
\* and stays there, and stays alone where nothing else comes there.
MidStep(T, M, B, sc, done) ==
    /\ sc \in Scenes
    /\ done \subseteq Active(sc.tracks) /\ \A j \in done : sc.tracks[j].unseen = 0
    /\ \A j \in done : Advanced(T, M, B, j, sc.tracks[j])
    /\ \A j \in Active(T) \ done : sc.tracks[j] = T[j]
    /\ Active(sc.tracks) \subseteq Active(T) \union done
    /\ Departed(sc.tracks) \subseteq Departed(T)
    /\ \A e \in sc.out : e.what # "departed"
    /\ Backed(sc.tracks, sc.out, done)
    /\ \A c \in Cars, k \in Ids :
          /\ Stands(T, c, k) => Stands(sc.tracks, c, k) /\ NotNews(sc.out, k)
          /\ Kept(T, M, B, c, k) => Holds(sc.tracks, c, k)

LEMMA AlikeAdvances ==
    ASSUME NEW T, NEW M, NEW B, NEW j, NEW u, Advanced(T, M, B, j, u), NEW v, Alike(u, v)
    PROVE  Advanced(T, M, B, j, v)
<1>1. \A d : Begins(d, u) => Begins(d, v)
    BY DEF Begins, Alike, Same
<1>2. \A d : Continues(T[j], d, u) => Continues(T[j], d, v)
    BY DEF Continues, Alike, Same
<1>3. QED
    BY <1>1, <1>2 DEF Advanced

LEMMA ActiveStates ==
    ASSUME NEW T \in [Ids -> Slots], NEW U \in [Ids -> Slots], NEW j \in Ids
    PROVE  /\ U[j] = T[j] => (j \in Active(U) <=> j \in Active(T)) /\ (j \in Alive(U) <=> j \in Alive(T))
           /\ U[j] = NoneId => j \notin Active(U)
           /\ j \in Active(T) => j \notin Departed(T) /\ j \in Alive(T)
BY DEF Active, Departed, Alive, NoneId

LEMMA TurnKeeps ==
    ASSUME NEW T \in [Ids -> Slots], NEW a \in Scenes, NEW b \in Scenes, NEW done \in SUBSET Ids,
           NEW M, NEW B, MidStep(T, M, B, a, done), NEW i \in Ids \ done, NEW spot,
           Found(a, b, i, spot), Advanced(T, M, B, i, b.tracks[i]),
           \A c \in Cars : Stands(T, c, i) =>
              spot = pos[c] /\ b.tracks[i].reported /\ Unannounced(a, b),
           \A c \in Cars, k \in Ids \ {i} : Kept(T, M, B, c, k) => spot # pos[c]
    PROVE  MidStep(T, M, B, b, done \union {i})
<1> DEFINE now == done \union {i}
<1>1. a.tracks \in [Ids -> Slots] /\ b.tracks \in [Ids -> Slots]
    BY DEF Scenes
<1>2. ASSUME NEW j \in Ids \ {i}
      PROVE  /\ j \in Active(a.tracks) => b.tracks[j] = a.tracks[j]
             /\ j \in Active(b.tracks) <=> j \in Active(a.tracks)
    <2>1. b.tracks[j] = a.tracks[j] \/ (j \in Departed(a.tracks) /\ b.tracks[j] = NoneId)
        BY DEF Found, Quiet
    <2>2. QED
        BY <1>1, <2>1, ActiveStates DEF Active
<1>3. /\ i \in Active(b.tracks) /\ b.tracks[i].spot = spot /\ b.tracks[i].unseen = 0
      /\ a.out \subseteq b.out
    BY DEF Found, Quiet
<1>4. \A j \in done : j \in Active(a.tracks) /\ b.tracks[j] = a.tracks[j] /\ j \in Active(b.tracks)
    BY <1>2 DEF MidStep
<1>5. now \subseteq Active(b.tracks) /\ \A j \in now : b.tracks[j].unseen = 0
    BY <1>3, <1>4 DEF MidStep
<1>6. \A j \in Active(T) \ now : b.tracks[j] = T[j]
    <2> SUFFICES ASSUME NEW j \in Active(T) \ now PROVE b.tracks[j] = T[j]
        OBVIOUS
    <2>1. j \in Ids \ {i} /\ a.tracks[j] = T[j]
        BY DEF MidStep, Active, Alive
    <2>2. j \in Active(a.tracks)
        BY <1>1, <2>1, ActiveStates
    <2>3. QED
        BY <1>2, <2>1, <2>2
<1>7. Active(b.tracks) \subseteq Active(T) \union now
    <2> SUFFICES ASSUME NEW j \in Active(b.tracks), j # i PROVE j \in Active(T) \union done
        OBVIOUS
    <2>1. j \in Ids \ {i}
        BY DEF Active, Alive
    <2>2. QED
        BY <1>2, <2>1 DEF MidStep
<1>8. Departed(b.tracks) \subseteq Departed(T)
    <2> SUFFICES ASSUME NEW j \in Departed(b.tracks) PROVE j \in Departed(T)
        OBVIOUS
    <2>1. j \in Ids /\ j # i /\ b.tracks[j] # NoneId
        BY <1>1, <1>3, ActiveStates DEF Departed, Alive, NoneId
    <2>2. b.tracks[j] = a.tracks[j]
        BY <2>1 DEF Found, Quiet
    <2>3. j \in Departed(a.tracks)
        BY <2>2 DEF Departed, Alive
    <2>4. QED
        BY <2>3 DEF MidStep
<1>9. \A e \in b.out : e \in a.out \/ e \in News(a, b)
    BY DEF News
<1>10. \A e \in b.out : e.what # "departed"
    BY <1>9 DEF MidStep, Found, Quiet
<1>11. Backed(b.tracks, b.out, now)
    <2>1. ASSUME NEW e \in b.out, Announces(e)
          PROVE  /\ e \in a.out => /\ e.track \in done /\ e.track # i
                                   /\ b.tracks[e.track].reported /\ b.tracks[e.track].spot = e.spot
                 /\ e \in News(a, b) => /\ e.track = i /\ b.tracks[i].reported
                                        /\ b.tracks[i].spot = e.spot
        <3>1. ASSUME e \in a.out
              PROVE  /\ e.track \in done /\ e.track # i
                     /\ b.tracks[e.track].reported /\ b.tracks[e.track].spot = e.spot
            <4>1. e.track \in done /\ a.tracks[e.track].reported /\ a.tracks[e.track].spot = e.spot
                BY <2>1, <3>1 DEF MidStep, Backed
            <4>2. QED
                BY <1>4, <4>1
        <3>2. e \in News(a, b) => /\ e.track = i /\ b.tracks[i].reported
                                  /\ b.tracks[i].spot = e.spot
            BY <2>1 DEF Found
        <3>3. QED
            BY <3>1, <3>2
    <2>2. ASSUME NEW e \in b.out, NEW f \in b.out, Announces(e), Announces(f), e.track = f.track
          PROVE  e = f
        <3>1. CASE e \in a.out /\ f \in a.out
            BY <2>2, <3>1 DEF MidStep, Backed
        <3>2. CASE e \in News(a, b) /\ f \in News(a, b)
            BY <2>2, <3>2 DEF Found
        <3>3. QED
            BY <1>9, <2>1, <2>2, <3>1, <3>2
    <2>3. QED
        BY <1>9, <2>1, <2>2 DEF Backed
<1>12. ASSUME NEW c \in Cars, NEW k \in Ids, Stands(T, c, k)
       PROVE  Stands(b.tracks, c, k) /\ NotNews(b.out, k)
    <2>1. Stands(a.tracks, c, k) /\ NotNews(a.out, k)
        BY <1>12 DEF MidStep
    <2>2. CASE i = k
        <3>1. spot = pos[c] /\ b.tracks[i].reported /\ Unannounced(a, b)
            BY <1>12, <2>2
        <3>2. Stands(b.tracks, c, k)
            BY <1>3, <2>2, <3>1 DEF Stands
        <3>3. QED
            BY <1>9, <2>1, <3>1, <3>2 DEF NotNews, Unannounced
    <2>3. CASE i # k
        <3>1. Stands(b.tracks, c, k)
            BY <1>2, <2>1, <2>3 DEF Stands
        <3>2. \A e \in News(a, b) : Announces(e) => e.track = i
            BY DEF Found
        <3>3. QED
            BY <1>9, <2>1, <2>3, <3>1, <3>2 DEF NotNews
    <2>4. QED
        BY <2>2, <2>3
<1>13. ASSUME NEW c \in Cars, NEW k \in Ids, Kept(T, M, B, c, k)
       PROVE  Holds(b.tracks, c, k)
    <2>1. Holds(a.tracks, c, k) /\ Stands(T, c, k)
        BY <1>13 DEF MidStep, Kept, Holds
    <2>2. Stands(b.tracks, c, k)
        BY <1>12, <2>1
    <2>3. ASSUME NEW j \in Active(b.tracks), b.tracks[j].spot = pos[c] PROVE j = k
        <3>1. j \in Ids
            BY DEF Active, Alive
        <3>2. CASE j = i
            BY <1>3, <1>13, <2>3, <3>2
        <3>3. CASE j # i
            <4>1. j \in Active(a.tracks) /\ b.tracks[j] = a.tracks[j]
                BY <1>2, <3>1, <3>3
            <4>2. QED
                BY <2>1, <2>3, <4>1 DEF Holds
        <3>4. QED
            BY <3>2, <3>3
    <2>4. QED
        BY <2>2, <2>3 DEF Holds
<1>14. \A j \in now : Advanced(T, M, B, j, b.tracks[j])
    BY <1>4 DEF MidStep
<1>15. QED
    BY <1>5, <1>6, <1>7, <1>8, <1>10, <1>11, <1>12, <1>14, <1>13 DEF MidStep

-----------------------------------------------------------------------------
\* A matching takes no track from where it was reported and a car stands.
SoundMatch(T, M) ==
    /\ IsFiniteSet(M) /\ M \subseteq Active(T) \X Boxes
    /\ \A p \in M : IouRank(T[p[1]], p[2]) > 0
    /\ \A p, q \in M : Clash(p, q) => p = q
    /\ \A c \in Cars : \A p \in M : Stands(T, c, p[1]) => p[2].spot = pos[c]

\* The first pass continues every matched track.
LEMMA ContinuedAllKeeps ==
    ASSUME NEW T \in [Ids -> Slots], NEW M, NEW B, NEW alike, SoundMatch(T, M)
    PROVE  /\ MidStep(T, M, B, ContinuedAll(T, M, alike), {p[1] : p \in M})
           /\ ContinuedAll(T, M, alike).met = {p[1] : p \in M}
<1> DEFINE S       == M
           Done(s) == {p[1] : p \in s}
           G       == [s \in SUBSET S |-> {sc \in Scenes : MidStep(T, M, B, sc, Done(s)) /\ sc.met = Done(S)}]
           base    == [tracks |-> T, out |-> {}, met |-> {p[1] : p \in M}]
           turn(p, sc) == Asked(Continued(sc, p[1], p[2], alike), p[1])
           Pick(s) == CHOOSE x \in s : TRUE
           pick    == [s \in SUBSET S |-> Pick(s)]
           F       == [x \in S |-> [f \in UNION {G[s] : s \in SUBSET S} |-> turn(x, f)]]
           iter    == CHOOSE r : r = [s \in SUBSET S |-> IF s = {} THEN base ELSE turn(Pick(s), r[s \ {Pick(s)}])]
<1>1. IsFiniteSet(S)
    BY DEF SoundMatch
<1>2. base \in G[{}]
    <2>1. Done(S) \subseteq Ids
        BY DEF SoundMatch, Active, Alive
    <2>2. base \in Scenes
        BY <2>1 DEF Scenes
    <2>3. base.tracks = T /\ base.out = {} /\ base.met = Done(S) /\ Done({}) = {}
        OBVIOUS
    <2> HIDE DEF base, Done
    <2>4. MidStep(T, M, B, base, {})
        BY <2>2, <2>3 DEF MidStep, Backed, NotNews, Kept
    <2>5. QED
        BY <2>2, <2>3, <2>4
<1>3. ASSUME NEW s \in SUBSET S, NEW p \in s, NEW a \in G[s \ {p}]
      PROVE  turn(p, a) \in G[s]
    <2> DEFINE i    == p[1]
               d    == p[2]
               done == Done(s \ {p})
               b    == Asked(Continued(a, i, d, alike), i)
    <2>1. a \in Scenes /\ MidStep(T, M, B, a, done) /\ a.met = Done(S)
        OBVIOUS
    <2>2. i \in Active(T) /\ i \in Ids /\ d \in Boxes /\ IouRank(T[i], d) > 0
        BY DEF SoundMatch, Active, Alive
    <2>3. i \notin done /\ done \subseteq Ids /\ Done(s) = done \union {i}
        BY DEF SoundMatch, Clash, Active, Alive
    <2> HIDE DEF done
    <2>4. a.tracks[i] = T[i] /\ i \in Active(a.tracks)
        <3>1. a.tracks[i] = T[i]
            BY <2>1, <2>2, <2>3 DEF MidStep
        <3>2. a.tracks \in [Ids -> Slots]
            BY <2>1 DEF Scenes
        <3>3. QED
            BY <2>2, <3>1, <3>2, ActiveStates
    <2>5. /\ b \in Scenes /\ Found(a, b, i, d.spot) /\ b.met = a.met
          /\ T[i].reported => b.tracks[i].reported /\ Unannounced(a, b)
          /\ Continues(T[i], d, b.tracks[i])
        <3> HIDE DEF i, d, done
        <3>1. IouRank(a.tracks[i], d) > 0
            BY <2>2, <2>4
        <3>2. /\ b \in Scenes /\ Found(a, b, i, d.spot) /\ b.met = a.met
              /\ a.tracks[i].reported => b.tracks[i].reported /\ Unannounced(a, b)
              /\ Continues(a.tracks[i], d, b.tracks[i])
            BY <2>1, <2>2, <2>4, <3>1, MatchedTurn
        <3> HIDE DEF b
        <3>3. QED
            BY <2>4, <3>2
    <2> HIDE DEF b
    <2>6. /\ \A c \in Cars : Stands(T, c, i) =>
                d.spot = pos[c] /\ b.tracks[i].reported /\ Unannounced(a, b)
          /\ \A c \in Cars, k \in Ids \ {i} : Kept(T, M, B, c, k) => d.spot # pos[c]
        BY <2>5 DEF SoundMatch, Stands, Kept
    <2>7. Advanced(T, M, B, i, b.tracks[i])
        BY <2>5 DEF Advanced
    <2>8. MidStep(T, M, B, b, done \union {i})
        BY <2>1, <2>2, <2>3, <2>5, <2>6, <2>7, TurnKeeps
    <2> HIDE DEF Done
    <2>9. b \in G[s]
        BY <2>1, <2>3, <2>5, <2>8
    <2>10. QED
        BY <2>9 DEF b
<1>4. ContinuedAll(T, M, alike) = iter[S]
    BY DEF ContinuedAll, FoldSet, MapThenFoldSet
<1>5. \A s \in SUBSET S : s # {} => Pick(s) \in s
    OBVIOUS
<1> HIDE DEF base, turn, G, Pick
<1>6. \A s \in SUBSET S, x \in S : \A f \in G[s] : F[x][f] = turn(x, f)
    OBVIOUS
<1>7. /\ \A s \in SUBSET S : s # {} => pick[s] \in s
      /\ \A s \in SUBSET S : s # {} => \A f \in G[s \ {pick[s]}] : F[pick[s]][f] \in G[s]
    BY <1>3, <1>5, <1>6
<1>8. \A s \in SUBSET S : pick[s] = Pick(s)
    OBVIOUS
<1> HIDE DEF F, pick
<1>9. FoldSteps(S, G, F, pick, base)
    BY <1>2, <1>7 DEF FoldSteps
<1>10. PICK run : IsFold(run, S, G, F, pick, base)
    BY <1>1, <1>9, FoldExists
<1>11. \A s \in SUBSET S : run[s] = IF s = {} THEN base ELSE turn(Pick(s), run[s \ {Pick(s)}])
    <2> SUFFICES ASSUME NEW s \in SUBSET S, s # {}
                 PROVE  run[s] = turn(Pick(s), run[s \ {Pick(s)}])
        BY <1>10 DEF IsFold
    <2>1. Pick(s) \in S /\ s \ {Pick(s)} \in SUBSET S
        BY <1>5
    <2>2. run[s] = F[Pick(s)][run[s \ {Pick(s)}]] /\ run[s \ {Pick(s)}] \in G[s \ {Pick(s)}]
        BY <1>8, <1>10, <2>1 DEF IsFold
    <2>3. QED
        BY <1>6, <2>1, <2>2
<1>12. run = [s \in SUBSET S |-> run[s]]
    BY <1>10 DEF IsFold
<1>13. run = [s \in SUBSET S |-> IF s = {} THEN base ELSE turn(Pick(s), run[s \ {Pick(s)}])]
    BY <1>11, <1>12
<1>14. iter = [s \in SUBSET S |-> IF s = {} THEN base ELSE turn(Pick(s), iter[s \ {Pick(s)}])]
    BY <1>13
<1> HIDE DEF iter
<1>15. /\ iter[{}] = base
        /\ \A s \in SUBSET S : s # {} => iter[s] = turn(Pick(s), iter[s \ {Pick(s)}])
    BY <1>14
<1>16. \A s \in SUBSET S : iter[s] \in G[s]
    <2> DEFINE R == {s \in SUBSET S : iter[s] \in G[s]}
    <2>1. {} \in R
        BY <1>2, <1>15
    <2>2. \A s \in SUBSET S : s # {} => \E x \in s : s \ {x} \in R => s \in R
        <3> SUFFICES ASSUME NEW s \in SUBSET S, s # {}, iter[s \ {Pick(s)}] \in G[s \ {Pick(s)}]
                     PROVE  iter[s] \in G[s]
            BY <1>5
        <3>1. Pick(s) \in s /\ iter[s] = turn(Pick(s), iter[s \ {Pick(s)}])
            BY <1>5, <1>15
        <3>2. QED
            BY <1>3, <3>1
    <2> HIDE DEF R
    <2>3. \A s \in SUBSET S : s \in R
        BY <1>1, <2>1, <2>2, SubsetsByOne
    <2>4. QED
        BY <2>3 DEF R
<1>17. G[S] = {sc \in Scenes : MidStep(T, M, B, sc, Done(S)) /\ sc.met = Done(S)}
    BY DEF G
<1>18. QED
    BY <1>4, <1>16, <1>17

\* The second pass begins a track for every box left over, as long as there is room and no
\* track lies there.
Covered(T, B) == \A d \in B : d.part \/ \E k \in Active(T) : T[k].spot = d.spot

LEMMA CreatedAllKeeps ==
    ASSUME NEW T \in [Ids -> Slots], NEW M, NEW B \in SUBSET Boxes, IsFiniteSet(B),
           NEW scene \in Scenes, MidStep(T, M, B, scene, scene.met), NEW watched \in BOOLEAN,
           NEW alike, Cardinality(Alive(scene.tracks)) + Cardinality(B) <= Cardinality(Ids)
    PROVE  LET r == CreatedAll(scene, B, watched, alike) IN
           /\ r \in Scenes /\ MidStep(T, M, B, r, r.met) /\ scene.met \subseteq r.met
           /\ Covered(r.tracks, B)
<1> DEFINE S       == B
           Within(sc, s) == /\ MidStep(T, M, B, sc, sc.met) /\ scene.met \subseteq sc.met
                            /\ Covered(sc.tracks, s)
                            /\ Cardinality(Alive(sc.tracks)) <= Cardinality(Alive(scene.tracks)) + Cardinality(s)
           G       == [s \in SUBSET S |-> {sc \in Scenes : Within(sc, s)}]
           base    == scene
           turn(d, sc) == Created(sc, d, watched, alike)
           Pick(s) == CHOOSE x \in s : TRUE
           pick    == [s \in SUBSET S |-> Pick(s)]
           F       == [x \in S |-> [f \in UNION {G[s] : s \in SUBSET S} |-> turn(x, f)]]
           iter    == CHOOSE r : r = [s \in SUBSET S |-> IF s = {} THEN base ELSE turn(Pick(s), r[s \ {Pick(s)}])]
<1>1. IsFiniteSet(S)
    OBVIOUS
<1>2. /\ IsFiniteSet(Ids) /\ Cardinality(Ids) \in Nat
       /\ \A U \in [Ids -> Slots] : IsFiniteSet(Alive(U)) /\ Cardinality(Alive(U)) \in Nat
    <2>1. \A U \in [Ids -> Slots] : Alive(U) \in SUBSET Ids
        BY DEF Alive
    <2>2. QED
        BY <2>1, VehicleAssumption, FS_Subset, FS_CardinalityType
<1>3. \A s \in SUBSET S : IsFiniteSet(s) /\ Cardinality(s) \in Nat /\ Cardinality(s) <= Cardinality(S)
    BY FS_Subset, FS_CardinalityType
<1>4. scene.tracks \in [Ids -> Slots] /\ \A sc \in Scenes : sc.tracks \in [Ids -> Slots] /\ sc.met \in SUBSET Ids
    BY DEF Scenes
<1>5. base \in G[{}]
    <2>1. Cardinality({}) = 0
        BY FS_EmptySet
    <2>2. QED
        BY <1>2, <1>4, <2>1 DEF Covered
<1>6. ASSUME NEW s \in SUBSET S, NEW d \in s, NEW a \in G[s \ {d}]
      PROVE  turn(d, a) \in G[s]
    <2> DEFINE b == turn(d, a)
    <2>1. a \in Scenes /\ Within(a, s \ {d})
        OBVIOUS
    <2>2. Cardinality(s \ {d}) = Cardinality(s) - 1
        BY <1>3, FS_RemoveElement
    <2>3. Cardinality(Alive(a.tracks)) <= Cardinality(Alive(scene.tracks)) + Cardinality(s) - 1
        BY <1>2, <1>3, <1>4, <2>1, <2>2
    <2>4. \E k \in Ids : a.tracks[k] = NoneId
        <3>1. Cardinality(Alive(a.tracks)) < Cardinality(Ids)
            BY <1>2, <1>3, <1>4, <2>1, <2>3
        <3>2. Alive(a.tracks) # Ids
            BY <1>2, <1>4, <2>1, <3>1
        <3>3. PICK k \in Ids : k \notin Alive(a.tracks)
            BY <3>2 DEF Alive
        <3>4. QED
            BY <1>4, <2>1, <3>3, StatesOf
    <2>5. CASE b = a /\ (d.part \/ \E k \in Active(a.tracks) : a.tracks[k].spot = d.spot)
        <3>1. Covered(a.tracks, s)
            BY <2>1, <2>5 DEF Covered
        <3>2. Within(a, s)
            BY <1>2, <1>3, <1>4, <2>1, <2>3, <3>1
        <3>3. QED
            BY <2>1, <2>5, <3>2
    <2>6. ASSUME NEW i \in Ids \ Alive(a.tracks), b \in Scenes, Found(a, b, i, d.spot),
                 b.met = a.met \union {i}, Begins(d, b.tracks[i])
          PROVE  b \in G[s]
        <3> HIDE DEF b
        <3>1. i \notin a.met /\ a.met \in SUBSET Ids
            BY <1>4, <2>1 DEF MidStep, Active
        <3>2. /\ \A c \in Cars : ~Stands(T, c, i)
              /\ \A c \in Cars, k \in Ids \ {i} : Kept(T, M, B, c, k) => d.spot # pos[c]
            BY <2>1 DEF MidStep, Stands, Active, Kept
        <3>3. MidStep(T, M, B, b, b.met)
            <4>1. i \notin Active(T)
                <5>1. i \in Active(T) => a.tracks[i] = T[i]
                    BY <2>1, <3>1 DEF MidStep
                <5>2. QED
                    BY <1>4, <2>1, <5>1, ActiveStates
            <4>2. Advanced(T, M, B, i, b.tracks[i])
                BY <2>6, <4>1 DEF Advanced
            <4>3. QED
                BY <2>1, <2>6, <3>1, <3>2, <4>2, TurnKeeps
        <3>4. Alive(b.tracks) \subseteq Alive(a.tracks) \union {i}
            <4> SUFFICES ASSUME NEW j \in Alive(b.tracks), j # i PROVE j \in Alive(a.tracks)
                OBVIOUS
            <4>1. j \in Ids \ {i} /\ b.tracks[j].state # "none"
                BY DEF Alive
            <4>2. b.tracks[j] = a.tracks[j]
                BY <2>6, <4>1, NoTrack DEF Found, Quiet
            <4>3. QED
                BY <4>1, <4>2 DEF Alive
        <3>5. Cardinality(Alive(b.tracks)) <= Cardinality(Alive(a.tracks)) + 1
            <4>1. /\ IsFiniteSet(Alive(a.tracks) \union {i})
                  /\ Cardinality(Alive(a.tracks) \union {i}) = Cardinality(Alive(a.tracks)) + 1
                BY <1>2, <1>4, <2>1, FS_AddElement
            <4>2. Cardinality(Alive(b.tracks)) <= Cardinality(Alive(a.tracks) \union {i})
                BY <3>4, <4>1, FS_Subset
            <4>3. QED
                BY <4>1, <4>2
        <3>6. Covered(b.tracks, s)
            <4>1. i \in Active(b.tracks) /\ b.tracks[i].spot = d.spot
                BY <2>6 DEF Found, Quiet
            <4>2. ASSUME NEW k \in Active(a.tracks)
                  PROVE  k \in Active(b.tracks) /\ b.tracks[k] = a.tracks[k]
                <5>1. k \in Ids /\ k # i /\ k \notin Departed(a.tracks)
                    BY DEF Active, Alive, Departed
                <5>2. b.tracks[k] = a.tracks[k]
                    BY <2>6, <5>1 DEF Found, Quiet
                <5>3. QED
                    BY <5>1, <5>2 DEF Active, Alive
            <4>3. QED
                BY <2>1, <4>1, <4>2 DEF Covered
        <3>7. Within(b, s)
            BY <1>2, <1>3, <1>4, <2>1, <2>3, <2>6, <3>3, <3>5, <3>6
        <3>8. QED
            BY <2>6, <3>7
    <2>7. \/ b = a /\ (d.part \/ \E k \in Active(a.tracks) : a.tracks[k].spot = d.spot)
          \/ \E i \in Ids \ Alive(a.tracks) :
                /\ b \in Scenes /\ Found(a, b, i, d.spot) /\ b.met = a.met \union {i}
                /\ Begins(d, b.tracks[i])
        <3>1. d \in Boxes
            OBVIOUS
        <3>2. QED
            BY <2>1, <2>4, <3>1, CreatedTurn
    <2>8. QED
        BY <2>5, <2>6, <2>7
<1>7. CreatedAll(scene, B, watched, alike) = iter[S]
    BY DEF CreatedAll, FoldSet, MapThenFoldSet
<1>8. \A s \in SUBSET S : s # {} => Pick(s) \in s
    OBVIOUS
<1> HIDE DEF base, turn, G, Pick
<1>9. \A s \in SUBSET S, x \in S : \A f \in G[s] : F[x][f] = turn(x, f)
    OBVIOUS
<1>10. /\ \A s \in SUBSET S : s # {} => pick[s] \in s
      /\ \A s \in SUBSET S : s # {} => \A f \in G[s \ {pick[s]}] : F[pick[s]][f] \in G[s]
    BY <1>6, <1>8, <1>9
<1>11. \A s \in SUBSET S : pick[s] = Pick(s)
    OBVIOUS
<1> HIDE DEF F, pick
<1>12. FoldSteps(S, G, F, pick, base)
    BY <1>5, <1>10 DEF FoldSteps
<1>13. PICK run : IsFold(run, S, G, F, pick, base)
    BY <1>1, <1>12, FoldExists
<1>14. \A s \in SUBSET S : run[s] = IF s = {} THEN base ELSE turn(Pick(s), run[s \ {Pick(s)}])
    <2> SUFFICES ASSUME NEW s \in SUBSET S, s # {}
                 PROVE  run[s] = turn(Pick(s), run[s \ {Pick(s)}])
        BY <1>13 DEF IsFold
    <2>1. Pick(s) \in S /\ s \ {Pick(s)} \in SUBSET S
        BY <1>8
    <2>2. run[s] = F[Pick(s)][run[s \ {Pick(s)}]] /\ run[s \ {Pick(s)}] \in G[s \ {Pick(s)}]
        BY <1>11, <1>13, <2>1 DEF IsFold
    <2>3. QED
        BY <1>9, <2>1, <2>2
<1>15. run = [s \in SUBSET S |-> run[s]]
    BY <1>13 DEF IsFold
<1>16. run = [s \in SUBSET S |-> IF s = {} THEN base ELSE turn(Pick(s), run[s \ {Pick(s)}])]
    BY <1>14, <1>15
<1>17. iter = [s \in SUBSET S |-> IF s = {} THEN base ELSE turn(Pick(s), iter[s \ {Pick(s)}])]
    BY <1>16
<1> HIDE DEF iter
<1>18. /\ iter[{}] = base
        /\ \A s \in SUBSET S : s # {} => iter[s] = turn(Pick(s), iter[s \ {Pick(s)}])
    BY <1>17
<1>19. \A s \in SUBSET S : iter[s] \in G[s]
    <2> DEFINE R == {s \in SUBSET S : iter[s] \in G[s]}
    <2>1. {} \in R
        BY <1>5, <1>18
    <2>2. \A s \in SUBSET S : s # {} => \E x \in s : s \ {x} \in R => s \in R
        <3> SUFFICES ASSUME NEW s \in SUBSET S, s # {}, iter[s \ {Pick(s)}] \in G[s \ {Pick(s)}]
                     PROVE  iter[s] \in G[s]
            BY <1>8
        <3>1. Pick(s) \in s /\ iter[s] = turn(Pick(s), iter[s \ {Pick(s)}])
            BY <1>8, <1>18
        <3>2. QED
            BY <1>6, <3>1
    <2> HIDE DEF R
    <2>3. \A s \in SUBSET S : s \in R
        BY <1>1, <2>1, <2>2, SubsetsByOne
    <2>4. QED
        BY <2>3 DEF R
<1>20. CreatedAll(scene, B, watched, alike) \in {sc \in Scenes : Within(sc, S)}
    BY <1>7, <1>19 DEF G
<1>21. QED
    BY <1>20


\* A track that was missed once more stays as it is, unless it was absent for long enough.
Waits(t, u, observed) ==
    /\ Same(t, u) /\ (t.reported \/ u.count = t.count)
    /\ u.missed = IF t.missed < 2 THEN t.missed + 1 ELSE 2
    /\ ~Absent(u, observed)

Leaves(events, spot) == \E e \in events : e.what = "departed" /\ e.spot = spot

\* What is left of a scene, new, when the tracks of s were missed: some of them departed,
\* which were away for long enough, and nothing else is told.
LeftStep(T, new, sc, s, observed) ==
    /\ sc.met = new.met
    /\ \A j \in Ids \ s : sc.tracks[j] = new.tracks[j]
    /\ \A j \in s : \/ j \in Active(sc.tracks) /\ Waits(T[j], sc.tracks[j], observed)
                    \/ /\ j \notin Active(sc.tracks) /\ AwayFor(T[j], observed) >= Absence
                       /\ T[j].reported => Leaves(sc.out, T[j].spot)
    /\ new.out \subseteq sc.out
    /\ \A e \in News(new, sc) : /\ e.what = "departed"
                                /\ \E j \in s : e.spot = T[j].spot /\ AwayFor(T[j], observed) >= Absence

LEMMA MissedTurn ==
    ASSUME NEW a \in Scenes, NEW i \in Active(a.tracks), NEW observed
    PROVE  LET b == Missed(a, i, observed)
               t == a.tracks[i] IN
           /\ b \in Scenes /\ b.met = a.met /\ \A j \in Ids \ {i} : b.tracks[j] = a.tracks[j]
           /\ \/ i \in Active(b.tracks) /\ Waits(t, b.tracks[i], observed)
              \/ /\ i \notin Active(b.tracks) /\ AwayFor(t, observed) >= Absence
                 /\ t.reported => Leaves(b.out, t.spot)
           /\ a.out \subseteq b.out
           /\ \A e \in News(a, b) : /\ e.what = "departed" /\ e.spot = t.spot
                                    /\ AwayFor(t, observed) >= Absence
<1> DEFINE t == a.tracks[i]
           u == [t EXCEPT !.missed = IF @ < 2 THEN @ + 1 ELSE @]
           v == [u EXCEPT !.state = "departed", !.streak = 0, !.gone = 0]
           e == Event(a, i, "departed")
           b == Missed(a, i, observed)
<1>1. i \in Ids /\ i \in Alive(a.tracks) /\ t \in Tracked /\ t.state # "departed"
    BY StatesOf DEF Scenes, Active, Alive
<1>2. /\ u \in Tracked /\ Same(t, u) /\ u.state = t.state /\ u.count = t.count
      /\ u.missed = IF t.missed < 2 THEN t.missed + 1 ELSE 2
      /\ t.reported => v \in Tracked /\ v.state = "departed"
    BY <1>1, MissedTrack
<1>3. \/ AwayFor(t, observed) >= Absence /\ t.reported /\ b = Say(Put(a, i, v), e)
      \/ AwayFor(t, observed) >= Absence /\ ~t.reported /\ b = Put(a, i, NoneId)
      \/ b = Put(a, i, u) /\ ~Absent(u, observed)
    <2>1. Absent(u, observed) => AwayFor(t, observed) >= Absence
        BY <1>2 DEF Absent, AwayFor, Same
    <2>2. QED
        BY <2>1 DEF Missed
<1> HIDE DEF b, u, v
<1>4. CASE AwayFor(t, observed) >= Absence /\ t.reported /\ b = Say(Put(a, i, v), e)
    <2> DEFINE p == Put(a, i, v)
    <2>1. v \in Slots
        BY <1>2, <1>4 DEF Slots
    <2>2. /\ p \in Scenes /\ p.out = a.out /\ p.met = a.met
          /\ p.tracks[i] = v /\ \A j \in Ids \ {i} : p.tracks[j] = a.tracks[j]
        BY <1>1, <2>1, PutMade
    <2>3. e \in Events /\ e.what = "departed" /\ e.spot = t.spot /\ e.track = i
        BY <1>1, EventMade
    <2> HIDE DEF p, e
    <2>4. b \in Scenes /\ b.out = p.out \union {e} /\ b.met = p.met /\ b.tracks = p.tracks
        BY <1>4, <2>2, <2>3, SayMade DEF p
    <2>5. i \notin Active(b.tracks)
        BY <1>2, <1>4, <2>2, <2>4 DEF Active
    <2>6. News(a, b) \subseteq {e} /\ a.out \subseteq b.out
        BY <2>2, <2>4 DEF News
    <2>7. \A j \in Ids \ {i} : b.tracks[j] = a.tracks[j]
        BY <2>2, <2>4
    <2>8. b.met = a.met
        BY <2>2, <2>4
    <2>9. Leaves(b.out, t.spot)
        BY <2>3, <2>4 DEF Leaves
    <2>10. QED
        BY <1>4, <2>3, <2>4, <2>5, <2>6, <2>7, <2>8, <2>9 DEF b
<1>5. CASE AwayFor(t, observed) >= Absence /\ ~t.reported /\ b = Put(a, i, NoneId)
    <2>1. /\ b \in Scenes /\ b.out = a.out /\ b.met = a.met
          /\ b.tracks[i] = NoneId /\ \A j \in Ids \ {i} : b.tracks[j] = a.tracks[j]
        BY <1>1, <1>5, NoTrack, PutMade
    <2>2. i \notin Active(b.tracks)
        BY <2>1, NoTrack DEF Active, Alive
    <2>3. News(a, b) = {}
        BY <2>1 DEF News
    <2>4. QED
        BY <1>5, <2>1, <2>2, <2>3 DEF b
<1>6. CASE b = Put(a, i, u) /\ ~Absent(u, observed)
    <2>1. /\ b \in Scenes /\ b.out = a.out /\ b.met = a.met
          /\ b.tracks[i] = u /\ \A j \in Ids \ {i} : b.tracks[j] = a.tracks[j]
        BY <1>1, <1>2, <1>6, PutMade DEF Slots
    <2>2. i \in Active(b.tracks)
        BY <1>1, <1>2, <2>1, StatesOf DEF Scenes
    <2>3. News(a, b) = {}
        BY <2>1 DEF News
    <2>4. Waits(t, b.tracks[i], observed)
        BY <1>2, <1>6, <2>1 DEF Waits
    <2>5. QED
        BY <2>1, <2>2, <2>3, <2>4 DEF b
<1>7. QED
    BY <1>3, <1>4, <1>5, <1>6

\* The third pass.
LEMMA MissedAllKeeps ==
    ASSUME NEW T \in [Ids -> Slots], NEW new \in Scenes, NEW observed,
           \A j \in Active(T) \ new.met : new.tracks[j] = T[j]
    PROVE  LET r == MissedAll(new, Active(T) \ new.met, observed) IN
           r \in Scenes /\ LeftStep(T, new, r, Active(T) \ new.met, observed)
<1> DEFINE S       == Active(T) \ new.met
           G       == [s \in SUBSET S |-> {sc \in Scenes : LeftStep(T, new, sc, s, observed)}]
           base    == new
           turn(i, sc) == Missed(sc, i, observed)
           Pick(s) == CHOOSE x \in s : TRUE
           pick    == [s \in SUBSET S |-> Pick(s)]
           F       == [x \in S |-> [f \in UNION {G[s] : s \in SUBSET S} |-> turn(x, f)]]
           iter    == CHOOSE r : r = [s \in SUBSET S |-> IF s = {} THEN base ELSE turn(Pick(s), r[s \ {Pick(s)}])]
<1>1. IsFiniteSet(S)
    <2>1. S \in SUBSET Ids
        BY DEF Active, Alive
    <2>2. QED
        BY <2>1, VehicleAssumption, FS_Subset
<1>2. base \in G[{}]
    BY DEF LeftStep, News
<1>3. ASSUME NEW s \in SUBSET S, NEW i \in s, NEW a \in G[s \ {i}]
      PROVE  turn(i, a) \in G[s]
    <2> DEFINE b == turn(i, a)
    <2>1. a \in Scenes /\ LeftStep(T, new, a, s \ {i}, observed)
        OBVIOUS
    <2>2. i \in Active(T) /\ i \in Ids /\ i \in S /\ s \subseteq Ids
        BY DEF Active, Alive
    <2>3. a.tracks[i] = T[i] /\ a.tracks \in [Ids -> Slots]
        BY <2>1, <2>2 DEF LeftStep, Scenes
    <2>4. i \in Active(a.tracks)
        BY <2>2, <2>3, ActiveStates
    <2>5. /\ b \in Scenes /\ b.met = a.met /\ \A j \in Ids \ {i} : b.tracks[j] = a.tracks[j]
          /\ \/ i \in Active(b.tracks) /\ Waits(a.tracks[i], b.tracks[i], observed)
             \/ /\ i \notin Active(b.tracks) /\ AwayFor(a.tracks[i], observed) >= Absence
                /\ a.tracks[i].reported => Leaves(b.out, a.tracks[i].spot)
          /\ a.out \subseteq b.out
          /\ \A e \in News(a, b) : /\ e.what = "departed" /\ e.spot = a.tracks[i].spot
                                   /\ AwayFor(a.tracks[i], observed) >= Absence
        BY <2>1, <2>4, MissedTurn
    <2> HIDE DEF b, S, turn
    <2>6. LeftStep(T, new, b, s, observed)
        <3>1. b.met = new.met /\ new.out \subseteq b.out
            BY <2>1, <2>5 DEF LeftStep
        <3>2. \A j \in Ids \ s : b.tracks[j] = new.tracks[j]
            BY <2>1, <2>5 DEF LeftStep
        <3>3. ASSUME NEW j \in s
              PROVE  \/ j \in Active(b.tracks) /\ Waits(T[j], b.tracks[j], observed)
                     \/ /\ j \notin Active(b.tracks) /\ AwayFor(T[j], observed) >= Absence
                        /\ T[j].reported => Leaves(b.out, T[j].spot)
            <4>1. CASE j = i
                BY <2>3, <2>5, <4>1
            <4>2. CASE j # i
                <5>1. j \in Ids /\ b.tracks[j] = a.tracks[j] /\ b.tracks \in [Ids -> Slots]
                    BY <2>2, <2>5, <4>2 DEF Scenes
                <5>2. \/ j \in Active(a.tracks) /\ Waits(T[j], a.tracks[j], observed)
                      \/ /\ j \notin Active(a.tracks) /\ AwayFor(T[j], observed) >= Absence
                         /\ T[j].reported => Leaves(b.out, T[j].spot)
                    BY <2>1, <2>5, <4>2 DEF LeftStep, Leaves
                <5>3. j \in Active(b.tracks) <=> j \in Active(a.tracks)
                    BY <2>3, <5>1, ActiveStates
                <5>4. QED
                    BY <5>1, <5>2, <5>3
            <4>3. QED
                BY <4>1, <4>2
        <3>4. ASSUME NEW e \in News(new, b)
              PROVE  /\ e.what = "departed"
                     /\ \E j \in s : e.spot = T[j].spot /\ AwayFor(T[j], observed) >= Absence
            <4>1. e \in News(new, a) \/ e \in News(a, b)
                BY DEF News
            <4>2. QED
                BY <2>1, <2>3, <2>5, <4>1 DEF LeftStep
        <3>5. QED
            BY <3>1, <3>2, <3>3, <3>4 DEF LeftStep
    <2>7. QED
        BY <2>5, <2>6 DEF b
<1>4. MissedAll(new, S, observed) = iter[S]
    BY DEF MissedAll, FoldSet, MapThenFoldSet
<1>5. \A s \in SUBSET S : s # {} => Pick(s) \in s
    OBVIOUS
<1> HIDE DEF base, turn, G, Pick
<1>6. \A s \in SUBSET S, x \in S : \A f \in G[s] : F[x][f] = turn(x, f)
    OBVIOUS
<1>7. /\ \A s \in SUBSET S : s # {} => pick[s] \in s
      /\ \A s \in SUBSET S : s # {} => \A f \in G[s \ {pick[s]}] : F[pick[s]][f] \in G[s]
    BY <1>3, <1>5, <1>6
<1>8. \A s \in SUBSET S : pick[s] = Pick(s)
    OBVIOUS
<1> HIDE DEF F, pick
<1>9. FoldSteps(S, G, F, pick, base)
    BY <1>2, <1>7 DEF FoldSteps
<1>10. PICK run : IsFold(run, S, G, F, pick, base)
    BY <1>1, <1>9, FoldExists
<1>11. \A s \in SUBSET S : run[s] = IF s = {} THEN base ELSE turn(Pick(s), run[s \ {Pick(s)}])
    <2> SUFFICES ASSUME NEW s \in SUBSET S, s # {}
                 PROVE  run[s] = turn(Pick(s), run[s \ {Pick(s)}])
        BY <1>10 DEF IsFold
    <2>1. Pick(s) \in S /\ s \ {Pick(s)} \in SUBSET S
        BY <1>5
    <2>2. run[s] = F[Pick(s)][run[s \ {Pick(s)}]] /\ run[s \ {Pick(s)}] \in G[s \ {Pick(s)}]
        BY <1>8, <1>10, <2>1 DEF IsFold
    <2>3. QED
        BY <1>6, <2>1, <2>2
<1>12. run = [s \in SUBSET S |-> run[s]]
    BY <1>10 DEF IsFold
<1>13. run = [s \in SUBSET S |-> IF s = {} THEN base ELSE turn(Pick(s), run[s \ {Pick(s)}])]
    BY <1>11, <1>12
<1>14. iter = [s \in SUBSET S |-> IF s = {} THEN base ELSE turn(Pick(s), iter[s \ {Pick(s)}])]
    BY <1>13
<1> HIDE DEF iter
<1>15. /\ iter[{}] = base
        /\ \A s \in SUBSET S : s # {} => iter[s] = turn(Pick(s), iter[s \ {Pick(s)}])
    BY <1>14
<1>16. \A s \in SUBSET S : iter[s] \in G[s]
    <2> DEFINE R == {s \in SUBSET S : iter[s] \in G[s]}
    <2>1. {} \in R
        BY <1>2, <1>15
    <2>2. \A s \in SUBSET S : s # {} => \E x \in s : s \ {x} \in R => s \in R
        <3> SUFFICES ASSUME NEW s \in SUBSET S, s # {}, iter[s \ {Pick(s)}] \in G[s \ {Pick(s)}]
                     PROVE  iter[s] \in G[s]
            BY <1>5
        <3>1. Pick(s) \in s /\ iter[s] = turn(Pick(s), iter[s \ {Pick(s)}])
            BY <1>5, <1>15
        <3>2. QED
            BY <1>3, <3>1
    <2> HIDE DEF R
    <2>3. \A s \in SUBSET S : s \in R
        BY <1>1, <2>1, <2>2, SubsetsByOne
    <2>4. QED
        BY <2>3 DEF R
<1>17. MissedAll(new, S, observed) \in {sc \in Scenes : LeftStep(T, new, sc, S, observed)}
    BY <1>4, <1>16 DEF G
<1>18. QED
    BY <1>17


\* What the people at the vehicles change: nothing that makes a track a car's.
TouchStep(scene, sc) ==
    /\ \A j \in Ids : /\ j \in Active(scene.tracks) <=> j \in Active(sc.tracks)
                      /\ j \in Active(scene.tracks) => Alike(scene.tracks[j], sc.tracks[j])
    /\ scene.out \subseteq sc.out
    /\ \A e \in News(scene, sc) : e.what = "interaction"

LEMMA TouchedTurn ==
    ASSUME NEW a \in Scenes, NEW i \in Active(a.tracks), NEW people
    PROVE  LET b == Touched(a, i, people) IN
           /\ b \in Scenes /\ \A j \in Ids \ {i} : b.tracks[j] = a.tracks[j]
           /\ i \in Active(b.tracks) /\ Alike(a.tracks[i], b.tracks[i])
           /\ a.out \subseteq b.out /\ \A e \in News(a, b) : e.what = "interaction"
<1> DEFINE t == a.tracks[i]
           n == IF t.spot \in people THEN (IF t.streak < Touch THEN t.streak + 1 ELSE Touch) ELSE 0
           u == [t EXCEPT !.streak = n]
           v == [u EXCEPT !.since = 0, !.interacted = TRUE, !.state = "tracking", !.count = 1]
           e == Event(a, i, "interaction")
           b == Touched(a, i, people)
<1>1. i \in Ids /\ i \in Alive(a.tracks) /\ t \in Tracked /\ t.state # "departed"
    BY StatesOf DEF Scenes, Active, Alive
<1>2. n \in 0..Touch
    BY <1>1, TrackFields, VehicleNumbers
<1> HIDE DEF n
<1>3. t.state \in {"tracking", "stable"} =>
         /\ u \in Tracked /\ Alike(t, u) /\ u.state = t.state
         /\ v \in Tracked /\ Alike(t, v) /\ v.state = "tracking"
    BY <1>1, <1>2, TouchedTrack
<1>4. \/ b = a
      \/ t.state \in {"tracking", "stable"} /\ b = Put(a, i, u)
      \/ t.state \in {"tracking", "stable"} /\ b = Say(Put(a, i, v), e)
    BY DEF Touched, n
<1> HIDE DEF b, u, v
<1>5. CASE b = a
    <2>1. News(a, b) = {} /\ Alike(t, t)
        BY <1>5 DEF News, Same, Alike
    <2>2. QED
        BY <1>5, <2>1 DEF b
<1>6. CASE t.state \in {"tracking", "stable"} /\ b = Put(a, i, u)
    <2>1. /\ b \in Scenes /\ b.out = a.out /\ b.tracks[i] = u
          /\ \A j \in Ids \ {i} : b.tracks[j] = a.tracks[j]
        <3>1. u \in Slots
            BY <1>3, <1>6 DEF Slots
        <3>2. QED
            BY <1>1, <1>6, <3>1, PutMade
    <2>2. i \in Active(b.tracks)
        BY <1>1, <1>3, <1>6, <2>1, StatesOf DEF Scenes
    <2>3. News(a, b) = {}
        BY <2>1 DEF News
    <2>4. Alike(t, b.tracks[i])
        BY <1>3, <1>6, <2>1
    <2>5. QED
        BY <2>1, <2>2, <2>3, <2>4 DEF b
<1>7. CASE t.state \in {"tracking", "stable"} /\ b = Say(Put(a, i, v), e)
    <2> DEFINE p == Put(a, i, v)
    <2>1. /\ p \in Scenes /\ p.out = a.out /\ p.tracks[i] = v
          /\ \A j \in Ids \ {i} : p.tracks[j] = a.tracks[j]
        BY <1>1, <1>3, <1>7, PutMade DEF Slots
    <2>2. e \in Events /\ e.what = "interaction"
        BY <1>1, EventMade
    <2> HIDE DEF p, e
    <2>3. b \in Scenes /\ b.out = p.out \union {e} /\ b.tracks = p.tracks
        BY <1>7, <2>1, <2>2, SayMade DEF p
    <2>4. i \in Active(b.tracks)
        BY <1>1, <1>3, <1>7, <2>1, <2>3, StatesOf DEF Scenes
    <2>5. News(a, b) \subseteq {e} /\ a.out \subseteq b.out
        BY <2>1, <2>3 DEF News
    <2>6. Alike(t, b.tracks[i])
        BY <1>3, <1>7, <2>1, <2>3
    <2>7. \A j \in Ids \ {i} : b.tracks[j] = a.tracks[j]
        BY <2>1, <2>3
    <2>8. QED
        BY <2>2, <2>3, <2>4, <2>5, <2>6, <2>7 DEF b
<1>8. QED
    BY <1>4, <1>5, <1>6, <1>7

\* The last pass.
LEMMA TouchedAllKeeps ==
    ASSUME NEW scene \in Scenes, NEW people
    PROVE  LET r == TouchedAll(scene, people) IN r \in Scenes /\ TouchStep(scene, r)
<1> DEFINE S       == Active(scene.tracks)
           G       == [s \in SUBSET S |-> {sc \in Scenes : TouchStep(scene, sc)}]
           base    == scene
           turn(i, sc) == Touched(sc, i, people)
           Pick(s) == CHOOSE x \in s : TRUE
           pick    == [s \in SUBSET S |-> Pick(s)]
           F       == [x \in S |-> [f \in UNION {G[s] : s \in SUBSET S} |-> turn(x, f)]]
           iter    == CHOOSE r : r = [s \in SUBSET S |-> IF s = {} THEN base ELSE turn(Pick(s), r[s \ {Pick(s)}])]
<1>1. IsFiniteSet(S)
    <2>1. S \in SUBSET Ids
        BY DEF Active, Alive
    <2>2. QED
        BY <2>1, VehicleAssumption, FS_Subset
<1>2. base \in G[{}]
    BY DEF TouchStep, News, Same, Alike
<1>3. ASSUME NEW s \in SUBSET S, NEW i \in s, NEW a \in G[s \ {i}]
      PROVE  turn(i, a) \in G[s]
    <2> DEFINE b == turn(i, a)
    <2>1. a \in Scenes /\ TouchStep(scene, a)
        OBVIOUS
    <2>2. i \in Ids /\ i \in Active(scene.tracks)
        BY DEF Active, Alive
    <2>3. i \in Active(a.tracks)
        BY <2>1, <2>2 DEF TouchStep
    <2>4. /\ b \in Scenes /\ \A j \in Ids \ {i} : b.tracks[j] = a.tracks[j]
          /\ i \in Active(b.tracks) /\ Alike(a.tracks[i], b.tracks[i])
          /\ a.out \subseteq b.out /\ \A e \in News(a, b) : e.what = "interaction"
        BY <2>1, <2>3, TouchedTurn
    <2> HIDE DEF b, S, turn
    <2>5. TouchStep(scene, b)
        <3>1. ASSUME NEW j \in Ids
              PROVE  /\ j \in Active(scene.tracks) <=> j \in Active(b.tracks)
                     /\ j \in Active(scene.tracks) => Alike(scene.tracks[j], b.tracks[j])
            <4>1. CASE j = i
                BY <2>1, <2>2, <2>4, <4>1 DEF TouchStep, Same, Alike
            <4>2. CASE j # i
                <5>1. b.tracks[j] = a.tracks[j] /\ b.tracks \in [Ids -> Slots] /\ a.tracks \in [Ids -> Slots]
                    BY <2>1, <2>4, <4>2 DEF Scenes
                <5>2. j \in Active(b.tracks) <=> j \in Active(a.tracks)
                    BY <5>1, ActiveStates
                <5>3. QED
                    BY <2>1, <5>1, <5>2 DEF TouchStep
            <4>3. QED
                BY <4>1, <4>2
        <3>2. \A e \in News(scene, b) : e \in News(scene, a) \/ e \in News(a, b)
            BY DEF News
        <3>3. QED
            BY <2>1, <2>4, <3>1, <3>2 DEF TouchStep
    <2>6. QED
        BY <2>4, <2>5 DEF b
<1>4. TouchedAll(scene, people) = iter[S]
    BY DEF TouchedAll, FoldSet, MapThenFoldSet
<1>5. \A s \in SUBSET S : s # {} => Pick(s) \in s
    OBVIOUS
<1> HIDE DEF base, turn, G, Pick
<1>6. \A s \in SUBSET S, x \in S : \A f \in G[s] : F[x][f] = turn(x, f)
    OBVIOUS
<1>7. /\ \A s \in SUBSET S : s # {} => pick[s] \in s
      /\ \A s \in SUBSET S : s # {} => \A f \in G[s \ {pick[s]}] : F[pick[s]][f] \in G[s]
    BY <1>3, <1>5, <1>6
<1>8. \A s \in SUBSET S : pick[s] = Pick(s)
    OBVIOUS
<1> HIDE DEF F, pick
<1>9. FoldSteps(S, G, F, pick, base)
    BY <1>2, <1>7 DEF FoldSteps
<1>10. PICK run : IsFold(run, S, G, F, pick, base)
    BY <1>1, <1>9, FoldExists
<1>11. \A s \in SUBSET S : run[s] = IF s = {} THEN base ELSE turn(Pick(s), run[s \ {Pick(s)}])
    <2> SUFFICES ASSUME NEW s \in SUBSET S, s # {}
                 PROVE  run[s] = turn(Pick(s), run[s \ {Pick(s)}])
        BY <1>10 DEF IsFold
    <2>1. Pick(s) \in S /\ s \ {Pick(s)} \in SUBSET S
        BY <1>5
    <2>2. run[s] = F[Pick(s)][run[s \ {Pick(s)}]] /\ run[s \ {Pick(s)}] \in G[s \ {Pick(s)}]
        BY <1>8, <1>10, <2>1 DEF IsFold
    <2>3. QED
        BY <1>6, <2>1, <2>2
<1>12. run = [s \in SUBSET S |-> run[s]]
    BY <1>10 DEF IsFold
<1>13. run = [s \in SUBSET S |-> IF s = {} THEN base ELSE turn(Pick(s), run[s \ {Pick(s)}])]
    BY <1>11, <1>12
<1>14. iter = [s \in SUBSET S |-> IF s = {} THEN base ELSE turn(Pick(s), iter[s \ {Pick(s)}])]
    BY <1>13
<1> HIDE DEF iter
<1>15. /\ iter[{}] = base
        /\ \A s \in SUBSET S : s # {} => iter[s] = turn(Pick(s), iter[s \ {Pick(s)}])
    BY <1>14
<1>16. \A s \in SUBSET S : iter[s] \in G[s]
    <2> DEFINE R == {s \in SUBSET S : iter[s] \in G[s]}
    <2>1. {} \in R
        BY <1>2, <1>15
    <2>2. \A s \in SUBSET S : s # {} => \E x \in s : s \ {x} \in R => s \in R
        <3> SUFFICES ASSUME NEW s \in SUBSET S, s # {}, iter[s \ {Pick(s)}] \in G[s \ {Pick(s)}]
                     PROVE  iter[s] \in G[s]
            BY <1>5
        <3>1. Pick(s) \in s /\ iter[s] = turn(Pick(s), iter[s \ {Pick(s)}])
            BY <1>5, <1>15
        <3>2. QED
            BY <1>3, <3>1
    <2> HIDE DEF R
    <2>3. \A s \in SUBSET S : s \in R
        BY <1>1, <2>1, <2>2, SubsetsByOne
    <2>4. QED
        BY <2>3 DEF R
<1>17. TouchedAll(scene, people) \in {sc \in Scenes : TouchStep(scene, sc)}
    BY <1>4, <1>16 DEF G
<1>18. QED
    BY <1>17

\* There is room for the tracks that a frame begins: it is only taken when there is.
LEMMA RoomForNew ==
    ASSUME NEW T \in [Ids -> Slots], NEW D, IsFiniteSet(D), NEW M \in SUBSET (Active(T) \X D),
           \A p, q \in M : Clash(p, q) => p = q,
           Cardinality(D) - Cardinality(M) <= Cardinality(Ids \ Alive(T)),
           NEW U \in [Ids -> Slots], Alive(U) \subseteq Alive(T)
    PROVE  /\ IsFiniteSet(M)
           /\ Cardinality(Alive(U)) + Cardinality(D \ {p[2] : p \in M}) <= Cardinality(Ids)
<1> DEFINE taken == {p[2] : p \in M}
           f     == [p \in M |-> p[2]]
<1>1. /\ IsFiniteSet(Ids) /\ Alive(T) \in SUBSET Ids /\ Active(T) \in SUBSET Ids
    BY VehicleAssumption DEF Alive, Active
<1>2. IsFiniteSet(M)
    <2>1. IsFiniteSet(Active(T))
        BY <1>1, FS_Subset
    <2>2. IsFiniteSet(Active(T) \X D)
        BY <2>1, FS_Product
    <2>3. QED
        BY <2>2, FS_Subset
<1>3. Cardinality(taken) = Cardinality(M)
    <2>1. f \in Injection(M, taken)
        BY DEF Clash, Injection, IsInjective
    <2>2. f \in Surjection(M, taken)
        BY DEF Surjection
    <2>3. QED
        BY <1>2, <2>1, <2>2, FS_Surjection
<1>4. taken \in SUBSET D
    OBVIOUS
<1> HIDE DEF taken, f
<1>5. Cardinality(D \ taken) = Cardinality(D) - Cardinality(M)
    <2>1. D \intersect taken = taken
        BY <1>4
    <2>2. QED
        <3>1. Cardinality(D \ taken) = Cardinality(D) - Cardinality(D \intersect taken)
            BY FS_Difference
        <3>2. QED
            BY <1>3, <2>1, <3>1
<1>6. /\ Cardinality(Alive(U)) <= Cardinality(Alive(T))
      /\ Cardinality(Ids \ Alive(T)) = Cardinality(Ids) - Cardinality(Alive(T))
      /\ IsFiniteSet(Alive(T)) /\ IsFiniteSet(Alive(U))
    <2>1. Ids \intersect Alive(T) = Alive(T)
        BY <1>1
    <2>2. IsFiniteSet(Alive(T))
        BY <1>1, FS_Subset
    <2>3. Cardinality(Alive(U)) <= Cardinality(Alive(T)) /\ IsFiniteSet(Alive(U))
        BY <2>2, FS_Subset
    <2>4. QED
        BY <1>1, <2>1, <2>2, <2>3, FS_Difference
<1>7. /\ Cardinality(Ids) \in Nat /\ Cardinality(D) \in Nat /\ Cardinality(M) \in Nat
      /\ Cardinality(Alive(T)) \in Nat /\ Cardinality(Alive(U)) \in Nat
    BY <1>1, <1>2, <1>6, FS_CardinalityType
<1>8. QED
    BY <1>2, <1>5, <1>6, <1>7 DEF taken

\* What a frame makes of the tracks T. Each announcement is of a track that was just seen;
\* what departs was away for long enough; a track that was reported where a car stands is not
\* news, and stays there or is reported gone; and one that nothing else comes to, seen or not
\* away for so long, stays alone.
Outcome(T, M, B, observed, r) ==
    /\ r.tracks \in [Ids -> Slots] /\ r.out \in SUBSET Events
    /\ \A e \in r.out : Announces(e) =>
          /\ e.track \in Active(r.tracks) /\ r.tracks[e.track].reported
          /\ r.tracks[e.track].unseen = 0 /\ r.tracks[e.track].spot = e.spot
    /\ \A e, f \in r.out : Announces(e) /\ Announces(f) /\ e.track = f.track => e = f
    /\ \A e \in r.out : e.what = "departed" =>
          \E j \in Active(T) : /\ e.spot = T[j].spot
                               /\ AwayFor(T[j], observed) >= Absence /\ ~\E p \in M : p[1] = j
    /\ \A c \in Cars, k \in Ids : Stands(T, c, k) =>
          NotNews(r.out, k) /\ (Stands(r.tracks, c, k) \/ Leaves(r.out, pos[c]))
    /\ \A c \in Cars, k \in Ids :
          /\ Kept(T, M, B, c, k)
          /\ (\E p \in M : p[1] = k) \/ ~(AwayFor(T[k], observed) >= Absence)
          => /\ Holds(r.tracks, c, k)
             /\ r.tracks[k].unseen = 0 \/ (r.tracks[k].unseen = T[k].unseen /\ ~\E p \in M : p[1] = k)

\* And how the tracks go on: each was seen, or missed for not so long; each matched one is
\* seen; and each whole box has a track where it is, or one was missed there.
Progress(T, M, B, observed, U) ==
    /\ \A j \in Active(U) :
          \/ Advanced(T, M, B, j, U[j])
          \/ j \in Active(T) /\ (~\E p \in M : p[1] = j) /\ Waits(T[j], U[j], observed)
    /\ \A p \in M : p[1] \in Active(U)
    /\ \A d \in B : \/ d.part
                    \/ \E k \in Active(U) : U[k].spot = d.spot /\ Advanced(T, M, B, k, U[k])
                    \/ \E k \in Active(T) : T[k].spot = d.spot /\ ~\E p \in M : p[1] = k

LEMMA StepOutcome ==
    ASSUME NEW T \in [Ids -> Slots], NEW D \in SUBSET Boxes, IsFiniteSet(D), NEW M, NEW alike,
           NEW people, NEW observed, SoundMatch(T, M), M \subseteq Active(T) \X D,
           Cardinality(D) - Cardinality(M) <= Cardinality(Ids \ Alive(T))
    PROVE  LET r == Step(T, D, M, alike, people, observed)
               B == D \ {p[2] : p \in M} IN
           Outcome(T, M, B, observed, r) /\ Progress(T, M, B, observed, r.tracks)
<1> DEFINE begun   == ContinuedAll(T, M, alike)
           B       == D \ {p[2] : p \in M}
           watched == observed >= Absence
           new     == CreatedAll(begun, B, watched, alike)
           left    == MissedAll(new, Active(T) \ new.met, observed)
           touched == TouchedAll(left, people)
           r       == [touched EXCEPT !.tracks = [i \in Ids |-> Expired(@[i])]]
<1>1. Step(T, D, M, alike, people, observed) = r
    BY DEF Step
<1>2. begun \in Scenes /\ MidStep(T, M, B, begun, begun.met) /\ begun.met = {p[1] : p \in M}
    <2>1. MidStep(T, M, B, begun, {p[1] : p \in M}) /\ begun.met = {p[1] : p \in M}
        BY ContinuedAllKeeps
    <2> HIDE DEF begun
    <2>2. MidStep(T, M, B, begun, begun.met)
        BY <2>1
    <2>3. QED
        BY <2>1, <2>2 DEF MidStep
<1> HIDE DEF begun
<1>3. /\ new \in Scenes /\ MidStep(T, M, B, new, new.met) /\ begun.met \subseteq new.met
      /\ Covered(new.tracks, B)
    <2>1. begun.tracks \in [Ids -> Slots] /\ Alive(begun.tracks) \subseteq Alive(T)
        <3>1. \A j \in Alive(begun.tracks) : j \in Active(begun.tracks) \/ j \in Departed(begun.tracks)
            BY DEF Active, Departed
        <3>2. begun.met \subseteq Active(T)
            BY <1>2 DEF SoundMatch
        <3>3. QED
            BY <1>2, <3>1, <3>2 DEF MidStep, Scenes, Active, Departed
    <2>2. \A p, q \in M : Clash(p, q) => p = q
        BY DEF SoundMatch
    <2>3. Cardinality(Alive(begun.tracks)) + Cardinality(B) <= Cardinality(Ids)
        BY <2>1, <2>2, RoomForNew
    <2>4. B \in SUBSET Boxes /\ IsFiniteSet(B) /\ watched \in BOOLEAN
        BY FS_Subset
    <2> HIDE DEF watched
    <2>5. QED
        BY <1>2, <2>3, <2>4, CreatedAllKeeps
<1> HIDE DEF new
<1>4. left \in Scenes /\ LeftStep(T, new, left, Active(T) \ new.met, observed)
    BY <1>3, MissedAllKeeps DEF MidStep
<1> HIDE DEF left
<1>5. touched \in Scenes /\ TouchStep(left, touched)
    BY <1>4, TouchedAllKeeps
<1> HIDE DEF touched
<1>6. /\ new.tracks \in [Ids -> Slots] /\ left.tracks \in [Ids -> Slots]
      /\ touched.tracks \in [Ids -> Slots] /\ touched.out \in SUBSET Events
      /\ new.met \in SUBSET Ids
    BY <1>3, <1>4, <1>5 DEF Scenes
<1>7. /\ r.out = touched.out /\ r.tracks = [i \in Ids |-> Expired(touched.tracks[i])]
    BY <1>5 DEF Scenes
<1> HIDE DEF r
<1>8. /\ r.tracks \in [Ids -> Slots]
      /\ \A j \in Ids : /\ j \in Active(r.tracks) <=> j \in Active(touched.tracks)
                        /\ j \in Active(r.tracks) => r.tracks[j] = touched.tracks[j]
    <2>1. \A j \in Ids : \/ r.tracks[j] = touched.tracks[j]
                         \/ r.tracks[j] = NoneId /\ j \notin Active(touched.tracks)
        BY <1>6, <1>7 DEF Expired, Active
    <2>2. r.tracks \in [Ids -> Slots]
        BY <1>6, <1>7, NoTrack DEF Expired
    <2>3. QED
        BY <1>6, <2>1, <2>2, ActiveStates
\* What is active in the end was so when everything new was begun, and is the same.
<1>9. ASSUME NEW j \in Active(r.tracks)
      PROVE  j \in Active(new.tracks) /\ Same(new.tracks[j], r.tracks[j])
    <2>1. j \in Ids
        BY DEF Active, Alive
    <2>2. j \in Active(left.tracks) /\ Same(left.tracks[j], r.tracks[j])
        BY <1>5, <1>8, <1>9, <2>1 DEF TouchStep, Alike
    <2>3. CASE j \in Active(T) \ new.met
        <3>1. new.tracks[j] = T[j] /\ Same(T[j], left.tracks[j])
            BY <1>3, <1>4, <2>2, <2>3 DEF MidStep, LeftStep, Waits
        <3>2. j \in Active(new.tracks)
            BY <1>6, <2>1, <2>3, <3>1, ActiveStates
        <3>3. QED
            BY <2>2, <3>1, <3>2 DEF Same
    <2>4. CASE j \notin Active(T) \ new.met
        <3>1. left.tracks[j] = new.tracks[j]
            BY <1>4, <2>1, <2>4 DEF LeftStep
        <3>2. j \in Active(new.tracks)
            BY <1>6, <2>1, <2>2, <3>1, ActiveStates
        <3>3. QED
            BY <2>2, <3>1, <3>2
    <2>5. QED
        BY <2>3, <2>4
<1>10. ASSUME NEW j \in Ids,
              \/ j \in new.met
              \/ j \in Active(T) \ new.met /\ ~(AwayFor(T[j], observed) >= Absence)
       PROVE  j \in Active(r.tracks)
    <2>1. CASE j \in new.met
        <3>1. left.tracks[j] = new.tracks[j] /\ j \in Active(new.tracks)
            BY <1>3, <1>4, <2>1 DEF MidStep, LeftStep
        <3>2. j \in Active(left.tracks)
            BY <1>6, <3>1, ActiveStates
        <3>3. QED
            BY <1>5, <1>8, <3>2 DEF TouchStep
    <2>2. CASE j \in Active(T) \ new.met /\ ~(AwayFor(T[j], observed) >= Absence)
        BY <1>4, <1>5, <1>8, <2>2 DEF LeftStep, TouchStep
    <2>3. QED
        BY <1>10, <2>1, <2>2
<1>11. ASSUME NEW e \in r.out
       PROVE  \/ e \in new.out
              \/ e.what = "interaction"
              \/ /\ e.what = "departed"
                 /\ \E j \in Active(T) : /\ e.spot = T[j].spot /\ AwayFor(T[j], observed) >= Absence
                                         /\ ~\E p \in M : p[1] = j
    <2>1. e \in new.out \/ e \in News(new, left) \/ e \in News(left, touched)
        BY <1>7 DEF News
    <2>2. QED
        BY <1>2, <1>3, <1>4, <1>5, <2>1 DEF LeftStep, TouchStep
<1>12. \A e \in r.out : Announces(e) => e \in new.out
    BY <1>11 DEF Announces
<1>13. \A j \in new.met : /\ j \in Active(r.tracks) /\ Same(new.tracks[j], r.tracks[j])
                          /\ new.tracks[j].unseen = 0 /\ r.tracks[j].unseen = 0
    BY <1>3, <1>6, <1>9, <1>10 DEF MidStep, Same
<1>14. ASSUME NEW e \in r.out, Announces(e)
       PROVE  /\ e.track \in Active(r.tracks) /\ r.tracks[e.track].reported
              /\ r.tracks[e.track].unseen = 0 /\ r.tracks[e.track].spot = e.spot
    <2>1. e.track \in new.met /\ new.tracks[e.track].reported /\ new.tracks[e.track].spot = e.spot
        BY <1>3, <1>12, <1>14 DEF MidStep, Backed
    <2>2. QED
        BY <1>13, <2>1 DEF Same
<1>15. \A e, f \in r.out : Announces(e) /\ Announces(f) /\ e.track = f.track => e = f
    BY <1>3, <1>12 DEF MidStep, Backed
<1>16. ASSUME NEW e \in r.out, e.what = "departed"
       PROVE  \E j \in Active(T) : /\ e.spot = T[j].spot
                                   /\ AwayFor(T[j], observed) >= Absence /\ ~\E p \in M : p[1] = j
    BY <1>3, <1>11, <1>16 DEF MidStep
<1>17. ASSUME NEW c \in Cars, NEW k \in Ids, Stands(T, c, k)
       PROVE  /\ NotNews(r.out, k) /\ Stands(new.tracks, c, k)
              /\ Stands(r.tracks, c, k) \/ Leaves(r.out, pos[c])
    <2>1. Stands(new.tracks, c, k) /\ NotNews(new.out, k)
        BY <1>3, <1>17 DEF MidStep
    <2>2. NotNews(r.out, k)
        BY <1>12, <2>1 DEF NotNews
    <2>3. CASE k \in Active(r.tracks)
        <3>1. Same(new.tracks[k], r.tracks[k])
            BY <1>9, <2>3
        <3>2. QED
            BY <2>1, <2>2, <2>3, <3>1 DEF Stands, Same
    <2>4. CASE k \notin Active(r.tracks)
        <3>1. k \in Active(T) /\ T[k].reported /\ T[k].spot = pos[c]
            BY <1>17 DEF Stands
        <3>2. k \notin new.met
            BY <1>13, <2>4
        <3>3. k \notin Active(left.tracks)
            BY <1>5, <1>8, <2>4 DEF TouchStep
        <3>4. Leaves(left.out, pos[c])
            BY <1>4, <3>1, <3>2, <3>3 DEF LeftStep
        <3>5. left.out \subseteq r.out
            BY <1>5, <1>7 DEF TouchStep
        <3>6. QED
            BY <2>1, <2>2, <3>4, <3>5 DEF Leaves
    <2>5. QED
        BY <2>3, <2>4
<1>18. ASSUME NEW c \in Cars, NEW k \in Ids, Kept(T, M, B, c, k),
              (\E p \in M : p[1] = k) \/ ~(AwayFor(T[k], observed) >= Absence)
       PROVE  /\ Holds(r.tracks, c, k)
              /\ \/ r.tracks[k].unseen = 0
                 \/ (r.tracks[k].unseen = T[k].unseen /\ ~\E p \in M : p[1] = k)
    <2>1. Holds(new.tracks, c, k)
        BY <1>3, <1>18 DEF MidStep
    <2>2. k \in Active(T)
        BY <1>18 DEF Kept, Holds, Stands
    <2>3. (\E p \in M : p[1] = k) => k \in new.met
        BY <1>2, <1>3
    <2>4. k \in Active(r.tracks)
        BY <1>10, <1>18, <2>2, <2>3
    <2>5. Same(new.tracks[k], r.tracks[k])
        BY <1>9, <2>4
    <2>6. Holds(r.tracks, c, k)
        BY <1>9, <2>1, <2>4, <2>5 DEF Holds, Stands, Same
    <2>7. \/ r.tracks[k].unseen = 0
          \/ (r.tracks[k].unseen = T[k].unseen /\ ~\E p \in M : p[1] = k)
        <3>1. CASE k \in new.met
            BY <1>13, <3>1
        <3>2. CASE k \notin new.met
            <4>1. new.tracks[k] = T[k]
                BY <1>3, <2>2, <3>2 DEF MidStep
            <4>2. QED
                BY <2>3, <2>5, <3>2, <4>1 DEF Same
        <3>3. QED
            BY <3>1, <3>2
    <2>8. QED
        BY <2>6, <2>7
<1>19. r.out \in SUBSET Events
    BY <1>6, <1>7
<1>20. Outcome(T, M, B, observed, r)
    BY <1>8, <1>14, <1>15, <1>16, <1>17, <1>19, <1>18 DEF Outcome
\* How the tracks go on.
<1>21. ASSUME NEW j \in new.met
       PROVE  j \in Active(r.tracks) /\ Advanced(T, M, B, j, r.tracks[j])
    <2>1. j \in Ids /\ j \in Active(r.tracks)
        BY <1>6, <1>13
    <2>2. left.tracks[j] = new.tracks[j]
        BY <1>4, <2>1 DEF LeftStep
    <2>3. Alike(new.tracks[j], r.tracks[j])
        BY <1>5, <1>8, <2>1, <2>2 DEF TouchStep
    <2>4. Advanced(T, M, B, j, new.tracks[j])
        BY <1>3 DEF MidStep
    <2>5. QED
        BY <2>1, <2>3, <2>4, AlikeAdvances
<1>22. \A p \in M : p[1] \in new.met
    BY <1>2, <1>3
<1>23. ASSUME NEW j \in Active(r.tracks), j \notin new.met
       PROVE  j \in Active(T) /\ (~\E p \in M : p[1] = j) /\ Waits(T[j], r.tracks[j], observed)
    <2>1. j \in Ids /\ j \in Active(T) \ new.met
        BY <1>3, <1>9, <1>23 DEF MidStep, Active, Alive
    <2>2. j \in Active(left.tracks) /\ Alike(left.tracks[j], r.tracks[j])
        BY <1>5, <1>8, <2>1 DEF TouchStep
    <2>3. Waits(T[j], left.tracks[j], observed)
        BY <1>4, <2>1, <2>2 DEF LeftStep
    <2>4. Waits(T[j], r.tracks[j], observed)
        BY <2>2, <2>3 DEF Waits, Alike, Same, Absent, AwayFor
    <2>5. QED
        BY <1>22, <1>23, <2>1, <2>4
<1>24. ASSUME NEW d \in B, ~d.part
       PROVE  \/ \E k \in Active(r.tracks) : r.tracks[k].spot = d.spot /\ Advanced(T, M, B, k, r.tracks[k])
              \/ \E k \in Active(T) : T[k].spot = d.spot /\ ~\E p \in M : p[1] = k
    <2>1. PICK k \in Active(new.tracks) : new.tracks[k].spot = d.spot
        BY <1>3, <1>24 DEF Covered
    <2>2. CASE k \in new.met
        BY <1>13, <1>21, <2>1, <2>2 DEF Same
    <2>3. CASE k \notin new.met
        BY <1>3, <1>22, <2>1, <2>3 DEF MidStep
    <2>4. QED
        BY <2>2, <2>3
<1> DEFINE U == r.tracks
<1>25. \A j \in Active(U) :
          \/ Advanced(T, M, B, j, U[j])
          \/ j \in Active(T) /\ (~\E p \in M : p[1] = j) /\ Waits(T[j], U[j], observed)
    BY <1>21, <1>23
<1>26. \A p \in M : p[1] \in Active(U)
    BY <1>21, <1>22
<1>27. Progress(T, M, B, observed, U)
    <2> HIDE DEF U, B
    <2>1. \A d \in B : \/ d.part
                       \/ \E k \in Active(U) : U[k].spot = d.spot /\ Advanced(T, M, B, k, U[k])
                       \/ \E k \in Active(T) : T[k].spot = d.spot /\ ~\E p \in M : p[1] = k
        BY <1>24 DEF U
    <2>2. QED
        BY <1>25, <1>26, <2>1 DEF Progress
<1>28. QED
    BY <1>1, <1>20, <1>27

-----------------------------------------------------------------------------
VehicleTyped ==
    /\ verifier \in BOOLEAN /\ pos \in [Cars -> Spots \union {Away}]
    /\ unseenRun \in [Cars -> 0..(Absence - 1)] /\ tracks \in [Ids -> Slots]
    /\ watch \in 0..UnseenCap /\ fresh \in BOOLEAN /\ out \in SUBSET Events
    /\ vehicleTold \in [Cars -> 0..2] /\ unlike \in SUBSET Cars /\ calm \in 0..CaughtUp /\ mishaps \in 0..MaxMishaps

\* Cars that stand, stand apart.
CarsApart == \A c, d \in Cars :
                c # d /\ pos[c] # Away => pos[c] # pos[d] /\ <<pos[c], pos[d]>> \notin Near
\* A car that was announced has a track that was reported where it stands, and is not about
\* to be announced again; and one never taken for another has that track for itself, away
\* for no longer than the detector missed the car.
OwnTrack(c, i) == /\ Stands(tracks, c, i) /\ NotNews(out, i)
                  /\ c \notin unlike =>
                        /\ Holds(tracks, c, i)
                        /\ tracks[i].unseen <= unseenRun[c] \/ watch <= unseenRun[c]
HasOwnTrack(c) == vehicleTold[c] = 1 /\ \E i \in Ids : OwnTrack(c, i)
OwnTracks == \A c \in Cars : vehicleTold[c] > 0 => HasOwnTrack(c)
\* What is about to be announced was just seen, once.
NewsBacked ==
    /\ \A e \in out : Announces(e) =>
          /\ e.track \in Active(tracks) /\ tracks[e.track].reported
          /\ tracks[e.track].unseen = 0 /\ tracks[e.track].spot = e.spot
    /\ \A e, f \in out : Announces(e) /\ Announces(f) /\ e.track = f.track => e = f

VehicleInv == VehicleTyped /\ CarsApart /\ OwnTracks /\ NewsBacked

\* The tracks that a frame finds: the same, only older.
LEMMA AgedTracks ==
    ASSUME tracks \in [Ids -> Slots], NEW dt \in Nat \ {0}, NEW outage \in BOOLEAN
    PROVE  LET T == [i \in Ids |-> Aged(tracks[i], dt, outage)] IN
           /\ T \in [Ids -> Slots] /\ Active(T) = Active(tracks)
           /\ \A i \in Active(tracks) : /\ T[i].spot = tracks[i].spot
                                        /\ T[i].reported = tracks[i].reported
                                        /\ T[i].unseen = Older(tracks[i].unseen, dt, UnseenCap)
                                        /\ T[i].missed = tracks[i].missed
                                        /\ T[i].count = tracks[i].count
                                        /\ T[i].ident = tracks[i].ident
           /\ \A c \in Cars, k \in Ids : Stands(tracks, c, k) => Stands(T, c, k)
           /\ \A c \in Cars, k \in Ids : Holds(tracks, c, k) => Holds(T, c, k)
<1> DEFINE T == [i \in Ids |-> Aged(tracks[i], dt, outage)]
<1>1. ASSUME NEW i \in Ids
      PROVE  /\ T[i] \in Slots /\ T[i].state = tracks[i].state
             /\ i \in Active(tracks) => /\ T[i].spot = tracks[i].spot
                                        /\ T[i].reported = tracks[i].reported
                                        /\ T[i].unseen = Older(tracks[i].unseen, dt, UnseenCap)
                                        /\ T[i].missed = tracks[i].missed
                                        /\ T[i].count = tracks[i].count
                                        /\ T[i].ident = tracks[i].ident
    <2>1. CASE tracks[i] = NoneId
        <3>1. T[i] = NoneId
            BY <2>1 DEF Aged, NoneId
        <3>2. QED
            BY <2>1, <3>1, NoTrack DEF Active, Alive
    <2>2. CASE tracks[i] \in Tracked
        <3>1. T[i] = Aged(tracks[i], dt, outage)
            OBVIOUS
        <3>2. QED
            BY <2>2, <3>1, AgedTrack DEF Slots
    <2>3. QED
        BY <2>1, <2>2 DEF Slots
<1>2. T \in [Ids -> Slots]
    <2>1. T = [i \in Ids |-> T[i]]
        OBVIOUS
    <2> HIDE DEF T
    <2>2. QED
        BY <1>1, <2>1
<1> HIDE DEF T
<1>3. Active(T) = Active(tracks)
    BY <1>1 DEF Active, Alive
<1>4. Active(tracks) \subseteq Ids
    BY DEF Active, Alive
<1>5. \A c \in Cars, k \in Ids : Stands(tracks, c, k) => Stands(T, c, k)
    BY <1>1, <1>3, <1>4 DEF Stands
<1>6. \A c \in Cars, k \in Ids : Holds(tracks, c, k) => Holds(T, c, k)
    BY <1>1, <1>3, <1>4, <1>5 DEF Holds
<1>7. QED
    BY <1>1, <1>2, <1>3, <1>4, <1>5, <1>6 DEF T

LEMMA BoxesMade ==
    ASSUME VehicleTyped, NEW view \in [Cars -> Views], NEW dt, Possible(view, dt)
    PROVE  /\ BoxesOf(view) \in SUBSET Boxes /\ IsFiniteSet(BoxesOf(view))
           /\ \A d \in BoxesOf(view) : /\ view[d.car] # "missed" /\ d.spot = pos[d.car]
                                       /\ d.part <=> view[d.car] = "part"
           /\ \A c \in Cars : view[c] # "missed" =>
                 [car |-> c, spot |-> pos[c], part |-> view[c] = "part"] \in BoxesOf(view)
<1> DEFINE D    == BoxesOf(view)
           boxAt(c) == [car |-> c, spot |-> pos[c], part |-> view[c] = "part"]
           shown  == {c \in Cars : view[c] # "missed"}
<1>1. D = {boxAt(c) : c \in shown}
    BY DEF BoxesOf
<1>2. \A c \in shown : boxAt(c) \in Boxes
    <2> SUFFICES ASSUME NEW c \in shown PROVE boxAt(c) \in Boxes
        OBVIOUS
    <2>1. pos[c] \in Spots
        BY DEF VehicleTyped, Possible
    <2>2. (view[c] = "part") \in BOOLEAN
        OBVIOUS
    <2>3. QED
        BY <2>1, <2>2 DEF Boxes
<1>3. IsFiniteSet(D)
    <2> DEFINE f == [c \in shown |-> boxAt(c)]
    <2>1. f \in Surjection(shown, D)
        BY <1>1 DEF Surjection
    <2>2. IsFiniteSet(shown)
        BY VehicleAssumption, FS_Subset
    <2>3. QED
        BY <2>1, <2>2, FS_Surjection
<1>4. \A c \in shown : /\ boxAt(c).car = c /\ boxAt(c).spot = pos[c] /\ (boxAt(c).part <=> view[c] = "part")
    OBVIOUS
<1>5. \A c \in Cars : view[c] # "missed" => boxAt(c) \in D
    BY <1>1
<1> HIDE DEF boxAt, D
<1>6. D \in SUBSET Boxes
    BY <1>1, <1>2
<1>7. \A d \in D : view[d.car] # "missed" /\ d.spot = pos[d.car] /\ (d.part <=> view[d.car] = "part")
    BY <1>1, <1>4
<1>8. QED
    BY <1>3, <1>5, <1>6, <1>7 DEF D, boxAt

\* Whatever box a track gets that stands where a car does, it is that car's.
LEMMA MatchedStays ==
    ASSUME VehicleTyped, CarsApart, NEW T \in [Ids -> Slots], NEW view \in [Cars -> Views],
           NEW dt, Possible(view, dt), NEW p \in Overlapping(T, BoxesOf(view)),
           NEW c \in Cars, T[p[1]].spot = pos[c]
    PROVE  p[2].spot = pos[c] /\ p[2].car = c
<1> DEFINE D == BoxesOf(view)
           d == p[2]
<1>1. /\ D \in SUBSET Boxes
      /\ \A e \in D : view[e.car] # "missed" /\ e.spot = pos[e.car] /\ (e.part <=> view[e.car] = "part")
    BY BoxesMade
<1>2. \A e \in D : /\ e.car \in Cars
                   /\ e = [car |-> e.car, spot |-> pos[e.car], part |-> view[e.car] = "part"]
    BY DEF BoxesOf
<1> HIDE DEF D
<1>3. p[1] \in Active(T) /\ d \in D /\ IouRank(T[p[1]], d) > 0
    BY DEF Overlapping, D
<1> HIDE DEF d
<1>4. T[p[1]] \in Tracked
    <2>1. p[1] \in Ids /\ p[1] \in Alive(T)
        BY <1>3 DEF Active, Alive
    <2>2. QED
        BY <2>1, StatesOf
<1>5. pos[c] # Away
    BY <1>4, TrackFields, VehicleAssumption DEF Away
<1>6. pos[c] = d.spot \/ <<pos[c], d.spot>> \in Near
    BY <1>3 DEF IouRank, SamePlace
<1>7. d.car = c
    BY <1>1, <1>2, <1>3, <1>5, <1>6 DEF CarsApart
<1>8. QED
    BY <1>1, <1>2, <1>3, <1>7 DEF d

\* A car that stands at its own track's spot, its box not rejected for that track, has that
\* track matched when it is seen, and nothing else comes there.
LEMMA OwnIsMatched ==
    ASSUME VehicleTyped, CarsApart, NEW T \in [Ids -> Slots], NEW view \in [Cars -> Views],
           NEW dt, Possible(view, dt), NEW rejected, NEW M \in Matchings(T, BoxesOf(view), rejected),
           NEW c \in Cars, NEW k \in Ids, Holds(T, c, k),
           <<k, [car |-> c, spot |-> pos[c], part |-> view[c] = "part"]>> \notin rejected
    PROVE  /\ Kept(T, M, BoxesOf(view) \ {p[2] : p \in M}, c, k)
           /\ (~\E p \in M : p[1] = k) => view[c] = "missed"
<1> DEFINE D   == BoxesOf(view)
           E   == Overlapping(T, D) \ rejected
           own == [car |-> c, spot |-> pos[c], part |-> view[c] = "part"]
<1>1. /\ D \in SUBSET Boxes
      /\ \A d \in D : view[d.car] # "missed" /\ d.spot = pos[d.car] /\ (d.part <=> view[d.car] = "part")
      /\ view[c] # "missed" => own \in D
    BY BoxesMade
<1>2. \A d \in D : /\ d.car \in Cars
                   /\ d = [car |-> d.car, spot |-> pos[d.car], part |-> view[d.car] = "part"]
    BY DEF BoxesOf
<1>3. \A p \in E : p[1] = k => p[2] = own
    <2> SUFFICES ASSUME NEW p \in E, p[1] = k PROVE p[2] = own
        OBVIOUS
    <2>1. p[2] \in D /\ T[p[1]].spot = pos[c]
        BY DEF Overlapping, Holds, Stands
    <2>2. p[2].car = c
        BY <2>1, MatchedStays
    <2>3. QED
        BY <1>2, <2>1, <2>2
<1> HIDE DEF D
<1>4. /\ k \in Active(T) /\ T[k].spot = pos[c]
      /\ \A j \in Active(T) : T[j].spot = pos[c] => j = k
    BY DEF Holds, Stands
<1>5. pos[c] \in Spots /\ pos[c] # Away
    BY <1>4, StatesOf, TrackFields, VehicleAssumption DEF Away
<1>6. \A d \in D : (d.spot = pos[c] \/ <<pos[c], d.spot>> \in Near) => d.car = c /\ d = own
    BY <1>1, <1>2, <1>5 DEF CarsApart
<1>7. /\ M \in SUBSET E
      /\ \A p, q \in M : Clash(p, q) => p = q
      /\ \A p \in E \ M : \E q \in M : Clash(p, q) /\ IouRank(T[q[1]], q[2]) >= IouRank(T[p[1]], p[2])
    BY DEF Matchings, D
<1>8. \A p \in E : /\ p[1] \in Active(T) /\ p[2] \in D /\ IouRank(T[p[1]], p[2]) > 0
                   /\ p = <<p[1], p[2]>>
    BY DEF Overlapping
<1>9. \A t, d : /\ IouRank(t, d) > 0 => t.spot = d.spot \/ <<t.spot, d.spot>> \in Near
                /\ t.spot = d.spot => IouRank(t, d) = IF d.part THEN 1 ELSE 3
                /\ t.spot # d.spot /\ d.part => ~(IouRank(t, d) > 0)
                /\ t.spot # d.spot => ~(IouRank(t, d) >= 3)
    BY DEF IouRank, SamePlace
\* The car is matched to its track.
<1>10. ASSUME view[c] # "missed" PROVE <<k, own>> \in M
    <2> DEFINE pair == <<k, own>>
    <2>1. own \in D /\ own.spot = pos[c] /\ own.car = c /\ pair \notin rejected
        BY <1>1, <1>10
    <2> HIDE DEF own
    <2>2. IouRank(T[k], own) = (IF own.part THEN 1 ELSE 3)
        BY <1>4, <1>9, <2>1
    <2>3. pair \in E
        BY <1>4, <2>1, <2>2 DEF Overlapping
    <2> SUFFICES ASSUME pair \notin M PROVE FALSE
        OBVIOUS
    <2>4. PICK q \in M : Clash(pair, q) /\ IouRank(T[q[1]], q[2]) >= IouRank(T[k], own)
        BY <1>7, <2>3
    <2>5. q \in E /\ q[1] \in Active(T) /\ IouRank(T[q[1]], q[2]) > 0 /\ q = <<q[1], q[2]>>
        BY <1>7, <1>8
    <2>6. CASE q[1] = k
        <3>1. q[2] = own
            BY <1>3, <2>5, <2>6
        <3>2. QED
            BY <2>5, <2>6, <3>1
    <2>7. CASE q[1] # k /\ q[2] = own
        <3>1. T[q[1]].spot # own.spot
            BY <1>4, <2>1, <2>5, <2>7
        <3>2. CASE own.part
            BY <1>9, <2>5, <2>7, <3>1, <3>2
        <3>3. CASE ~own.part
            BY <1>9, <2>2, <2>4, <2>7, <3>1, <3>3
        <3>4. QED
            BY <3>2, <3>3
    <2>8. QED
        BY <2>4, <2>6, <2>7 DEF Clash
<1>11. \A d \in D : d.spot = pos[c] => d = own /\ <<k, own>> \in M
    BY <1>1, <1>6, <1>10
<1> HIDE DEF own, E
<1>12. ASSUME NEW p \in M, p[1] # k PROVE p[2].spot # pos[c]
    <2> SUFFICES ASSUME p[2].spot = pos[c] PROVE FALSE
        OBVIOUS
    <2>1. p[2] = own /\ <<k, own>> \in M
        BY <1>7, <1>8, <1>11
    <2>2. Clash(p, <<k, own>>)
        BY <2>1 DEF Clash
    <2>3. p = <<k, own>>
        BY <1>7, <2>1, <2>2
    <2>4. QED
        BY <1>12, <2>3
<1>13. \A d \in D \ {p[2] : p \in M} : d.spot # pos[c]
    <2> SUFFICES ASSUME NEW d \in D, d.spot = pos[c] PROVE \E p \in M : d = p[2]
        OBVIOUS
    <2>1. d = own /\ <<k, own>> \in M
        BY <1>11
    <2>2. QED
        BY <2>1
<1>14. (~\E p \in M : p[1] = k) => view[c] = "missed"
    BY <1>10
<1>15. QED
    BY <1>12, <1>13, <1>14 DEF D, Kept

\* A car was not away for longer than the detector missed it, whatever time passes.
LEMMA NotAwaySoLong ==
    ASSUME NEW unseen \in 0..UnseenCap, NEW w \in 0..UnseenCap, NEW run \in 0..(Absence - 1),
           unseen <= run \/ w <= run, NEW dt \in Nat \ {0}, NEW outage \in BOOLEAN,
           dt > Outage => outage, run + MissedFor(dt) < Absence,
           NEW t, t.unseen = Older(unseen, dt, UnseenCap)
    PROVE  LET observed == IF outage THEN 0 ELSE Older(w, dt, UnseenCap) IN
           /\ ~(AwayFor(t, observed) >= Absence)
           /\ t.unseen <= run + MissedFor(dt) \/ observed <= run + MissedFor(dt)
BY VehicleNumbers DEF AwayFor, Older, MissedFor

\* A frame makes what StepOutcome says of the tracks that it finds.
FoundTracks(dt) == [i \in Ids |-> Aged(tracks[i], dt, fresh \/ dt > Outage)]
WatchedFor(dt)  == IF fresh \/ dt > Outage THEN 0 ELSE Older(watch, dt, UnseenCap)

LEMMA FrameMade ==
    ASSUME VehicleInv, NEW view \in [Cars -> Views], NEW people, NEW dt \in Gaps,
           Frame(view, people, dt)
    PROVE  \E rejected \in SUBSET Doubtful(FoundTracks(dt), BoxesOf(view)) :
           \E M \in Matchings(FoundTracks(dt), BoxesOf(view), rejected) :
              /\ Outcome(FoundTracks(dt), M, BoxesOf(view) \ {p[2] : p \in M}, WatchedFor(dt),
                         [tracks |-> tracks', out |-> out'])
              /\ Progress(FoundTracks(dt), M, BoxesOf(view) \ {p[2] : p \in M}, WatchedFor(dt), tracks')
              /\ unlike' = unlike \union
                    {p[2].car : p \in {q \in rejected : FoundTracks(dt)[q[1]].spot = q[2].spot}}
<1> DEFINE D        == BoxesOf(view)
           T        == FoundTracks(dt)
           observed == WatchedFor(dt)
<1>1. VehicleTyped /\ CarsApart /\ Possible(view, dt)
    BY DEF VehicleInv, Frame
<1>2. PICK rejected \in SUBSET Doubtful(T, D), alike \in SUBSET Comparable(T) :
      \E M \in Matchings(T, D, rejected) :
         /\ Cardinality(D) - Cardinality(M) <= Cardinality(Ids \ Alive(T))
         /\ tracks' = Step(T, D, M, alike, people, observed).tracks
         /\ out' = Step(T, D, M, alike, people, observed).out
         /\ unlike' = unlike \union {p[2].car : p \in {q \in rejected : T[q[1]].spot = q[2].spot}}
    BY DEF Frame, FoundTracks, WatchedFor
<1>3. PICK M \in Matchings(T, D, rejected) :
         /\ Cardinality(D) - Cardinality(M) <= Cardinality(Ids \ Alive(T))
         /\ tracks' = Step(T, D, M, alike, people, observed).tracks
         /\ out' = Step(T, D, M, alike, people, observed).out
         /\ unlike' = unlike \union {p[2].car : p \in {q \in rejected : T[q[1]].spot = q[2].spot}}
    BY <1>2
<1>4. T \in [Ids -> Slots]
    <2> DEFINE outage == fresh \/ dt > Outage
    <2>1. outage \in BOOLEAN /\ dt \in Nat \ {0} /\ tracks \in [Ids -> Slots]
        BY <1>1, VehicleAssumption DEF VehicleTyped
    <2>2. T = [i \in Ids |-> Aged(tracks[i], dt, outage)]
        BY DEF FoundTracks
    <2> HIDE DEF outage, T
    <2>3. QED
        BY <2>1, <2>2, AgedTracks
<1>5. D \in SUBSET Boxes /\ IsFiniteSet(D)
    BY <1>1, BoxesMade
<1> HIDE DEF T
<1>6. \A p \in M : p \in Overlapping(T, D)
    BY DEF Matchings
<1>7. M \in SUBSET (Active(T) \X D) /\ \A p \in M : IouRank(T[p[1]], p[2]) > 0
    BY <1>6 DEF Overlapping
<1>8. \A p, q \in M : Clash(p, q) => p = q
    BY DEF Matchings
<1>9. ASSUME NEW c \in Cars, NEW p \in M, Stands(T, c, p[1]) PROVE p[2].spot = pos[c]
    <2>1. p \in Overlapping(T, BoxesOf(view)) /\ T[p[1]].spot = pos[c]
        BY <1>6, <1>9 DEF Stands
    <2> HIDE DEF D
    <2>2. QED
        BY <1>1, <1>4, <2>1, MatchedStays
<1> HIDE DEF D, observed
<1>10. IsFiniteSet(M)
    BY <1>3, <1>4, <1>5, <1>7, <1>8, RoomForNew
<1>11. SoundMatch(T, M)
    BY <1>5, <1>7, <1>8, <1>9, <1>10 DEF SoundMatch
<1> DEFINE r == Step(T, D, M, alike, people, observed)
           B == D \ {p[2] : p \in M}
<1>12. Outcome(T, M, B, observed, r) /\ Progress(T, M, B, observed, r.tracks)
    BY <1>3, <1>4, <1>5, <1>7, <1>11, StepOutcome
<1>13. tracks' = r.tracks /\ out' = r.out
    BY <1>3
<1> HIDE DEF r, B
<1>14. Outcome(T, M, B, observed, [tracks |-> tracks', out |-> out'])
    BY <1>12, <1>13 DEF Outcome
<1>15. QED
    BY <1>3, <1>12, <1>13, <1>14 DEF T, D, B, observed

\* A frame leaves every car that was announced its own track, or reports it gone, and that
\* only when it was taken for another.
LEMMA VehicleFrameKeeps ==
    ASSUME VehicleInv, NEW view \in [Cars -> Views], NEW people, NEW dt \in Gaps,
           Frame(view, people, dt)
    PROVE  /\ VehicleInv'
           /\ \A c \in Cars : vehicleTold[c] > 0 /\ Leaves(out', pos[c]) => c \in unlike'
<1> DEFINE D        == BoxesOf(view)
           outage   == fresh \/ dt > Outage
           observed == IF outage THEN 0 ELSE Older(watch, dt, UnseenCap)
           T        == [i \in Ids |-> Aged(tracks[i], dt, outage)]
<1>1. VehicleTyped /\ CarsApart /\ OwnTracks /\ NewsBacked /\ Possible(view, dt)
    BY DEF VehicleInv, Frame
<1>2. dt \in Nat \ {0} /\ outage \in BOOLEAN
    BY <1>1, VehicleAssumption DEF VehicleTyped
<1>3. observed \in 0..UnseenCap
    BY <1>1, <1>2, VehicleNumbers DEF VehicleTyped, Older
<1>4. PICK rejected \in SUBSET Doubtful(T, D) :
       \E M \in Matchings(T, D, rejected) :
          /\ Outcome(T, M, D \ {p[2] : p \in M}, observed, [tracks |-> tracks', out |-> out'])
          /\ unlike' = unlike \union {p[2].car : p \in {q \in rejected : T[q[1]].spot = q[2].spot}}
    BY FrameMade DEF FoundTracks, WatchedFor
<1>5. PICK M \in Matchings(T, D, rejected) :
         /\ Outcome(T, M, D \ {p[2] : p \in M}, observed, [tracks |-> tracks', out |-> out'])
         /\ unlike' = unlike \union {p[2].car : p \in {q \in rejected : T[q[1]].spot = q[2].spot}}
    BY <1>4
<1> DEFINE B == D \ {p[2] : p \in M}
<1>6. /\ watch' = observed /\ fresh' = FALSE
      /\ unseenRun' = [c \in Cars |-> IF pos[c] = Away \/ view[c] # "missed" THEN 0
                                      ELSE unseenRun[c] + MissedFor(dt)]
      /\ mishaps' = (IF dt > Outage THEN mishaps + 1 ELSE mishaps)
      /\ dt > Outage => mishaps < MaxMishaps
      /\ calm' = (IF calm < CaughtUp THEN calm + 1 ELSE calm) \/ calm' = 0
      /\ vehicleTold' = [c \in Cars |-> IF Leaves(out', pos[c]) THEN 0 ELSE vehicleTold[c]]
      /\ UNCHANGED <<pos, verifier>>
    BY DEF Frame, GoneFrom, Leaves
<1>7. /\ T \in [Ids -> Slots]
      /\ \A i \in Active(tracks) : T[i].unseen = Older(tracks[i].unseen, dt, UnseenCap)
      /\ \A c \in Cars, k \in Ids : Stands(tracks, c, k) => Stands(T, c, k)
      /\ \A c \in Cars, k \in Ids : Holds(tracks, c, k) => Holds(T, c, k)
    <2>1. T = [i \in Ids |-> Aged(tracks[i], dt, outage)] /\ tracks \in [Ids -> Slots]
        BY <1>1 DEF VehicleTyped
    <2> HIDE DEF outage, T
    <2>2. QED
        BY <1>2, <2>1, AgedTracks
<1> HIDE DEF T, D, B
<1>8. ASSUME NEW c \in Cars, NEW k \in Ids, Holds(T, c, k), c \notin unlike'
      PROVE  /\ Kept(T, M, B, c, k)
             /\ (~\E p \in M : p[1] = k) => view[c] = "missed"
    <2> DEFINE own  == [car |-> c, spot |-> pos[c], part |-> view[c] = "part"]
               pair == <<k, own>>
    <2>1. pair \notin rejected
        <3> SUFFICES ASSUME pair \in rejected PROVE FALSE
            OBVIOUS
        <3>1. pair[1] = k /\ pair[2].car = c /\ pair[2].spot = pos[c]
            OBVIOUS
        <3>2. T[k].spot = pos[c]
            BY <1>8 DEF Holds, Stands
        <3> HIDE DEF pair
        <3>3. c \in {p[2].car : p \in {q \in rejected : T[q[1]].spot = q[2].spot}}
            BY <3>1, <3>2
        <3>4. QED
            BY <1>5, <1>8, <3>3
    <2>2. QED
        BY <1>1, <1>5, <1>7, <1>8, <2>1, OwnIsMatched DEF D, B
<1>9. unseenRun' \in [Cars -> 0..(Absence - 1)]
    <2>1. MissedFor(dt) \in Nat
        BY <1>2 DEF MissedFor
    <2>2. \A c \in Cars : view[c] = "missed" /\ pos[c] # Away =>
             unseenRun[c] + MissedFor(dt) \in 0..(Absence - 1)
        BY <1>1, <2>1, VehicleNumbers DEF Possible, VehicleTyped
    <2>3. \A c \in Cars : view[c] \in Views /\ 0 \in 0..(Absence - 1)
        BY VehicleNumbers
    <2>4. QED
        BY <1>6, <2>2, <2>3 DEF Views
<1>10. VehicleTyped'
    <2>1. tracks' \in [Ids -> Slots] /\ out' \in SUBSET Events
        BY <1>5 DEF Outcome
    <2>2. mishaps' \in 0..MaxMishaps /\ calm' \in 0..CaughtUp
        BY <1>1, <1>6, CaughtUpNumber, VehicleAssumption DEF VehicleTyped
    <2>3. vehicleTold' \in [Cars -> 0..2]
        BY <1>1, <1>6 DEF VehicleTyped
    <2>4. unlike' \in SUBSET Cars
        <3>1. \A p \in rejected : p[2] \in Boxes
            <4>1. D \in SUBSET Boxes
                BY <1>1, BoxesMade DEF D
            <4>2. QED
                BY <4>1 DEF Doubtful, Overlapping
        <3>2. \A p \in rejected : p[2].car \in Cars
            BY <3>1 DEF Boxes
        <3>3. QED
            BY <1>1, <1>5, <3>2 DEF VehicleTyped
    <2>5. QED
        BY <1>1, <1>3, <1>6, <1>9, <2>1, <2>2, <2>3, <2>4 DEF VehicleTyped
<1>11. CarsApart'
    BY <1>1, <1>6 DEF CarsApart
<1>12. NewsBacked'
    BY <1>5 DEF Outcome, NewsBacked
\* The own track of a car that was announced and never taken for another, in the frame.
<1>13. ASSUME NEW c \in Cars, c \notin unlike', NEW k \in Ids, OwnTrack(c, k)
       PROVE  /\ Kept(T, M, B, c, k)
              /\ (\E p \in M : p[1] = k) \/ ~(AwayFor(T[k], observed) >= Absence)
              /\ (~\E p \in M : p[1] = k) =>
                    T[k].unseen <= unseenRun'[c] \/ observed <= unseenRun'[c]
    <2>1. /\ Holds(tracks, c, k) /\ Holds(T, c, k)
          /\ tracks[k].unseen <= unseenRun[c] \/ watch <= unseenRun[c]
        BY <1>5, <1>7, <1>13 DEF OwnTrack
    <2>2. Kept(T, M, B, c, k)
        BY <1>8, <1>13, <2>1
    <2>3. CASE \E p \in M : p[1] = k
        BY <2>2, <2>3
    <2>4. CASE ~\E p \in M : p[1] = k
        <3>1. view[c] = "missed"
            BY <1>8, <1>13, <2>1, <2>4
        <3>2. k \in Active(tracks) /\ tracks[k] \in Tracked /\ tracks[k].spot = pos[c]
            BY <1>1, <2>1, StatesOf DEF Holds, Stands, VehicleTyped
        <3>3. pos[c] # Away
            BY <3>2, TrackFields, VehicleAssumption DEF Away
        <3>4. unseenRun'[c] = unseenRun[c] + MissedFor(dt)
            BY <1>6, <3>1, <3>3
        <3>5. T[k].unseen = Older(tracks[k].unseen, dt, UnseenCap)
            BY <1>7, <3>2
        <3>6. tracks[k].unseen \in 0..UnseenCap
            BY <3>2, TrackFields
        <3>7. /\ watch \in 0..UnseenCap /\ unseenRun[c] \in 0..(Absence - 1)
              /\ unseenRun'[c] \in 0..(Absence - 1)
            BY <1>1, <1>9 DEF VehicleTyped
        <3>8. unseenRun[c] + MissedFor(dt) < Absence
            BY <3>4, <3>7, VehicleNumbers
        <3>9. dt > Outage => outage
            OBVIOUS
        <3>10. /\ ~(AwayFor(T[k], observed) >= Absence)
               /\ \/ T[k].unseen <= unseenRun[c] + MissedFor(dt)
                  \/ observed <= unseenRun[c] + MissedFor(dt)
            <4> HIDE DEF outage
            <4>1. QED
                BY <1>2, <2>1, <3>5, <3>6, <3>7, <3>8, <3>9, NotAwaySoLong
        <3>11. QED
            BY <2>2, <3>4, <3>10
    <2>5. QED
        BY <2>3, <2>4
<1> HIDE DEF observed
<1>14. OwnTracks'
    <2> SUFFICES ASSUME NEW c \in Cars, vehicleTold'[c] > 0 PROVE HasOwnTrack(c)'
        BY DEF OwnTracks
    <2>1. ~Leaves(out', pos[c]) /\ vehicleTold'[c] = vehicleTold[c]
        BY <1>6
    <2>2. vehicleTold[c] = 1 /\ \E i \in Ids : OwnTrack(c, i)
        BY <1>1, <2>1 DEF OwnTracks, HasOwnTrack
    <2>3. PICK k \in Ids : OwnTrack(c, k)
        BY <2>2
    <2>4. Stands(T, c, k)
        BY <1>7, <2>3 DEF OwnTrack
    <2>5. Stands(tracks', c, k) /\ NotNews(out', k)
        BY <1>5, <2>1, <2>4 DEF Outcome
    <2>6. ASSUME c \notin unlike'
          PROVE  /\ Holds(tracks', c, k)
                 /\ tracks'[k].unseen <= unseenRun'[c] \/ watch' <= unseenRun'[c]
        <3>1. /\ Kept(T, M, B, c, k)
              /\ (\E p \in M : p[1] = k) \/ ~(AwayFor(T[k], observed) >= Absence)
              /\ (~\E p \in M : p[1] = k) =>
                    T[k].unseen <= unseenRun'[c] \/ observed <= unseenRun'[c]
            BY <1>13, <2>3, <2>6
        <3>2. /\ Holds(tracks', c, k)
              /\ \/ tracks'[k].unseen = 0
                 \/ (tracks'[k].unseen = T[k].unseen /\ ~\E p \in M : p[1] = k)
            BY <1>5, <3>1 DEF Outcome, B
        <3>3. unseenRun'[c] \in Nat
            BY <1>9, VehicleNumbers
        <3>4. QED
            BY <1>6, <3>1, <3>2, <3>3
    <2>7. pos' = pos
        BY <1>6
    <2>8. OwnTrack(c, k)'
        BY <2>5, <2>6, <2>7 DEF OwnTrack, Holds, Stands, NotNews
    <2>9. QED
        BY <2>1, <2>2, <2>8 DEF HasOwnTrack
<1>15. ASSUME NEW c \in Cars, vehicleTold[c] > 0, Leaves(out', pos[c])
       PROVE  c \in unlike'
    <2> SUFFICES ASSUME c \notin unlike' PROVE FALSE
        OBVIOUS
    <2>1. PICK e \in out' : e.what = "departed" /\ e.spot = pos[c]
        BY <1>15 DEF Leaves
    <2>2. PICK j \in Active(T) : /\ e.spot = T[j].spot /\ AwayFor(T[j], observed) >= Absence
                                 /\ ~\E p \in M : p[1] = j
        BY <1>5, <2>1 DEF Outcome
    <2>3. PICK k \in Ids : OwnTrack(c, k)
        BY <1>1, <1>15 DEF OwnTracks, HasOwnTrack
    <2>4. /\ Holds(T, c, k)
          /\ (\E p \in M : p[1] = k) \/ ~(AwayFor(T[k], observed) >= Absence)
        BY <1>13, <2>3 DEF Kept
    <2>5. j = k
        BY <2>1, <2>2, <2>4 DEF Holds
    <2>6. QED
        BY <2>2, <2>4, <2>5
<1>16. QED
    BY <1>10, <1>11, <1>12, <1>14, <1>15 DEF VehicleInv

\* An announcement that is told gives the car a track of its own; one that is lost, nothing.
LEMMA EmitKeeps ==
    ASSUME VehicleInv, NEW e \in out, Emit(e) \/ EmitFails(e)
    PROVE  VehicleInv'
<1> USE DEF VehicleInv, VehicleTyped
<1>1. /\ out' = out \ {e} /\ UNCHANGED <<world, calm, tracks, watch, fresh>>
      /\ mishaps' \in 0..MaxMishaps
    BY VehicleAssumption DEF Emit, EmitFails, Mishap
<1>2. UNCHANGED <<pos, unseenRun, verifier, tracks, watch>>
    BY <1>1 DEF world
<1>3. NewsBacked'
    BY <1>1, <1>2 DEF NewsBacked
<1>4. CarsApart'
    BY <1>2 DEF CarsApart
<1>5. ASSUME NEW c \in Cars, NEW k \in Ids
      PROVE  /\ Stands(tracks, c, k)' <=> Stands(tracks, c, k)
             /\ Holds(tracks, c, k)' <=> Holds(tracks, c, k)
    BY <1>2 DEF Holds, Stands
<1>6. ASSUME NEW c \in Cars, HasOwnTrack(c), vehicleTold'[c] = vehicleTold[c],
             c \in unlike => c \in unlike'
      PROVE  HasOwnTrack(c)'
    <2>1. PICK k \in Ids : OwnTrack(c, k)
        BY <1>6 DEF HasOwnTrack
    <2>2. /\ Stands(tracks, c, k)' <=> Stands(tracks, c, k)
          /\ Holds(tracks, c, k)' <=> Holds(tracks, c, k)
        BY <1>5
    <2>3. NotNews(out, k)'
        BY <1>1, <2>1 DEF OwnTrack, NotNews
    <2>4. tracks'[k].unseen = tracks[k].unseen /\ unseenRun'[c] = unseenRun[c] /\ watch' = watch
        BY <1>2
    <2>5. OwnTrack(c, k)'
        BY <1>6, <2>1, <2>2, <2>3, <2>4 DEF OwnTrack
    <2>6. QED
        BY <1>6, <2>5 DEF HasOwnTrack
<1>7. CASE EmitFails(e)
    <2>1. vehicleTold' = vehicleTold /\ unlike' = unlike
        BY <1>7 DEF EmitFails
    <2>2. OwnTracks'
        BY <1>6, <2>1 DEF OwnTracks
    <2>3. QED
        BY <1>1, <1>2, <1>3, <1>4, <2>1, <2>2
<1>8. CASE Emit(e)
    <2> DEFINE heard == {c \in Cars : ToldOf(e, c)}
    <2>1. /\ vehicleTold' = [c \in Cars |-> IF c \in heard /\ vehicleTold[c] < 2
                                           THEN vehicleTold[c] + 1 ELSE vehicleTold[c]]
          /\ unlike' = unlike \ heard
        BY <1>8 DEF Emit
    <2>2. \A c \in heard : Announces(e) /\ e.spot = pos[c] /\ ~Doubled(e.spot)
        BY DEF ToldOf
    <2> HIDE DEF heard
    <2>3. vehicleTold' \in [Cars -> 0..2]
        BY <2>1
    <2>4. ASSUME NEW c \in Cars, c \in heard PROVE HasOwnTrack(c)'
        <3> DEFINE k == e.track
        <3>1. /\ k \in Active(tracks) /\ tracks[k].reported /\ tracks[k].unseen = 0
              /\ tracks[k].spot = pos[c]
            BY <2>2, <2>4 DEF NewsBacked
        <3>2. k \in Ids /\ \A j \in Active(tracks) : tracks[j].spot = pos[c] => j = k
            BY <2>2, <2>4, <3>1 DEF Doubled, Active, Alive
        <3>3. Holds(tracks, c, k) /\ Stands(tracks, c, k)
            BY <3>1, <3>2 DEF Holds, Stands
        <3>4. vehicleTold[c] = 0
            <4> SUFFICES ASSUME vehicleTold[c] > 0 PROVE FALSE
                OBVIOUS
            <4>1. PICK i \in Ids : Stands(tracks, c, i) /\ NotNews(out, i)
                BY DEF OwnTracks, HasOwnTrack, OwnTrack
            <4>2. i = k
                BY <3>2, <4>1 DEF Stands
            <4>3. QED
                BY <2>2, <2>4, <4>1, <4>2 DEF NotNews
        <3>5. NotNews(out, k)'
            BY <1>1, <2>2, <2>4 DEF NotNews, NewsBacked
        <3>6. unseenRun[c] \in Nat
            BY VehicleNumbers
        <3>7. tracks[k].unseen <= unseenRun[c]
            BY <3>1, <3>6
        <3> HIDE DEF k
        <3>8. vehicleTold'[c] = 1
            BY <2>1, <2>4, <3>4
        <3>9. Stands(tracks, c, k)' /\ Holds(tracks, c, k)'
            BY <1>5, <3>2, <3>3
        <3>10. tracks'[k].unseen <= unseenRun'[c]
            BY <1>2, <3>7
        <3>11. OwnTrack(c, k)'
            BY <3>5, <3>9, <3>10 DEF OwnTrack
        <3>12. QED
            BY <3>2, <3>8, <3>11 DEF HasOwnTrack
    <2>5. OwnTracks'
        <3> SUFFICES ASSUME NEW c \in Cars, vehicleTold'[c] > 0, c \notin heard PROVE HasOwnTrack(c)'
            BY <2>4 DEF OwnTracks
        <3>1. vehicleTold'[c] = vehicleTold[c] /\ (c \in unlike => c \in unlike')
            BY <2>1
        <3>2. QED
            BY <1>6, <3>1 DEF OwnTracks
    <2>6. VehicleTyped'
        BY <1>1, <1>2, <2>1, <2>3
    <2>7. QED
        BY <1>3, <1>4, <2>5, <2>6
<1>9. QED
    BY <1>7, <1>8

\* Steps that change nothing of a track but what is asked about it, and tell nothing.
LEMMA IdentityKeeps ==
    ASSUME VehicleInv, tracks' \in [Ids -> Slots], Active(tracks') = Active(tracks),
           \A k \in Active(tracks) : Alike(tracks[k], tracks'[k]),
           out' = {}, watch' \in {0, watch}, UNCHANGED <<pos, unseenRun, verifier, vehicleTold, unlike>>,
           fresh' \in BOOLEAN, calm' \in 0..CaughtUp, mishaps' \in 0..MaxMishaps
    PROVE  VehicleInv'
<1> USE DEF VehicleInv, VehicleTyped
<1>1. VehicleTyped' /\ CarsApart' /\ NewsBacked'
    BY VehicleNumbers DEF CarsApart, NewsBacked
<1>2. OwnTracks'
    <2> SUFFICES ASSUME NEW c \in Cars, vehicleTold[c] > 0 PROVE HasOwnTrack(c)'
        BY DEF OwnTracks
    <2>1. PICK k \in Ids : OwnTrack(c, k)
        BY DEF OwnTracks, HasOwnTrack
    <2>2. k \in Active(tracks) /\ Stands(tracks, c, k)
        BY <2>1 DEF OwnTrack, Stands
    <2>3. Stands(tracks, c, k)' /\ tracks'[k].unseen = tracks[k].unseen
        BY <2>2 DEF Stands, Alike, Same
    <2>4. Holds(tracks, c, k) => Holds(tracks, c, k)'
        BY <2>3 DEF Holds, Alike, Same
    <2>5. tracks[k].unseen <= unseenRun[c] \/ watch <= unseenRun[c] =>
             tracks'[k].unseen <= unseenRun[c] \/ watch' <= unseenRun[c]
        <3>1. unseenRun[c] \in Nat
            BY VehicleNumbers
        <3>2. QED
            BY <2>3, <3>1
    <2>6. OwnTrack(c, k)'
        BY <2>1, <2>3, <2>4, <2>5 DEF OwnTrack, NotNews
    <2>7. vehicleTold'[c] = 1
        BY DEF OwnTracks, HasOwnTrack
    <2>8. QED
        BY <2>6, <2>7 DEF HasOwnTrack
<1>3. QED
    BY <1>1, <1>2

LEMMA AnswerAlike ==
    ASSUME tracks \in [Ids -> Slots], NEW i \in Ids, Answer(i)
    PROVE  /\ tracks' \in [Ids -> Slots] /\ Active(tracks') = Active(tracks)
           /\ \A k \in Active(tracks) : Alike(tracks[k], tracks'[k])
<1>1. PICK a \in {"known", "none"} : tracks' = [tracks EXCEPT ![i].ident = a]
    BY DEF Answer
<1>2. tracks[i].state # "none"
    BY DEF Answer
<1>3. tracks[i] \in Tracked
    BY <1>2, StatesOf DEF Alive
<1> DEFINE u == [tracks[i] EXCEPT !.ident = a]
<1>4. u \in Tracked /\ Alike(tracks[i], u) /\ u.state = tracks[i].state
    BY <1>3, AskedTrack
<1>5. tracks' = [tracks EXCEPT ![i] = u]
    BY <1>1, <1>2
<1> HIDE DEF u
<1>6. tracks' \in [Ids -> Slots] /\ tracks'[i] = u /\ \A k \in Ids \ {i} : tracks'[k] = tracks[k]
    BY <1>2, <1>4, <1>5 DEF Slots
<1>7. Active(tracks') = Active(tracks)
    BY <1>4, <1>6 DEF Active, Alive
<1>8. \A k \in Active(tracks) : Alike(tracks[k], tracks'[k])
    BY <1>4, <1>6 DEF Active, Alive, Alike, Same
<1>9. QED
    BY <1>6, <1>7, <1>8

LEMMA AnswerKeeps ==
    ASSUME VehicleInv, NEW i \in Ids, Answer(i)
    PROVE  VehicleInv'
<1>1. tracks \in [Ids -> Slots]
    BY DEF VehicleInv, VehicleTyped
<1>2. /\ tracks' \in [Ids -> Slots] /\ Active(tracks') = Active(tracks)
      /\ \A k \in Active(tracks) : Alike(tracks[k], tracks'[k])
    BY <1>1, AnswerAlike
<1>3. /\ out' = {} /\ UNCHANGED <<world, calm, watch, fresh, vehicleTold, unlike, mishaps>>
    BY DEF Answer
<1>4. QED
    BY <1>2, <1>3, IdentityKeeps DEF world, VehicleInv, VehicleTyped

LEMMA RestartKeeps ==
    ASSUME VehicleInv, Restart
    PROVE  VehicleInv'
<1>1. tracks \in [Ids -> Slots]
    BY DEF VehicleInv, VehicleTyped
<1>2. tracks' = [k \in Ids |-> IF tracks[k].state # "none" /\ tracks[k].ident = "asked"
                            THEN [tracks[k] EXCEPT !.ident = "none"] ELSE tracks[k]]
    BY DEF Restart
<1>3. ASSUME NEW k \in Ids
      PROVE  /\ tracks'[k] \in Slots /\ tracks'[k].state = tracks[k].state
             /\ Alike(tracks[k], tracks'[k])
    <2>1. CASE tracks'[k] = tracks[k]
        BY <1>1, <2>1 DEF Same, Alike
    <2>2. CASE tracks[k].state # "none" /\ tracks'[k] = [tracks[k] EXCEPT !.ident = "none"]
        <3>1. tracks[k] \in Tracked
            BY <1>1, <2>2, StatesOf DEF Alive
        <3>2. QED
            BY <2>2, <3>1, AskedTrack DEF Slots
    <2>3. QED
        BY <1>2, <2>1, <2>2
<1>4. tracks' \in [Ids -> Slots]
    <2>1. tracks' = [k \in Ids |-> tracks'[k]]
        BY <1>2
    <2>2. QED
        BY <1>3, <2>1
<1>5. Active(tracks') = Active(tracks) /\ Active(tracks) \subseteq Ids
    BY <1>3 DEF Active, Alive
<1>6. /\ out' = {} /\ watch' = 0 /\ fresh' \in BOOLEAN /\ calm' = 0
      /\ UNCHANGED <<world, vehicleTold, unlike>>
      /\ mishaps' \in 0..MaxMishaps
    BY VehicleAssumption DEF Restart, Mishap, VehicleInv, VehicleTyped
<1>7. calm' \in 0..CaughtUp
    BY <1>6, CaughtUpNumber
<1>8. QED
    BY <1>3, <1>4, <1>5, <1>6, <1>7, IdentityKeeps DEF world

LEMMA ResetKeeps ==
    ASSUME VehicleInv, Reset
    PROVE  VehicleInv'
<1> USE DEF VehicleInv, VehicleTyped
<1>1. /\ tracks' = [i \in Ids |-> NoneId] /\ watch' = 0 /\ fresh' = TRUE /\ out' = {} /\ calm' = 0
      /\ vehicleTold' = [c \in Cars |-> 0] /\ unlike' = {} /\ UNCHANGED <<pos, unseenRun, verifier>>
      /\ mishaps' \in 0..MaxMishaps
    BY VehicleAssumption DEF Reset, Mishap, world
<1>2. VehicleTyped'
    BY <1>1, NoTrack, VehicleNumbers, CaughtUpNumber, VehicleAssumption
<1>3. CarsApart' /\ OwnTracks' /\ NewsBacked'
    BY <1>1 DEF CarsApart, OwnTracks, NewsBacked
<1>4. QED
    BY <1>2, <1>3

\* A car that drives is announced anew; the others stand where they stood.
LEMMA DriveKeeps ==
    ASSUME VehicleInv, NEW c \in Cars, Drive(c)
    PROVE  VehicleInv'
<1> USE DEF VehicleInv, VehicleTyped
<1>1. PICK s \in Spots \union {Away} :
         /\ \A d \in Cars \ {c} : s # Away => pos[d] # s /\ <<pos[d], s>> \notin Near
         /\ pos' = [pos EXCEPT ![c] = s]
    BY DEF Drive
<1>2. /\ unseenRun' = [unseenRun EXCEPT ![c] = IF pos'[c] = Away THEN 0 ELSE Absence - 1]
      /\ vehicleTold' = [vehicleTold EXCEPT ![c] = 0] /\ calm' = 0 /\ unlike' = unlike \ {c}
      /\ UNCHANGED <<verifier, tracks, watch, fresh, out, mishaps>> /\ out = {}
    BY DEF Drive
<1>3. \A d \in Cars \ {c} : /\ pos'[d] = pos[d] /\ unseenRun'[d] = unseenRun[d]
                            /\ vehicleTold'[d] = vehicleTold[d]
    BY <1>1, <1>2
<1>4. pos'[c] = s /\ vehicleTold'[c] = 0
    BY <1>1, <1>2
<1>5. VehicleTyped'
    <2>1. 0 \in 0..(Absence - 1) /\ Absence - 1 \in 0..(Absence - 1) /\ 0 \in 0..CaughtUp /\ 0 \in 0..2
        BY VehicleNumbers, CaughtUpNumber
    <2>2. pos' \in [Cars -> Spots \union {Away}]
        BY <1>1
    <2>3. unseenRun' \in [Cars -> 0..(Absence - 1)]
        BY <1>2, <2>1
    <2>4. QED
        BY <1>2, <2>1, <2>2, <2>3
<1>6. CarsApart'
    <2> SUFFICES ASSUME NEW d \in Cars, NEW f \in Cars, d # f, pos'[d] # Away
                 PROVE  pos'[d] # pos'[f] /\ <<pos'[d], pos'[f]>> \notin Near
        BY DEF CarsApart
    <2>1. CASE d # c /\ f # c
        BY <1>3, <2>1 DEF CarsApart
    <2>2. CASE d = c
        <3>1. pos[f] # s /\ <<pos[f], s>> \notin Near
            BY <1>1, <1>4, <2>2
        <3>2. <<s, pos[f]>> \notin Near
            BY <3>1, VehicleAssumption
        <3>3. QED
            BY <1>3, <1>4, <2>2, <3>1, <3>2
    <2>3. CASE f = c
        <3>1. d # c /\ pos'[d] = pos[d] /\ pos'[f] = s
            BY <1>3, <1>4, <2>3
        <3>2. CASE s = Away
            <4>1. <<pos[d], s>> \notin Near
                BY <3>2, VehicleAssumption DEF Away
            <4>2. QED
                BY <3>1, <3>2, <4>1
        <3>3. CASE s # Away
            BY <1>1, <3>1, <3>3
        <3>4. QED
            BY <3>2, <3>3
    <2>4. QED
        BY <2>1, <2>2, <2>3
<1>7. OwnTracks'
    <2> SUFFICES ASSUME NEW d \in Cars, vehicleTold'[d] > 0 PROVE HasOwnTrack(d)'
        BY DEF OwnTracks
    <2>1. d # c
        BY <1>4
    <2>2. HasOwnTrack(d)
        BY <1>3, <2>1 DEF OwnTracks
    <2>3. /\ pos'[d] = pos[d] /\ unseenRun'[d] = unseenRun[d] /\ vehicleTold'[d] = vehicleTold[d]
          /\ d \in unlike <=> d \in unlike'
        BY <1>2, <1>3, <2>1
    <2>4. PICK k \in Ids : OwnTrack(d, k)
        BY <2>2 DEF HasOwnTrack
    <2>5. OwnTrack(d, k)'
        BY <1>2, <2>3, <2>4 DEF OwnTrack, Holds, Stands, NotNews
    <2>6. QED
        BY <2>2, <2>3, <2>5 DEF HasOwnTrack
<1>8. NewsBacked'
    BY <1>2 DEF NewsBacked
<1>9. QED
    BY <1>5, <1>6, <1>7, <1>8

LEMMA VehicleKeeps == VehicleInv /\ [VehicleNext]_vehicleVars => VehicleInv'
<1> SUFFICES ASSUME VehicleInv, [VehicleNext]_vehicleVars PROVE VehicleInv'
    OBVIOUS
<1>1. CASE UNCHANGED vehicleVars
    BY <1>1 DEF vehicleVars, VehicleInv, VehicleTyped, CarsApart, OwnTracks, HasOwnTrack, OwnTrack,
                Holds, Stands, NotNews, NewsBacked
<1>2. CASE SomeFrame
    BY <1>2, VehicleFrameKeeps DEF SomeFrame
<1>3. CASE Restart \/ Reset
    BY <1>3, RestartKeeps, ResetKeeps
<1>4. CASE \E e \in out : Emit(e) \/ EmitFails(e)
    BY <1>4, EmitKeeps
<1>5. CASE \E i \in Ids : Answer(i)
    BY <1>5, AnswerKeeps
<1>6. CASE \E c \in Cars : Drive(c)
    BY <1>6, DriveKeeps
<1>7. QED
    BY <1>1, <1>2, <1>3, <1>4, <1>5, <1>6 DEF VehicleNext

LEMMA VehicleInitially == VehicleInit => VehicleInv
<1> SUFFICES ASSUME VehicleInit PROVE VehicleInv
    OBVIOUS
<1> USE DEF VehicleInit
<1>1. VehicleTyped
    BY NoTrack, VehicleNumbers, CaughtUpNumber, VehicleAssumption DEF VehicleTyped
<1>2. CarsApart /\ OwnTracks /\ NewsBacked
    BY DEF CarsApart, OwnTracks, NewsBacked
<1>3. QED
    BY <1>1, <1>2 DEF VehicleInv

\* The types of the vehicle tracks, and that a track is reported exactly when it is more than
\* tentative.
THEOREM VehicleTypesHold == VehicleSpec => []VehicleTypeOK
<1>1. VehicleInv => VehicleTypeOK
    <2> SUFFICES ASSUME VehicleInv PROVE VehicleTypeOK
        OBVIOUS
    <2>1. tracks \in [Ids -> Track \union {NoneId}]
        BY DEF VehicleInv, VehicleTyped, Slots, Tracked
    <2>2. \A i \in Alive(tracks) :
             tracks[i].reported <=> tracks[i].state \in {"tracking", "stable", "departed"}
        <3> SUFFICES ASSUME NEW i \in Alive(tracks)
                     PROVE  tracks[i].reported <=> tracks[i].state \in {"tracking", "stable", "departed"}
            OBVIOUS
        <3>1. i \in Ids /\ tracks \in [Ids -> Slots]
            BY DEF VehicleInv, VehicleTyped, Alive
        <3>2. tracks[i] \in Tracked
            BY <3>1, StatesOf
        <3>3. QED
            BY <3>2, TrackFields
    <2>3. QED
        BY <2>1, <2>2 DEF VehicleInv, VehicleTyped, VehicleTypeOK
<1>2. QED
    BY <1>1, VehicleInitially, VehicleKeeps, PTL DEF VehicleSpec

\* StayAnnouncedOnce: a car that stands still is announced at most once unless it is reported
\* gone in between, through missed and partial detections, outages, restarts, lost
\* announcements and whatever comparing the colours says, for any number of cars, spots and
\* frames.
THEOREM StayAnnouncedOnceThroughout == VehicleSpec => []StayAnnouncedOnce
<1>1. VehicleInv => StayAnnouncedOnce
    <2> SUFFICES ASSUME VehicleInv, NEW c \in Cars PROVE vehicleTold[c] <= 1
        BY DEF StayAnnouncedOnce
    <2>1. vehicleTold[c] \in 0..2 /\ (vehicleTold[c] > 0 => vehicleTold[c] = 1)
        BY DEF VehicleInv, VehicleTyped, OwnTracks, HasOwnTrack
    <2>2. QED
        BY <2>1
<1>2. QED
    BY <1>1, VehicleInitially, VehicleKeeps, PTL DEF VehicleSpec

\* NoFalseDeparture: no car that was announced and still stands there is reported departed,
\* however the detector misses it for less than the time of absence, unless its own box was
\* rejected for its track since.
THEOREM NoFalseDepartureThroughout == VehicleSpec => NoFalseDeparture
<1> DEFINE Truly == \A c \in Cars : vehicleTold[c] > 0 /\ GoneFrom(out' \ out, c) => c \in unlike'
<1>1. VehicleInv /\ [VehicleNext]_vehicleVars => Truly
    <2> SUFFICES ASSUME VehicleInv, [VehicleNext]_vehicleVars PROVE Truly
        OBVIOUS
    <2>1. CASE SomeFrame
        <3>1. \A c \in Cars : vehicleTold[c] > 0 /\ Leaves(out', pos[c]) => c \in unlike'
            BY <2>1, VehicleFrameKeeps DEF SomeFrame
        <3>2. QED
            BY <3>1 DEF GoneFrom, Leaves
    <2>2. CASE ~SomeFrame
        <3>1. out' \subseteq out
            BY <2>2 DEF VehicleNext, vehicleVars, Restart, Reset, Emit, EmitFails, Answer, Drive
        <3>2. QED
            BY <3>1 DEF GoneFrom
    <2>3. QED
        BY <2>1, <2>2
<1>2. VehicleInv /\ [VehicleNext]_vehicleVars => [Truly]_vehicleVars
    BY <1>1
<1> HIDE DEF Truly
<1>3. VehicleSpec => [][Truly]_vehicleVars
    BY <1>2, VehicleInitially, VehicleKeeps, PTL DEF VehicleSpec
<1>4. QED
    BY <1>3 DEF NoFalseDeparture, Truly

-----------------------------------------------------------------------------
\* The scene catches up with cars that stand still. A car at whose spot a track was just seen
\* is settled, and stays so. The tracks that nobody sees fade; any other stands where a settled
\* car is. And one that is not reported is matched again in Patience frames, which count for it.
Needed(n)  == Patience * (IF n < Confirm THEN n ELSE Confirm)
Settled(c) == \E i \in Active(tracks) : tracks[i].spot = pos[c] /\ tracks[i].unseen = 0
Faded(t)   == t.unseen >= calm /\ (t.missed = 2 \/ t.missed >= calm) /\ calm <= Absence
Minded(t)  == \E c \in Standing : /\ pos[c] = t.spot /\ Settled(c)
                                  /\ t.missed = 2 \/ t.unseen <= t.missed
InTime(t)  == /\ Faded(t) \/ Minded(t)
              /\ t.unseen < Patience \/ calm <= Absence + 1
              /\ t.reported \/ calm <= Absence + 2 + Needed(t.count) + t.unseen
CatchingUp ==
    /\ calm > 0 => ~fresh /\ (watch >= Absence \/ watch >= calm - 1)
    /\ \A c \in Standing : Settled(c) \/ calm <= Absence + 1
    /\ \A i \in Active(tracks) : InTime(tracks[i])

LEMMA NeededNumbers ==
    /\ Patience \in Nat /\ Patience >= 2 /\ Patience >= Absence
    /\ \A n \in Nat : /\ Needed(n) \in Nat /\ Needed(n) <= Patience * Confirm
                      /\ n + 1 < Confirm => Needed(n + 1) = Needed(n) + Patience
<1>1. Patience \in Nat /\ Patience >= 2 /\ Patience >= Absence
    BY CaughtUpNumber
<1>2. ASSUME NEW n \in Nat PROVE Needed(n) \in Nat /\ Needed(n) <= Patience * Confirm
    <2> DEFINE m == IF n < Confirm THEN n ELSE Confirm
    <2>1. m \in Nat /\ m <= Confirm
        BY VehicleNumbers
    <2>2. Needed(n) = Patience * m
        BY DEF Needed
    <2> HIDE DEF m
    <2>3. PICK r \in Nat : Confirm = m + r
        <3>1. Confirm - m \in Nat /\ Confirm = m + (Confirm - m)
            BY <2>1, VehicleNumbers
        <3>2. QED
            BY <3>1
    <2>4. Patience * (m + r) = Patience * m + Patience * r
        BY <1>1, <2>1
    <2>5. Patience * m \in Nat /\ Patience * r \in Nat
        BY <1>1, <2>1
    <2>6. QED
        BY <2>2, <2>3, <2>4, <2>5
<1>3. ASSUME NEW n \in Nat, n + 1 < Confirm PROVE Needed(n + 1) = Needed(n) + Patience
    <2>1. n < Confirm
        BY <1>3, VehicleNumbers
    <2>2. Needed(n + 1) = Patience * (n + 1) /\ Needed(n) = Patience * n
        BY <1>3, <2>1 DEF Needed
    <2>3. Patience * (n + 1) = Patience * n + Patience
        BY <1>1
    <2>4. QED
        BY <2>2, <2>3
<1>4. QED
    BY <1>1, <1>2, <1>3

\* Frames that are not good start the count again.
LEMMA NotYetCalm ==
    ASSUME VehicleTyped, calm = 0
    PROVE  CatchingUp
<1>1. ASSUME NEW i \in Active(tracks) PROVE InTime(tracks[i])
    <2>1. tracks[i] \in Tracked
        BY StatesOf DEF VehicleTyped, Active, Alive
    <2>2. /\ tracks[i].unseen \in Nat /\ tracks[i].missed \in Nat /\ tracks[i].count \in Nat
          /\ Absence \in Nat
        BY <2>1, TrackFields, VehicleNumbers
    <2>3. Needed(tracks[i].count) \in Nat
        BY <2>2, NeededNumbers
    <2>4. Faded(tracks[i])
        BY <2>2 DEF Faded
    <2>5. QED
        BY <2>2, <2>3, <2>4 DEF InTime
<1>2. 0 <= Absence + 1
    BY VehicleNumbers
<1>3. QED
    BY <1>1, <1>2 DEF CatchingUp

\* Steps that leave the tracks alike, while no frame comes, change nothing of it.
LEMMA AlikeCatchesUp ==
    ASSUME CatchingUp, Active(tracks') = Active(tracks),
           \A k \in Active(tracks) : Alike(tracks[k], tracks'[k]),
           UNCHANGED <<pos, calm, watch, fresh>>
    PROVE  CatchingUp'
<1>1. Standing' = Standing
    BY DEF Standing
<1>2. \A c : Settled(c) => Settled(c)'
    BY DEF Settled, Alike, Same
<1>3. ASSUME NEW i \in Active(tracks) PROVE InTime(tracks[i])'
    <2>1. InTime(tracks[i]) /\ Alike(tracks[i], tracks'[i])
        BY DEF CatchingUp
    <2>2. Faded(tracks[i]) => Faded(tracks[i])'
        BY <2>1 DEF Faded, Alike, Same
    <2>3. Minded(tracks[i]) => Minded(tracks[i])'
        BY <1>1, <1>2, <2>1 DEF Minded, Alike, Same
    <2>4. QED
        BY <2>1, <2>2, <2>3 DEF InTime, Alike, Same
<1>4. QED
    BY <1>1, <1>2, <1>3 DEF CatchingUp

\* In a good frame the boxes are the cars that stand there.
OwnBox(c) == [car |-> c, spot |-> pos[c], part |-> FALSE]
LEMMA GoodBoxes ==
    ASSUME VehicleTyped, NEW view \in [Cars -> Views], NEW dt, Possible(view, dt),
           \A c \in Standing : view[c] = "whole"
    PROVE  BoxesOf(view) = {OwnBox(c) : c \in Standing}
<1> DEFINE seen == {c \in Cars : view[c] # "missed"}
<1>1. seen = Standing
    BY DEF Possible, Standing
<1>2. \A c \in Standing : [car |-> c, spot |-> pos[c], part |-> view[c] = "part"] = OwnBox(c)
    BY DEF OwnBox
<1>3. BoxesOf(view) = {[car |-> c, spot |-> pos[c], part |-> view[c] = "part"] : c \in seen}
    BY DEF BoxesOf
<1>4. QED
    BY <1>1, <1>2, <1>3

\* The tracks that a good frame finds are those there were, one frame older.
LEMMA FoundInTime ==
    ASSUME VehicleTyped
    PROVE  LET T == FoundTracks(1) IN
           /\ T \in [Ids -> Slots] /\ Active(T) = Active(tracks)
           /\ \A i \in Active(tracks) :
                 /\ tracks[i] \in Tracked /\ T[i] \in Tracked
                 /\ T[i].spot = tracks[i].spot
                 /\ T[i].reported = tracks[i].reported /\ T[i].missed = tracks[i].missed
                 /\ T[i].count = tracks[i].count /\ T[i].ident = tracks[i].ident
                 /\ T[i].unseen = IF tracks[i].unseen < UnseenCap THEN tracks[i].unseen + 1 ELSE UnseenCap
                 /\ T[i].unseen >= 1
<1> DEFINE outage == fresh \/ 1 > Outage
           T      == FoundTracks(1)
<1>1. outage \in BOOLEAN /\ tracks \in [Ids -> Slots] /\ 1 \in Nat \ {0}
    BY DEF VehicleTyped
<1>2. T = [i \in Ids |-> Aged(tracks[i], 1, outage)]
    BY DEF FoundTracks
<1> HIDE DEF outage, T
<1>3. /\ T \in [Ids -> Slots] /\ Active(T) = Active(tracks)
      /\ \A i \in Active(tracks) : /\ T[i].spot = tracks[i].spot
                                   /\ T[i].reported = tracks[i].reported
                                   /\ T[i].unseen = Older(tracks[i].unseen, 1, UnseenCap)
                                   /\ T[i].missed = tracks[i].missed
                                   /\ T[i].count = tracks[i].count
                                   /\ T[i].ident = tracks[i].ident
    BY <1>1, <1>2, AgedTracks
<1>4. ASSUME NEW i \in Active(tracks)
      PROVE  /\ tracks[i] \in Tracked /\ T[i] \in Tracked
             /\ T[i].unseen = IF tracks[i].unseen < UnseenCap THEN tracks[i].unseen + 1 ELSE UnseenCap
             /\ T[i].unseen >= 1
    <2>1. i \in Ids
        BY DEF Active, Alive
    <2>2. tracks[i] \in Tracked /\ T[i] \in Tracked
        BY <1>1, <1>3, <2>1, StatesOf
    <2>3. tracks[i].unseen \in 0..UnseenCap /\ UnseenCap \in Nat /\ UnseenCap >= 1
        BY <2>2, TrackFields, VehicleNumbers
    <2>4. T[i].unseen = Older(tracks[i].unseen, 1, UnseenCap)
        BY <1>3
    <2>5. QED
        BY <2>2, <2>3, <2>4 DEF Older
<1>5. QED
    BY <1>3, <1>4 DEF T

\* A settled car is matched, to a track at its spot.
LEMMA SettledIsMatched ==
    ASSUME VehicleTyped, CarsApart,
           NEW rejected \in SUBSET Doubtful(FoundTracks(1), {OwnBox(c) : c \in Standing}),
           NEW M \in Matchings(FoundTracks(1), {OwnBox(c) : c \in Standing}, rejected),
           NEW c \in Standing, Settled(c)
    PROVE  \E q \in M : q[2] = OwnBox(c) /\ FoundTracks(1)[q[1]].spot = pos[c]
<1> DEFINE T   == FoundTracks(1)
           D   == {OwnBox(x) : x \in Standing}
           E   == Overlapping(T, D) \ rejected
           own == OwnBox(c)
<1>1. PICK i \in Active(tracks) : tracks[i].spot = pos[c] /\ tracks[i].unseen = 0
    BY DEF Settled
<1>2. Active(T) = Active(tracks) /\ T[i].spot = pos[c] /\ T[i].unseen = 1
    <2>1. UnseenCap \in Nat /\ UnseenCap > 0
        BY VehicleNumbers
    <2> HIDE DEF T
    <2>2. /\ Active(T) = Active(tracks) /\ T[i].spot = tracks[i].spot
          /\ T[i].unseen = IF tracks[i].unseen < UnseenCap THEN tracks[i].unseen + 1 ELSE UnseenCap
        BY FoundInTime DEF T
    <2>3. QED
        BY <1>1, <2>1, <2>2
<1> HIDE DEF T
<1>3. /\ M \in SUBSET E
      /\ \A p \in E \ M : \E q \in M : Clash(p, q) /\ IouRank(T[q[1]], q[2]) >= IouRank(T[p[1]], p[2])
    BY DEF Matchings, T
<1>4. own \in D /\ own.spot = pos[c] /\ own.car = c /\ own.part = FALSE
    BY DEF OwnBox
<1>5. \A d \in D : d.spot = pos[c] => d = own
    <2> SUFFICES ASSUME NEW x \in Standing, OwnBox(x).spot = pos[c] PROVE x = c
        OBVIOUS
    <2>1. pos[x] = pos[c] /\ pos[c] # Away /\ x \in Cars /\ c \in Cars
        BY DEF OwnBox, Standing
    <2>2. QED
        BY <2>1 DEF CarsApart
<1>6. \A p \in E : p[1] \in Active(T) /\ p[2] \in D
    BY DEF Overlapping
<1>7. \A p \in rejected : T[p[1]].unseen >= LookGap
    BY DEF Doubtful, T
<1> HIDE DEF own, D, E
<1>8. IouRank(T[i], own) = 3
    BY <1>1, <1>2, <1>4 DEF IouRank, SamePlace
<1>9. <<i, own>> \in E
    <2>1. <<i, own>> \notin rejected
        BY <1>2, <1>7, VehicleNumbers, VehicleAssumption
    <2>2. QED
        BY <1>1, <1>2, <1>4, <1>8, <2>1 DEF Overlapping, E
<1>10. CASE <<i, own>> \in M
    BY <1>2, <1>10 DEF T, own
<1>11. CASE <<i, own>> \notin M
    <2>1. PICK q \in M : Clash(<<i, own>>, q) /\ IouRank(T[q[1]], q[2]) >= 3
        BY <1>3, <1>8, <1>9, <1>11
    <2>2. T[q[1]].spot = q[2].spot
        BY <2>1 DEF IouRank, SamePlace
    <2>3. q[2] \in D
        BY <1>3, <1>6
    <2>4. CASE q[1] = i
        BY <1>2, <1>5, <2>2, <2>3, <2>4 DEF T, own
    <2>5. CASE q[2] = own
        BY <1>4, <2>2, <2>5 DEF T, own
    <2>6. QED
        BY <2>1, <2>4, <2>5 DEF Clash
<1>12. QED
    BY <1>10, <1>11

\* A track that a good frame sees stands where a car is, which is settled by it.
LEMMA AdvancedSettles ==
    ASSUME VehicleTyped, UNCHANGED pos,
           NEW M \in SUBSET Overlapping(FoundTracks(1), {OwnBox(c) : c \in Standing}),
           NEW B \in SUBSET {OwnBox(c) : c \in Standing},
           NEW j \in Active(tracks'), Advanced(FoundTracks(1), M, B, j, tracks'[j])
    PROVE  \E c \in Standing : /\ pos[c] = tracks'[j].spot /\ Settled(c)'
                               /\ tracks'[j].unseen = 0 /\ tracks'[j].missed = 0
                               /\ \/ OwnBox(c) \in B /\ Begins(OwnBox(c), tracks'[j])
                                  \/ \E p \in M : /\ p[1] = j /\ p[2] = OwnBox(c)
                                                  /\ Continues(FoundTracks(1)[j], p[2], tracks'[j])
<1> DEFINE T == FoundTracks(1)
           D == {OwnBox(c) : c \in Standing}
           u == tracks'[j]
<1>1. \A c \in Standing : u.spot = pos[c] /\ u.unseen = 0 => Settled(c)'
    BY DEF Settled, Standing
<1>2. CASE \E d \in B : Begins(d, u)
    <2>1. PICK c \in Standing : OwnBox(c) \in B /\ Begins(OwnBox(c), u)
        BY <1>2
    <2>2. u.spot = pos[c] /\ u.unseen = 0 /\ u.missed = 0
        BY <2>1 DEF Begins, OwnBox
    <2>3. QED
        BY <1>1, <2>1, <2>2
<1>3. CASE \E p \in M : p[1] = j /\ Continues(T[j], p[2], u)
    <2>1. PICK p \in M : p[1] = j /\ Continues(T[j], p[2], u)
        BY <1>3
    <2>2. p \in Overlapping(T, D)
        OBVIOUS
    <2>3. p[2] \in D
        BY <2>2 DEF Overlapping
    <2>4. PICK c \in Standing : p[2] = OwnBox(c)
        BY <2>3
    <2>5. u.spot = pos[c] /\ u.unseen = 0 /\ u.missed = 0
        BY <2>1, <2>4 DEF Continues, OwnBox
    <2>6. QED
        BY <1>1, <2>1, <2>4, <2>5 DEF T
<1>4. QED
    BY <1>2, <1>3 DEF Advanced

\* What a good frame makes of the tracks, in the words of what it does to them.
Stayed(i) == LET t == FoundTracks(1)[i]
                 u == tracks'[i] IN
             /\ i \in Active(tracks) /\ Same(t, u) /\ (t.reported \/ u.count = t.count)
             /\ u.missed = IF t.missed < 2 THEN t.missed + 1 ELSE 2
             /\ ~Absent(u, WatchedFor(1))
Followed(i) == LET t == FoundTracks(1)[i]
                   u == tracks'[i] IN
               /\ i \in Active(tracks)
               /\ ~u.reported => ~t.reported /\ u.count < Confirm /\ u.count = t.count + 1

LEMMA GoodFrame ==
    ASSUME VehicleInv, CatchingUp, NEW view \in [Cars -> Views], NEW people, NEW dt \in Gaps,
           Frame(view, people, dt), calm' # 0
    PROVE  /\ dt = 1 /\ UNCHANGED pos /\ calm' \in 1..(calm + 1) /\ fresh' = FALSE
           /\ watch' = WatchedFor(1)
           /\ \A c \in Standing : \/ Settled(c)'
                                  \/ ~Settled(c) /\ \E k \in Active(tracks) : tracks[k].spot = pos[c]
           /\ \A j \in Active(tracks') :
                 \/ Stayed(j)
                 \/ \E c \in Standing :
                       /\ pos[c] = tracks'[j].spot /\ Settled(c)'
                       /\ tracks'[j].unseen = 0 /\ tracks'[j].missed = 0
                       /\ ~Settled(c) \/ Followed(j)
<1> DEFINE T == FoundTracks(1)
           D == {OwnBox(c) : c \in Standing}
           U == tracks'
           good == /\ \A c \in Standing : view[c] = "whole"
                   /\ dt = 1 /\ ~\E i \in Alive(FoundTracks(dt)) : FoundTracks(dt)[i].ident = "asked"
<1>1. VehicleTyped /\ CarsApart /\ Possible(view, dt)
    BY DEF VehicleInv, Frame
<1>2. /\ calm' = (IF good THEN (IF calm < CaughtUp THEN calm + 1 ELSE calm) ELSE 0)
      /\ UNCHANGED pos /\ fresh' = FALSE /\ watch' = WatchedFor(dt)
    BY DEF Frame, FoundTracks, WatchedFor
<1>3. good
    BY <1>2
<1>4. dt = 1 /\ calm' \in 1..(calm + 1)
    <2>1. calm \in Nat
        BY <1>1, VehicleAssumption DEF VehicleTyped
    <2> HIDE DEF good
    <2>2. calm' = calm + 1 \/ calm' = calm
        BY <1>2, <1>3
    <2>3. QED
        BY <1>3, <2>1, <2>2 DEF good
<1>5. BoxesOf(view) = D
    BY <1>1, <1>3, GoodBoxes
<1>6. ~\E i \in Alive(T) : T[i].ident = "asked"
    BY <1>3, <1>4
<1>7. PICK rejected \in SUBSET Doubtful(T, D) :
       \E M \in Matchings(T, D, rejected) : Progress(T, M, D \ {p[2] : p \in M}, WatchedFor(1), U)
    BY <1>4, <1>5, FrameMade
<1>8. PICK M \in Matchings(T, D, rejected) : Progress(T, M, D \ {p[2] : p \in M}, WatchedFor(1), U)
    BY <1>7
<1> DEFINE B == D \ {p[2] : p \in M}
<1> HIDE DEF T, D, good
<1>9. T \in [Ids -> Slots] /\ Active(T) = Active(tracks) /\ Active(T) \subseteq Alive(T)
    BY <1>1, FoundInTime DEF T, Active
<1>10. /\ M \subseteq Overlapping(T, D) /\ \A p, q \in M : Clash(p, q) => p = q
      /\ \A p \in Overlapping(T, D) : p[1] \in Active(T) /\ p[2] \in D
    BY DEF Matchings, Overlapping
<1>11. \A c \in Standing : Settled(c) => \E q \in M : q[2] = OwnBox(c) /\ T[q[1]].spot = pos[c]
    BY <1>1, SettledIsMatched DEF T, D
<1>12. ASSUME NEW j \in Active(U), Advanced(T, M, B, j, U[j])
       PROVE  \E c \in Standing : /\ pos[c] = U[j].spot /\ Settled(c)'
                                  /\ U[j].unseen = 0 /\ U[j].missed = 0
                                  /\ \/ OwnBox(c) \in B /\ Begins(OwnBox(c), U[j])
                                     \/ \E p \in M : /\ p[1] = j /\ p[2] = OwnBox(c)
                                                     /\ Continues(T[j], p[2], U[j])
    <2>1. B \in SUBSET {OwnBox(c) : c \in Standing}
        BY DEF D
    <2>2. M \in SUBSET Overlapping(FoundTracks(1), {OwnBox(c) : c \in Standing})
        BY <1>10 DEF T, D
    <2>3. Advanced(FoundTracks(1), M, B, j, tracks'[j])
        BY <1>12 DEF T
    <2> HIDE DEF B
    <2>4. QED
        BY <1>1, <1>2, <1>12, <2>1, <2>2, <2>3, AdvancedSettles DEF T
<1>13. /\ \A j \in Active(U) :
             \/ Advanced(T, M, B, j, U[j])
             \/ j \in Active(T) /\ (~\E p \in M : p[1] = j) /\ Waits(T[j], U[j], WatchedFor(1))
       /\ \A p \in M : p[1] \in Active(U)
       /\ \A d \in B : \/ d.part
                       \/ \E k \in Active(U) : U[k].spot = d.spot /\ Advanced(T, M, B, k, U[k])
                       \/ \E k \in Active(T) : T[k].spot = d.spot /\ ~\E p \in M : p[1] = k
    BY <1>8 DEF Progress
<1>14. \A k \in Active(T) : Waits(T[k], U[k], WatchedFor(1)) => Stayed(k)
    BY <1>9 DEF Waits, Stayed, T
\* Cars stand apart, so that a box and a spot are of one car.
<1>15. \A c, d \in Standing : pos[c] = pos[d] \/ OwnBox(c) = OwnBox(d) => c = d
    BY <1>1 DEF CarsApart, Standing, OwnBox
<1>16. ASSUME NEW c \in Standing, NEW p \in M, p[2] = OwnBox(c) PROVE Settled(c)'
    <2>1. p[1] \in Active(U) /\ p[1] \in Active(T)
        BY <1>10, <1>13
    <2>2. Advanced(T, M, B, p[1], U[p[1]])
        BY <1>13, <2>1
    <2>3. PICK d \in Standing : /\ pos[d] = U[p[1]].spot /\ Settled(d)'
                                /\ \/ OwnBox(d) \in B /\ Begins(OwnBox(d), U[p[1]])
                                   \/ \E q \in M : q[1] = p[1] /\ q[2] = OwnBox(d)
        BY <1>12, <2>1, <2>2
    <2>4. (\E x \in M : x[1] = p[1] /\ Continues(T[p[1]], x[2], U[p[1]]))
        BY <2>1, <2>2 DEF Advanced
    <2>5. Continues(T[p[1]], p[2], U[p[1]])
        <3>1. PICK x \in M : x[1] = p[1] /\ Continues(T[p[1]], x[2], U[p[1]])
            BY <2>4
        <3>2. x = p
            BY <1>10, <3>1 DEF Clash
        <3>3. QED
            BY <3>1, <3>2
    <2>6. U[p[1]].spot = pos[c]
        BY <1>16, <2>5 DEF Continues, OwnBox
    <2>7. QED
        BY <1>15, <2>3, <2>6
<1>17. \A c \in Standing : Settled(c) => Settled(c)'
    BY <1>11, <1>16
<1>18. ASSUME NEW c \in Standing, ~Settled(c)'
       PROVE  ~Settled(c) /\ \E k \in Active(tracks) : tracks[k].spot = pos[c]
    <2> DEFINE d == OwnBox(c)
    <2>1. d \in B
        BY <1>16, <1>18 DEF D
    <2>2. ~d.part /\ d.spot = pos[c]
        BY DEF OwnBox
    <2> HIDE DEF d, B
    <2>3. ASSUME NEW k \in Active(U), U[k].spot = pos[c], Advanced(T, M, B, k, U[k])
          PROVE  FALSE
        <3>1. PICK x \in Standing : pos[x] = U[k].spot /\ Settled(x)'
            BY <1>12, <2>3
        <3>2. QED
            BY <1>15, <1>18, <2>3, <3>1
    <2>4. \/ d.part
          \/ \E k \in Active(U) : U[k].spot = d.spot /\ Advanced(T, M, B, k, U[k])
          \/ \E k \in Active(T) : T[k].spot = d.spot /\ ~\E p \in M : p[1] = k
        BY <1>13, <2>1
    <2>5. PICK k \in Active(T) : T[k].spot = pos[c]
        BY <2>2, <2>3, <2>4
    <2>6. tracks[k].spot = pos[c]
        BY <1>1, <1>9, <2>5, FoundInTime DEF T
    <2>7. QED
        BY <1>9, <1>17, <1>18, <2>5, <2>6
<1>19. ASSUME NEW j \in Active(U), ~Stayed(j)
       PROVE  \E c \in Standing : /\ pos[c] = U[j].spot /\ Settled(c)'
                                  /\ U[j].unseen = 0 /\ U[j].missed = 0
                                  /\ ~Settled(c) \/ Followed(j)
    <2>1. Advanced(T, M, B, j, U[j])
        BY <1>13, <1>14, <1>19
    <2>2. PICK c \in Standing : /\ pos[c] = U[j].spot /\ Settled(c)'
                               /\ U[j].unseen = 0 /\ U[j].missed = 0
                               /\ \/ OwnBox(c) \in B /\ Begins(OwnBox(c), U[j])
                                  \/ \E p \in M : /\ p[1] = j /\ p[2] = OwnBox(c)
                                                  /\ Continues(T[j], p[2], U[j])
        BY <1>12, <2>1
    <2>3. ASSUME Settled(c) PROVE Followed(j)
        <3>1. PICK q \in M : q[2] = OwnBox(c) /\ T[q[1]].spot = pos[c]
            BY <1>11, <2>3
        <3>2. OwnBox(c) \notin B
            BY <3>1
        <3>3. PICK p \in M : p[1] = j /\ p[2] = OwnBox(c) /\ Continues(T[j], p[2], U[j])
            BY <2>2, <3>2
        <3>4. p = q
            BY <1>10, <3>1, <3>3 DEF Clash
        <3>5. T[j].spot = pos[c] /\ j \in Active(T)
            BY <1>10, <3>1, <3>3, <3>4
        <3>6. T[j].ident # "asked"
            BY <1>6, <1>9, <3>5
        <3>7. OwnBox(c).spot = pos[c] /\ ~OwnBox(c).part
            BY DEF OwnBox
        <3>8. /\ U[j].spot = pos[c]
              /\ ~U[j].reported => ~T[j].reported /\ U[j].count < Confirm /\ U[j].count = T[j].count + 1
            BY <3>3, <3>5, <3>6, <3>7 DEF Continues
        <3>9. QED
            BY <1>9, <3>5, <3>8 DEF Followed, T
    <2>4. QED
        BY <2>2, <2>3
<1>20. QED
    BY <1>2, <1>4, <1>18, <1>19

\* A good frame brings the scene closer to the cars.
LEMMA CalmFrameKeeps ==
    ASSUME VehicleInv, CatchingUp,
           NEW view \in [Cars -> Views], NEW people, NEW dt \in Gaps,
           Frame(view, people, dt), calm' # 0
    PROVE  CatchingUp'
<1> DEFINE T        == FoundTracks(1)
           observed == WatchedFor(1)
<1>1. /\ UNCHANGED pos /\ calm' \in 1..(calm + 1) /\ fresh' = FALSE
      /\ watch' = observed
      /\ \A c \in Standing : \/ Settled(c)'
                             \/ ~Settled(c) /\ \E k \in Active(tracks) : tracks[k].spot = pos[c]
      /\ \A j \in Active(tracks') :
            \/ Stayed(j)
            \/ \E c \in Standing : /\ pos[c] = tracks'[j].spot /\ Settled(c)'
                                   /\ tracks'[j].unseen = 0 /\ tracks'[j].missed = 0
                                   /\ ~Settled(c) \/ Followed(j)
    BY GoodFrame
<1>2. Standing' = Standing
    BY <1>1 DEF Standing
<1>3. /\ VehicleTyped /\ CarsApart /\ calm \in Nat /\ calm' \in Nat /\ calm' <= calm + 1 /\ calm' >= 1
    BY <1>1, VehicleAssumption DEF VehicleInv, VehicleTyped
<1>4. /\ Absence \in Nat /\ Absence >= 1 /\ UnseenCap \in Nat /\ UnseenCap >= Absence
    BY VehicleNumbers
<1>5. /\ observed \in Nat /\ (observed >= Absence \/ observed >= calm)
    <2>1. watch \in 0..UnseenCap /\ Outage \in Nat \ {0}
        BY <1>3, VehicleNumbers DEF VehicleTyped
    <2>2. CASE calm = 0
        BY <1>4, <2>1, <2>2 DEF WatchedFor, Older
    <2>3. CASE calm > 0
        <3>1. ~fresh /\ (watch >= Absence \/ watch >= calm - 1)
            BY <2>3 DEF CatchingUp
        <3>2. observed = IF watch + 1 > UnseenCap THEN UnseenCap ELSE watch + 1
            BY <2>1, <3>1 DEF WatchedFor, Older
        <3> HIDE DEF observed
        <3>3. QED
            BY <1>3, <1>4, <2>1, <3>1, <3>2
    <2>4. QED
        BY <1>3, <2>2, <2>3
<1> HIDE DEF observed
\* The tracks where no settled car stands fade.
<1>6. \A i \in Active(tracks) : InTime(tracks[i])
    BY DEF CatchingUp
<1>7. \A c \in Standing : Settled(c) \/ calm <= Absence + 1
    BY DEF CatchingUp
<1>8. \A c \in Standing : Settled(c) => Settled(c)'
    BY <1>1
<1>9. ASSUME NEW c \in Standing PROVE Settled(c)' \/ calm' <= Absence + 1
    <2> SUFFICES ASSUME ~Settled(c)' PROVE calm <= Absence
        BY <1>3, <1>4
    <2>1. PICK k \in Active(tracks) : tracks[k].spot = pos[c]
        BY <1>1
    <2>2. ~Minded(tracks[k])
        <3> SUFFICES ASSUME Minded(tracks[k]) PROVE FALSE
            OBVIOUS
        <3>1. PICK d \in Standing : pos[d] = tracks[k].spot /\ Settled(d)
            BY DEF Minded
        <3>2. d = c
            BY <1>3, <2>1, <3>1 DEF CarsApart, Standing
        <3>3. QED
            BY <1>8, <3>1, <3>2
    <2>3. QED
        BY <1>6, <2>2 DEF InTime, Faded
<1>10. /\ \A i \in Active(tracks) :
              /\ tracks[i] \in Tracked /\ T[i].spot = tracks[i].spot
              /\ T[i].reported = tracks[i].reported /\ T[i].missed = tracks[i].missed
              /\ T[i].count = tracks[i].count
              /\ T[i].unseen = IF tracks[i].unseen < UnseenCap THEN tracks[i].unseen + 1 ELSE UnseenCap
    BY <1>3, FoundInTime
<1>11. ASSUME NEW i \in Active(tracks)
       PROVE  /\ tracks[i].unseen \in 0..UnseenCap /\ tracks[i].missed \in 0..2
              /\ tracks[i].count \in Nat
    BY <1>10, TrackFields, VehicleNumbers
<1> HIDE DEF T
<1>12. ASSUME NEW j \in Active(tracks'), Stayed(j) PROVE InTime(tracks[j])'
    <2> DEFINE t == tracks[j]
               u == tracks'[j]
    <2>1. /\ j \in Active(tracks) /\ u.spot = t.spot /\ u.reported = t.reported
          /\ u.unseen = (IF t.unseen < UnseenCap THEN t.unseen + 1 ELSE UnseenCap)
          /\ u.missed = (IF t.missed < 2 THEN t.missed + 1 ELSE 2)
          /\ t.reported \/ u.count = t.count
          /\ ~Absent(u, observed)
        <3>1. /\ j \in Active(tracks) /\ Same(T[j], u) /\ (T[j].reported \/ u.count = T[j].count)
              /\ u.missed = (IF T[j].missed < 2 THEN T[j].missed + 1 ELSE 2)
              /\ ~Absent(u, observed)
            BY <1>12 DEF Stayed, T, observed
        <3> HIDE DEF u
        <3>2. QED
            BY <1>10, <3>1 DEF Same
    <2>2. t.unseen \in 0..UnseenCap /\ t.missed \in 0..2 /\ t.count \in Nat
        BY <1>11, <2>1
    <2>3. InTime(t)
        BY <1>6, <2>1
    <2>4. u.missed = 2 => u.unseen < Absence \/ observed < Absence
        BY <1>4, <1>5, <2>1, <2>2 DEF Absent, AwayFor
    <2> HIDE DEF t, u
    <2>5. ASSUME Faded(t) PROVE Faded(t)' /\ calm' <= Absence
        <3>1. t.unseen >= calm /\ (t.missed = 2 \/ t.missed >= calm) /\ calm <= Absence
            BY <2>5 DEF Faded
        <3>2. CASE calm < Absence
            <4>1. u.unseen >= calm' /\ (u.missed = 2 \/ u.missed >= calm') /\ calm' <= Absence
                BY <1>3, <1>4, <2>1, <2>2, <3>1, <3>2 DEF t, u
            <4>2. QED
                BY <4>1 DEF Faded, t, u
        <3>3. CASE calm = Absence
            <4>1. u.unseen \in Nat /\ u.unseen >= Absence /\ u.missed = 2 /\ observed >= Absence
                BY <1>3, <1>4, <1>5, <2>1, <2>2, <3>1, <3>3 DEF t, u
            <4>2. QED
                BY <1>4, <1>5, <2>4, <4>1
        <3>4. QED
            BY <1>3, <1>4, <3>1, <3>2, <3>3
    <2>6. ASSUME Minded(t)
          PROVE  /\ Minded(t)' /\ (t.missed = 2 \/ t.unseen <= t.missed)
        <3>1. PICK c \in Standing : pos[c] = t.spot /\ Settled(c) /\ (t.missed = 2 \/ t.unseen <= t.missed)
            BY <2>6 DEF Minded
        <3>2. u.missed = 2 \/ u.unseen <= u.missed
            BY <1>4, <2>1, <2>2, <3>1 DEF t, u
        <3>3. pos'[c] = u.spot /\ Settled(c)' /\ c \in Standing'
            BY <1>1, <1>2, <1>8, <2>1, <3>1 DEF t, u
        <3>4. QED
            BY <3>1, <3>2, <3>3 DEF Minded, t, u
    <2>7. (Faded(t) \/ Minded(t))'
        BY <2>3, <2>5, <2>6 DEF InTime
    \* One that is older than the fading was missed for less than the patience.
    <2>8. ASSUME calm' > Absence + 1 PROVE u.unseen = t.unseen + 1 /\ u.unseen < Patience
        <3>1. calm > Absence /\ observed >= Absence
            BY <1>3, <1>4, <1>5, <2>8
        <3>2. t.missed = 2 \/ t.unseen <= t.missed
            BY <1>3, <1>4, <2>3, <2>6, <3>1 DEF InTime, Faded
        <3>3. Patience \in Nat /\ Patience >= 2 /\ Patience >= Absence
            BY NeededNumbers
        <3>4. CASE u.missed = 2
            <4>1. u.unseen < Absence
                BY <1>4, <1>5, <2>4, <3>1, <3>4
            <4>2. QED
                BY <1>4, <2>1, <2>2, <3>3, <4>1 DEF t, u
        <3>5. CASE u.missed # 2
            <4>1. t.missed = 0
                BY <2>1, <2>2, <3>5 DEF t, u
            <4>2. QED
                BY <1>4, <2>1, <2>2, <3>2, <3>3, <4>1 DEF t, u
        <3>6. QED
            BY <3>4, <3>5
    <2>9. u.unseen \in Nat /\ Needed(t.count) \in Nat
        BY <1>4, <2>1, <2>2, NeededNumbers DEF t, u
    <2>10. u.unseen < Patience \/ calm' <= Absence + 1
        BY <1>3, <1>4, <2>8
    <2>11. u.reported \/ calm' <= Absence + 2 + Needed(u.count) + u.unseen
        <3>1. CASE t.reported
            BY <2>1, <3>1 DEF t, u
        <3>2. CASE ~t.reported
            <4>1. u.count = t.count /\ calm <= Absence + 2 + Needed(t.count) + t.unseen
                BY <2>1, <2>3, <3>2 DEF t, u, InTime
            <4>2. t.unseen \in Nat
                BY <1>4, <2>2
            <4>3. CASE calm' > Absence + 1
                BY <1>3, <1>4, <2>8, <2>9, <4>1, <4>2, <4>3
            <4>4. CASE ~(calm' > Absence + 1)
                BY <1>3, <1>4, <2>9, <4>1, <4>4
            <4>5. QED
                BY <4>3, <4>4
        <3>3. QED
            BY <3>1, <3>2
    <2>12. QED
        BY <2>7, <2>10, <2>11 DEF InTime, t, u
<1>13. ASSUME NEW j \in Active(tracks'), ~Stayed(j) PROVE InTime(tracks[j])'
    <2> DEFINE u == tracks'[j]
    <2>1. PICK c \in Standing : /\ pos[c] = u.spot /\ Settled(c)' /\ u.unseen = 0 /\ u.missed = 0
                                /\ ~Settled(c) \/ Followed(j)
        BY <1>1, <1>13
    <2>2. u \in Tracked
        BY <1>3, VehicleFrameKeeps, StatesOf DEF VehicleInv, VehicleTyped, Active, Alive
    <2>3. u.count \in Nat /\ Needed(u.count) \in Nat
        BY <2>2, TrackFields, VehicleNumbers, NeededNumbers
    <2>4. Patience \in Nat /\ Patience >= 2
        BY NeededNumbers
    <2>5. Absence + 2 + Needed(u.count) + 0 = Absence + 2 + Needed(u.count)
        BY <1>4, <2>3
    <2> HIDE DEF u
    <2>6. Minded(tracks[j])'
        <3>1. u.missed = 2 \/ u.unseen <= u.missed
            BY <2>1
        <3>2. pos'[c] = u.spot /\ Settled(c)' /\ c \in Standing'
            BY <1>1, <1>2, <2>1
        <3>3. QED
            BY <3>1, <3>2 DEF Minded, u
    <2>7. ~u.reported => calm' <= Absence + 2 + Needed(u.count) + u.unseen
        <3> SUFFICES ASSUME ~u.reported PROVE calm' <= Absence + 2 + Needed(u.count)
            <4>1. u.unseen = 0
                BY <2>1
            <4>2. QED
                BY <2>5, <4>1
        <3>1. CASE ~Settled(c)
            BY <1>3, <1>4, <1>7, <2>3, <3>1
        <3>2. CASE Settled(c)
            <4>1. j \in Active(tracks) /\ ~T[j].reported /\ u.count < Confirm /\ u.count = T[j].count + 1
                BY <2>1, <3>2 DEF Followed, T, u
            <4> DEFINE t == tracks[j]
            <4>2. /\ ~t.reported /\ u.count < Confirm /\ u.count = t.count + 1
                  /\ t.unseen \in Nat /\ t.count \in Nat
                BY <1>4, <1>10, <1>11, <4>1
            <4>3. InTime(t)
                BY <1>6, <4>1
            <4> HIDE DEF t
            <4>4. Needed(u.count) = Needed(t.count) + Patience /\ Needed(t.count) \in Nat
                BY <4>2, NeededNumbers
            <4>5. /\ t.unseen < Patience \/ calm <= Absence + 1
                  /\ calm <= Absence + 2 + Needed(t.count) + t.unseen
                BY <4>2, <4>3 DEF InTime
            <4>6. QED
                BY <1>3, <1>4, <2>4, <4>2, <4>4, <4>5
        <3>3. QED
            BY <3>1, <3>2
    <2>8. QED
        BY <2>1, <2>4, <2>6, <2>7 DEF InTime, u
<1>14. calm' > 0 => ~fresh' /\ (watch' >= Absence \/ watch' >= calm' - 1)
    <2>1. fresh' = FALSE /\ watch' = observed
        BY <1>1
    <2>2. observed >= Absence \/ observed >= calm' - 1
        <3>1. calm' - 1 <= calm
            <4>1. \A a, b \in Nat : a <= b + 1 => a - 1 <= b
                OBVIOUS
            <4>2. calm \in Nat /\ calm' \in Nat /\ calm' <= calm + 1
                BY <1>3
            <4>3. QED
                BY <4>1, <4>2
        <3>2. calm' - 1 \in Int /\ calm \in Int /\ observed \in Int
            BY <1>3, <1>5
        <3>3. QED
            BY <1>5, <3>1, <3>2
    <2>3. QED
        BY <2>1, <2>2
<1>15. QED
    BY <1>2, <1>9, <1>12, <1>13, <1>14 DEF CatchingUp

LEMMA CatchingUpKeeps ==
    ASSUME VehicleInv, CatchingUp, [VehicleNext]_vehicleVars, calm' # 0
    PROVE  CatchingUp'
<1>1. CASE SomeFrame
    BY <1>1, CalmFrameKeeps DEF SomeFrame
<1>2. ASSUME UNCHANGED <<tracks, pos, calm, watch, fresh>> PROVE CatchingUp'
    <2>1. \A k \in Active(tracks) : Alike(tracks[k], tracks'[k])
        BY <1>2 DEF Alike, Same
    <2>2. QED
        BY <1>2, <2>1, AlikeCatchesUp
<1>3. CASE UNCHANGED vehicleVars
    BY <1>2, <1>3 DEF vehicleVars
<1>4. CASE \E e \in out : Emit(e) \/ EmitFails(e)
    BY <1>2, <1>4 DEF Emit, EmitFails, world
<1>5. CASE \E i \in Ids : Answer(i)
    <2>1. PICK i \in Ids : Answer(i)
        BY <1>5
    <2>2. /\ \A k \in Active(tracks) : Alike(tracks[k], tracks'[k])
          /\ Active(tracks') = Active(tracks)
        BY <2>1, AnswerAlike DEF VehicleInv, VehicleTyped
    <2>3. UNCHANGED <<pos, calm, watch, fresh>>
        BY <2>1 DEF Answer, world
    <2>4. QED
        BY <2>2, <2>3, AlikeCatchesUp
<1>6. CASE Restart \/ Reset \/ \E c \in Cars : Drive(c)
    BY <1>6 DEF Restart, Reset, Drive
<1>7. QED
    BY <1>1, <1>3, <1>4, <1>5, <1>6 DEF VehicleNext

\* Once it has caught up, the reported tracks are the cars that stand there.
LEMMA CaughtUpTells ==
    ASSUME VehicleInv, CatchingUp
    PROVE  SceneCatchesUp
<1> SUFFICES ASSUME calm = CaughtUp
             PROVE  /\ \A c \in Standing : \E i \in Active(tracks) :
                          tracks[i].reported /\ tracks[i].spot = pos[c]
                    /\ \A i \in Active(tracks) : \E c \in Standing : pos[c] = tracks[i].spot
    BY DEF SceneCatchesUp
<1>1. /\ CaughtUp \in Nat /\ Absence \in Nat /\ Patience \in Nat /\ Patience * Confirm \in Nat
      /\ \A n \in Nat : Needed(n) \in Nat /\ Needed(n) <= Patience * Confirm
    BY VehicleNumbers, CaughtUpNumber, NeededNumbers
<1>2. calm > Absence + 2 + Patience * Confirm /\ calm > Absence + 1 /\ calm > Absence
    <2> DEFINE k == Patience * Confirm
    <2>1. k \in Nat /\ CaughtUp > Absence + 2 + k
        BY <1>1, CaughtUpNumber
    <2> HIDE DEF k
    <2>2. CaughtUp > Absence + 1 /\ CaughtUp > Absence
        BY <1>1, <2>1
    <2>3. QED
        BY <2>1, <2>2 DEF k
<1>3. \A i \in Active(tracks) : InTime(tracks[i])
    BY DEF CatchingUp
<1>4. ASSUME NEW c \in Standing
      PROVE  \E i \in Active(tracks) : tracks[i].reported /\ tracks[i].spot = pos[c]
    <2>1. Settled(c)
        BY <1>1, <1>2 DEF CatchingUp
    <2>2. PICK i \in Active(tracks) : tracks[i].spot = pos[c] /\ tracks[i].unseen = 0
        BY <2>1 DEF Settled
    <2> DEFINE t == tracks[i]
               k == Patience * Confirm
    <2>3. t.count \in Nat
        <3>1. t \in Tracked
            BY StatesOf DEF VehicleInv, VehicleTyped, Active, Alive
        <3>2. QED
            BY <3>1, TrackFields, VehicleNumbers
    <2>4. t.reported \/ calm <= Absence + 2 + Needed(t.count) + t.unseen
        BY <1>3 DEF InTime
    <2>5. t.unseen = 0 /\ Needed(t.count) \in Nat /\ Needed(t.count) <= k /\ k \in Nat
        BY <1>1, <2>2, <2>3
    <2>6. calm > Absence + 2 + k
        BY <1>2
    <2> HIDE DEF t, k
    <2>7. t.reported
        BY <1>1, <2>4, <2>5, <2>6
    <2>8. QED
        BY <2>2, <2>7 DEF t
<1>5. ASSUME NEW i \in Active(tracks)
      PROVE  \E c \in Standing : pos[c] = tracks[i].spot
    <2>1. Minded(tracks[i])
        BY <1>1, <1>2, <1>3 DEF InTime, Faded
    <2>2. QED
        BY <2>1 DEF Minded
<1>6. QED
    BY <1>4, <1>5

\* SceneTold: every stay of a car is announced at most once, and after CaughtUp good frames of
\* cars that stand still the reported tracks are those cars and no other, whatever went before,
\* for any number of cars, spots and tracks and any thresholds.
THEOREM SceneToldThroughout == VehicleSpec => []SceneTold
<1> DEFINE Restarted == calm = 0
<1>1. VehicleInv /\ Restarted => CatchingUp
    BY NotYetCalm DEF VehicleInv
<1>2. VehicleInit => Restarted
    BY DEF VehicleInit
<1>3. VehicleInv /\ CatchingUp /\ [VehicleNext]_vehicleVars => Restarted' \/ CatchingUp'
    BY CatchingUpKeeps
<1>4. VehicleInv /\ CatchingUp => SceneCatchesUp
    BY CaughtUpTells
<1>5. VehicleSpec => []StayAnnouncedOnce
    BY StayAnnouncedOnceThroughout
<1>6. SceneTold <=> StayAnnouncedOnce /\ SceneCatchesUp
    BY DEF SceneTold
<1> HIDE DEF Restarted
<1>7. QED
    BY <1>1, <1>2, <1>3, <1>4, <1>5, <1>6, VehicleInitially, VehicleKeeps, PTL DEF VehicleSpec
================================================================================
