-------------------------------- MODULE Mailbox --------------------------------
(***************************************************************************)
(* One mailbox zone (the mailbox half of app/services/scene_state.py): the *)
(* opened/closed detector, the visits, the check of a finished visit with  *)
(* the vision model, and the claim under which an event is committed       *)
(* (app/services/scene_dedup.py).                                          *)
(*                                                                         *)
(* A frame is abstracted to what is read from it: whether a person is      *)
(* near, a package lies in the zone, and how the zone compares with its    *)
(* reference picture. Times are ages in frames, cut off at their windows.  *)
(***************************************************************************)
EXTENDS Integers, FiniteSets

CONSTANTS
    MailMinObservations,  \* mailbox_min_observations
    MailEndMisses,        \* mailbox_end_after_misses
    MailOpenFrames,       \* mailbox_open_min_frames
    MailDedupe,           \* mailbox_dedupe_seconds, in frames
    MailCooldown,         \* mailbox_open_cooldown_seconds, in frames
    MailMaxVisit,         \* _MAILBOX_MAX_VISIT_SECONDS, in frames
    MailRebase,           \* _LID_REBASE_SECONDS, in frames
    MailVerifyGap,        \* scene_verifier_min_interval_seconds, in frames
    MailTimeout,          \* how long a check can take, in frames
    MailVisits,           \* bound: visits in a behaviour
    MailMishaps           \* bound: outages, restarts, resets, failed commits

ASSUME MailboxAssumption ==
    /\ {MailMinObservations, MailEndMisses, MailOpenFrames} \subseteq Nat \ {0}
    /\ {MailDedupe, MailCooldown, MailMaxVisit, MailRebase, MailVerifyGap, MailTimeout} \subseteq Nat
    /\ {MailVisits, MailMishaps} \subseteq Nat

VARIABLES
    box,        \* the zone's record: state and data, saved with every frame
    asked,      \* scene.pending of the zone: the visit being verified, or NoVisit
    mailAnswered,   \* that check is done; its action
    claims,     \* scene_dedup_claims: age of each transition's claim
    unsent,     \* the transitions of the last frame still to be emitted
    visits,     \* visits begun (the visit ids given out)
    reported,   \* history: how many events were committed for each visit
    spoken,     \* history: age of the last event of each transition
    mailMishaps

mailVars == <<box, asked, mailAnswered, claims, unsent, visits, reported, spoken, mailMishaps>>

Transitions == {"delivery", "retrieval", "opened", "visit"}
NoVisit     == [visit |-> 0, age |-> 0]
MailWindow(t) == IF t \in {"delivery", "retrieval"} THEN MailDedupe ELSE MailCooldown
\* An age at which nothing observed since can be within the window.
MailOld(t)  == MailWindow(t) + MailTimeout + 1
UpTo(age, cap) == IF age + 1 > cap THEN cap ELSE age + 1

NewBox == [visiting |-> FALSE, ref |-> FALSE, open |-> FALSE, pending |-> 0, lidAge |-> 0,
           visit |-> 0, age |-> 0, seen |-> 0, misses |-> 0, changed |-> FALSE,
           before |-> FALSE, package |-> FALSE, ended |-> MailCooldown,
           asking |-> MailVerifyGap, last |-> [t \in Transitions |-> MailOld(t)]]

\* --- the lid (_lid_update) -------------------------------------------------

\* What the comparison with the reference says: too covered or no picture, the
\* closed mailbox, something between the two thresholds, open, or a change of
\* the whole frame.
Readings == {"covered", "closed", "between", "open", "everywhere"}
ReadsOpen(r) == r \in {"open", "everywhere"}

Rebased(b) == [b EXCEPT !.ref = TRUE, !.open = FALSE, !.pending = 0, !.lidAge = 0]
Opens(b, near) == b.pending + 1 >= MailOpenFrames \/ near \/ b.visiting

\* The record after the frame, and "opened", "closed" or "none".
LidUpdate(b, r, near) ==
    IF r = "covered" THEN [box |-> b, change |-> "none"]
    ELSE IF ~b.ref THEN [box |-> Rebased(b), change |-> "none"]
    ELSE IF b.open
    THEN IF r = "closed"
         THEN [box |-> [b EXCEPT !.open = FALSE, !.lidAge = 0, !.pending = 0], change |-> "closed"]
         ELSE [box |-> IF ~near /\ ~b.visiting /\ b.lidAge > MailRebase THEN Rebased(b) ELSE b,
               change |-> "none"]
    ELSE IF r = "everywhere" THEN [box |-> Rebased(b), change |-> "none"]
    ELSE IF r = "open"
    THEN IF Opens(b, near)
         THEN [box |-> [b EXCEPT !.open = TRUE, !.lidAge = 0, !.pending = 0], change |-> "opened"]
         ELSE [box |-> [b EXCEPT !.pending = @ + 1], change |-> "none"]
    ELSE [box |-> [b EXCEPT !.pending = 0], change |-> "none"]

\* --- the result of a visit -------------------------------------------------

\* _classify: the model's action, or what the pictures alone say.
Answers == {"deposited", "retrieved", "opened_only", "nothing"}
Classify(context, action) ==
    CASE action = "deposited"   -> "delivery"
      [] action = "retrieved"   -> "retrieval"
      [] action = "opened_only" -> "opened"
      [] OTHER -> IF context.changed THEN "opened" ELSE "visit"

\* _mailbox_result: at most one transition per window of its kind, counted from
\* the visit's own end (context.age ago).
Result(b, context, action) ==
    LET t == Classify(context, action) IN
    IF b.last[t] - context.age < MailWindow(t)
    THEN [box |-> b, out |-> {}]
    ELSE [box |-> [b EXCEPT !.last[t] = context.age],
          out |-> {[what |-> t, visit |-> context.visit, age |-> context.age]}]

Context(b, changed) == [visit |-> b.visit, changed |-> changed, age |-> 0]

\* _finish_visit: a walk-by, a package that came or went, a check of the
\* pictures, or what they say without one.
FinishVisit(b, package, verifier, waiting) ==
    LET context == Context(b, b.changed)
        local   == IF package /\ ~b.before THEN "deposited"
                   ELSE IF ~package /\ b.before THEN "retrieved" ELSE "nothing"
        mayAsk  == verifier /\ b.asking >= MailVerifyGap /\ waiting = NoVisit
    IN  IF b.seen < MailMinObservations /\ ~b.changed /\ local = "nothing"
        THEN [box |-> b, out |-> {}, ask |-> waiting]
        ELSE IF local = "nothing" /\ mayAsk
        THEN [box |-> [b EXCEPT !.asking = 0], out |-> {}, ask |-> context]
        ELSE LET done == Result(b, context, local)
             IN  [box |-> done.box, out |-> done.out, ask |-> waiting]

\* _standalone_open: an opening nobody was seen at, unless a visit just ended.
StandaloneOpen(b) ==
    IF b.ended < MailCooldown THEN [box |-> b, out |-> {}]
    ELSE LET u == [b EXCEPT !.visit = visits + 1, !.seen = 0, !.changed = TRUE, !.before = b.package]
         IN  Result(u, Context(u, TRUE), "opened_only")

\* --- a frame (_mailbox_step) -----------------------------------------------

AgedBox(b) ==
    [b EXCEPT !.lidAge = UpTo(@, MailRebase + 1), !.age = UpTo(@, MailMaxVisit + 1),
              !.ended = UpTo(@, MailCooldown), !.asking = UpTo(@, MailVerifyGap),
              !.last = [t \in Transitions |-> UpTo(@[t], MailOld(t))]]

\* The visit being checked, a frame older; what _take_answer leaves of it in
\* scene.pending, and what becomes of the record with its answer.
BeingChecked == IF asked = NoVisit THEN NoVisit ELSE [asked EXCEPT !.age = @ + 1]
StillChecked == IF mailAnswered = "no" THEN BeingChecked ELSE NoVisit
AnswerTaken  == IF mailAnswered = "no" THEN [box |-> AgedBox(box), out |-> {}]
                ELSE Result(AgedBox(box), BeingChecked, mailAnswered)

\* An outage drops a visit: what happened is unknown. Then the lid is compared.
LidSeen(reading, near, outage) ==
    LidUpdate([AnswerTaken.box EXCEPT !.visiting = @ /\ ~outage], reading, near)
LidNoted(lid) == [lid.box EXCEPT !.changed = @ \/ (lid.box.visiting /\ lid.change # "none")]

BeginVisit(b, change) ==
    [b EXCEPT !.visiting = TRUE, !.visit = visits + 1, !.age = 0, !.ended = MailCooldown,
              !.seen = 1, !.misses = 0, !.changed = change = "opened", !.before = b.package]

\* A person comes, or nobody is near and nothing is going on: the package is
\* looked for, and an opened lid is reported on its own.
IdleFrame(b, near, package, change, out) ==
    LET here == [b EXCEPT !.package = package]
        done == IF change = "opened" THEN StandaloneOpen(here) ELSE [box |-> here, out |-> {}]
    IN  /\ box' = IF near THEN BeginVisit(b, change) ELSE done.box
        /\ unsent' = IF near THEN out ELSE out \union done.out
        /\ visits' = IF box'.visit > visits THEN visits + 1 ELSE visits
        /\ visits' <= MailVisits

\* The visit goes on, is given up as too long, or ends after enough misses.
VisitFrame(b, near, package, verifier, waiting, out) ==
    LET ended == [b EXCEPT !.visiting = FALSE, !.ended = 0, !.package = package]
        done  == FinishVisit(ended, package, verifier, waiting)
    IN
    \/ /\ near
       /\ box' = [b EXCEPT !.seen = IF @ < MailMinObservations THEN @ + 1 ELSE @, !.misses = 0,
                           !.visiting = b.age <= MailMaxVisit]
       /\ unsent' = out /\ asked' = waiting
    \/ /\ ~near /\ b.misses + 1 < MailEndMisses
       /\ box' = [b EXCEPT !.misses = @ + 1]
       /\ unsent' = out /\ asked' = waiting
    \/ /\ ~near /\ b.misses + 1 >= MailEndMisses
       /\ box' = done.box
       /\ unsent' = out \union done.out /\ asked' = done.ask

\* What the detector sees: a person near the mailbox, or else what lies in it.
Sights == {"person", "package", "nothing"}

MailboxFrame(sight, reading, verifier, outage) ==
    LET near == sight = "person"
        lid  == LidSeen(reading, near, outage)
        b    == LidNoted(lid)
    IN
    /\ unsent = {}
    /\ mailAnswered # "no" \/ asked.age < MailTimeout
    /\ outage => mailMishaps < MailMishaps
    /\ IF b.visiting
       THEN /\ VisitFrame(b, near, sight = "package", verifier, StillChecked, AnswerTaken.out)
            /\ UNCHANGED visits
       ELSE /\ IdleFrame(b, near, sight = "package", lid.change, AnswerTaken.out)
            /\ asked' = StillChecked
    /\ mailAnswered' = "no"
    /\ claims' = [t \in Transitions |-> UpTo(claims[t], MailOld(t))]
    /\ spoken' = [t \in Transitions |-> UpTo(spoken[t], MailOld(t))]
    /\ mailMishaps' = IF outage THEN mailMishaps + 1 ELSE mailMishaps
    /\ UNCHANGED reported

\* --- the rest --------------------------------------------------------------

\* The vision model answers, or times out or fails; the next frame takes it.
MailboxAnswer(action) ==
    /\ unsent = {} /\ asked # NoVisit /\ mailAnswered = "no"
    /\ mailAnswered' = action
    /\ UNCHANGED <<box, asked, claims, unsent, visits, reported, spoken, mailMishaps>>

\* scene_dedup.claim, and the event, in one transaction.
WinsAnyway(e) == claims[e.what] >= 0  \* mutant: the window is not looked at
Wins(e) == claims[e.what] - e.age >= MailWindow(e.what)
MailboxEmit(e) ==
    /\ e \in unsent
    /\ unsent' = unsent \ {e}
    /\ IF Wins(e)
       THEN /\ claims' = [claims EXCEPT ![e.what] = e.age]
            /\ spoken' = [spoken EXCEPT ![e.what] = e.age]
            /\ reported' = [reported EXCEPT ![e.visit] = IF @ < 2 THEN @ + 1 ELSE @]
       ELSE UNCHANGED <<claims, spoken, reported>>
    /\ UNCHANGED <<box, asked, mailAnswered, visits, mailMishaps>>

MailMishap == mailMishaps < MailMishaps /\ mailMishaps' = mailMishaps + 1

MailboxEmitFails(e) ==
    /\ MailMishap /\ e \in unsent /\ unsent' = unsent \ {e}
    /\ UNCHANGED <<box, asked, mailAnswered, claims, visits, reported, spoken>>

\* A restart keeps the record but not the check, and its first frame is an
\* outage; a reset (reset_camera) forgets the record too.
MailboxRestart ==
    /\ MailMishap
    /\ box' \in {[box EXCEPT !.visiting = FALSE], NewBox}
    /\ asked' = NoVisit /\ mailAnswered' = "no" /\ unsent' = {}
    /\ UNCHANGED <<claims, visits, reported, spoken>>

MailboxInit ==
    /\ box = NewBox /\ asked = NoVisit /\ mailAnswered = "no" /\ unsent = {}
    /\ claims = [t \in Transitions |-> MailOld(t)]
    /\ visits = 0 /\ reported = [v \in 1..MailVisits |-> 0]
    /\ spoken = [t \in Transitions |-> MailOld(t)]
    /\ mailMishaps = 0

MailboxNext ==
    \/ \E sight \in Sights, r \in Readings, verifier, outage \in BOOLEAN :
          MailboxFrame(sight, r, verifier, outage)
    \/ \E action \in Answers : MailboxAnswer(action)
    \/ \E e \in unsent : MailboxEmit(e) \/ MailboxEmitFails(e)
    \/ MailboxRestart

MailboxSpec == MailboxInit /\ [][MailboxNext]_mailVars

\* --- properties ------------------------------------------------------------

\* Every variable has its type; an open mailbox has a reference it differs from.
MailboxTypeOK ==
    /\ visits \in 0..MailVisits /\ box.visit \in 0..visits
    /\ asked = NoVisit \/ (asked.visit \in 1..visits /\ asked.age \in 0..(MailTimeout + 1))
    /\ mailAnswered \in Answers \union {"no"} /\ (mailAnswered # "no" => asked # NoVisit)
    /\ box.open => box.ref
    /\ \A e \in unsent : e.what \in Transitions /\ e.visit \in 1..visits
    /\ claims \in [Transitions -> 0..(MailDedupe + MailCooldown + MailTimeout + 1)]

\* A visit to the mailbox becomes one event at most, whether it is judged at
\* once, by a check that is answered frames later, or after an outage.
OneEventPerVisit == \A v \in 1..MailVisits : reported[v] <= 1

\* Two events of a kind are of visits a window apart, even when the record was
\* reset or lost in between: the claim in the database is the last word.
MailboxPaced ==
    [][\A e \in unsent : reported'[e.visit] > reported[e.visit] =>
          spoken[e.what] - e.age >= MailWindow(e.what)]_mailVars

\* What the household hears of its mailbox: each visit once, and not too often.
MailIsNewsOnce == []OneEventPerVisit /\ MailboxPaced
================================================================================
