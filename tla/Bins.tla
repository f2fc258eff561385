--------------------------------- MODULE Bins ----------------------------------
(***************************************************************************)
(* One bin zone (the bin half of app/services/scene_state.py) against the  *)
(* bin that is really there: baseline, candidate change, the check with    *)
(* the vision model, and what is decided from its answer.                  *)
(*                                                                         *)
(* A signature is abstracted to the look of the zone it was taken of.      *)
(* bin_local_labels is empty, as it is by default, so presence comes from  *)
(* the vision model, which answers truly when it answers.                  *)
(***************************************************************************)
EXTENDS Integers

CONSTANTS
    Looks,            \* what the zone can look like
    EmptyLooks,       \* ... those without a bin
    BinConfirm,       \* bin_change_confirm_checks
    BinInteraction,   \* bin_interaction_window_seconds, in frames
    BinDedupe,        \* bin_dedupe_seconds, in frames
    BinTimeout,       \* how long a check can take, in frames
    RemovalCounts,    \* bin_removal_counts_as_emptied
    BinOutages,       \* bound: outages
    BinMishaps        \* bound: restarts and resets

ASSUME BinAssumption ==
    /\ EmptyLooks \subseteq Looks /\ RemovalCounts \in BOOLEAN
    /\ {BinConfirm, BinInteraction, BinDedupe, BinTimeout} \subseteq Nat \ {0}
    /\ {BinOutages, BinMishaps} \subseteq Nat

VARIABLES
    look,        \* the world: what the zone looks like
    bin,         \* the zone's record: state and data
    binPicture,     \* crops["before"]: what the kept picture shows, or None
    candidate,   \* scene.pending of the zone: the change being checked, or None
    binAnswer,   \* "no" until the check is done, then its answer
    dark,        \* history: outages so far; a picture is of the time between two
    away,        \* history: the zone was without a bin since the last placed_out
    said,        \* the transition of the last frame
    binMishaps

binVars == <<look, bin, binPicture, candidate, binAnswer, dark, away, said, binMishaps>>

None == [look |-> "none"]
Present(l) == l \in Looks \ EmptyLooks
Shot(l, t) == [look |-> l, taken |-> t]
BinNever   == BinDedupe + BinTimeout + 1

NewBin == [state |-> "unknown", baseline |-> None, pending |-> None, count |-> 0, stale |-> FALSE,
           by |-> "nobody", age |-> 0, placed |-> BinNever, emptied |-> BinNever]

\* --- interactions ----------------------------------------------------------

\* A collection vehicle is remembered over a person seen after it.
BinRecent(b) == b.by # "nobody" /\ b.age < BinInteraction
Interaction(b, who) ==
    IF who = "nobody" THEN b
    ELSE [b EXCEPT !.age = 0, !.by = IF BinRecent(b) /\ @ = "truck" THEN @ ELSE who]

\* --- the decision (_bin_decide, _bin_transition) ----------------------------

\* Presence now and before, from the answer or from the record.
NowState(c, answer) ==
    IF answer = "failed" THEN "unknown" ELSE IF Present(c.shot.look) THEN "present" ELSE "absent"
BeforeState(c, answer) ==
    IF c.before # "unknown" \/ answer = "failed" \/ binPicture = None THEN c.before
    ELSE IF Present(binPicture.look) THEN "present" ELSE "absent"

\* The bin moved or was tipped between the two pictures, as far as they show.
TippedIn(c) == binPicture # None /\ Present(binPicture.look) /\ binPicture.look # c.shot.look

PlacedOutIfUnknown(now, before) ==  \* mutant: not known to be there counts as away
    now = "present" /\ before # "present"
PlacedOut(now, before) == now = "present" /\ before = "absent"
Emptied(b, c, now, before, answer) ==
    /\ before = "present" /\ b.by # "nobody" /\ b.age - c.age < BinInteraction /\ ~b.stale
    /\ \/ now = "present" /\ (b.by = "truck" \/ (answer = "true" /\ TippedIn(c)))
       \/ now = "absent" /\ RemovalCounts /\ b.by = "truck"

StateAfter(b, now, before) ==
    IF now # "unknown" THEN now ELSE IF b.state = "unknown" THEN before ELSE b.state

Decide(b, c, answer) ==
    LET now    == NowState(c, answer)
        before == BeforeState(c, answer)
        placed == PlacedOut(now, before) /\ b.placed - c.age >= BinDedupe
        empty  == ~PlacedOut(now, before) /\ Emptied(b, c, now, before, answer)
                    /\ b.emptied - c.age >= BinDedupe
    IN  [box  |-> [b EXCEPT !.state = StateAfter(b, now, before),
                            !.baseline = c.shot, !.pending = None, !.count = 0, !.stale = FALSE,
                            !.by = IF @ # "nobody" /\ b.age - c.age < BinInteraction THEN "nobody" ELSE @,
                            !.placed = IF placed THEN c.age ELSE @,
                            !.emptied = IF empty THEN c.age ELSE @],
         said |-> IF placed THEN [what |-> "placed_out", from |-> b.baseline, to |-> c.shot]
                  ELSE IF empty THEN [what |-> "emptied", from |-> b.baseline, to |-> c.shot]
                  ELSE [what |-> "nothing"]]

\* --- a frame (_bin_step) ----------------------------------------------------

BinUpTo(age, cap) == IF age + 1 > cap THEN cap ELSE age + 1
AgedBin(b) == [b EXCEPT !.age = IF b.by = "nobody" THEN 0 ELSE BinUpTo(@, BinInteraction + BinTimeout + 1),
                        !.placed = BinUpTo(@, BinNever), !.emptied = BinUpTo(@, BinNever)]

\* What changed while the camera was dark has no timeline.
AfterOutage(b) ==
    IF b.baseline = None THEN b ELSE [b EXCEPT !.stale = TRUE, !.pending = None, !.count = 0]

\* The comparison with the baseline: a first picture, no change, or a change
\* seen count times alike, which is checked once it was seen often enough.
Compared(b, shot) ==
    IF b.baseline = None THEN [b EXCEPT !.baseline = shot]
    ELSE IF b.baseline.look = shot.look THEN [b EXCEPT !.pending = None, !.count = 0]
    ELSE IF b.pending.look = shot.look THEN [b EXCEPT !.count = IF @ < BinConfirm THEN @ + 1 ELSE @]
    ELSE [b EXCEPT !.pending = shot, !.count = 1]

\* who is at the bin; compares, the zone is in sight, gives a signature and is due
\* for a check; ask, the verifier may be asked (scene_verifier_min_interval_seconds).
BinFrame(who, compares, ask, outage) ==
    LET aged == AgedBin(bin)
        b    == Interaction(IF outage THEN AfterOutage(aged) ELSE aged, who)
        t    == IF outage THEN dark + 1 ELSE dark
        c    == IF candidate = None THEN None ELSE [candidate EXCEPT !.age = @ + 1]
        seen == Compared(b, Shot(look, t))
    IN
    /\ outage => dark < BinOutages
    /\ dark' = t
    /\ who = "person" => ~compares
    /\ candidate # None => binAnswer # "no" \/ candidate.age < BinTimeout
    /\ \/ /\ candidate # None /\ binAnswer = "no"
          /\ bin' = b /\ candidate' = c
          /\ said' = [what |-> "nothing"]
          /\ UNCHANGED <<binPicture, binAnswer>>
       \/ /\ candidate # None /\ binAnswer # "no"
          /\ bin' = Decide(b, c, binAnswer).box
          /\ said' = Decide(b, c, binAnswer).said
          /\ binPicture' = c.shot /\ candidate' = None /\ binAnswer' = "no"
       \/ /\ candidate = None /\ ~compares
          /\ bin' = b
          /\ said' = [what |-> "nothing"]
          /\ UNCHANGED <<binPicture, candidate, binAnswer>>
       \/ /\ candidate = None /\ compares
          /\ bin' = seen
          /\ said' = [what |-> "nothing"]
          /\ binPicture' = IF b.baseline = None \/ (binPicture = None /\ b.baseline.look = look)
                        THEN Shot(look, t) ELSE binPicture
          /\ candidate' = IF seen.count >= BinConfirm /\ ask
                          THEN [look |-> look, shot |-> Shot(look, t), before |-> b.state, age |-> 0]
                          ELSE None
          /\ UNCHANGED binAnswer
    /\ away' = IF said'.what = "placed_out" THEN ~Present(look) ELSE away
    /\ UNCHANGED <<look, binMishaps>>

\* --- the rest, and the world -------------------------------------------------

BinAnswers(a) ==
    /\ candidate # None /\ binAnswer = "no"
    /\ binAnswer' = a
    /\ UNCHANGED <<look, bin, binPicture, candidate, dark, away, said, binMishaps>>

\* A restart loses the check and the pictures, and its first frame is an outage;
\* a reset loses the record too.
BinRestart ==
    /\ binMishaps < BinMishaps /\ binMishaps' = binMishaps + 1
    /\ bin' \in {AfterOutage(bin), NewBin}
    /\ binPicture' = None /\ candidate' = None /\ binAnswer' = "no"
    /\ dark' = dark + 1
    /\ UNCHANGED <<look, away, said>>

Happens(l) ==
    /\ l # look /\ look' = l
    /\ away' = (away \/ ~Present(l))
    /\ UNCHANGED <<bin, binPicture, candidate, binAnswer, dark, said, binMishaps>>

BinInit ==
    /\ look \in Looks /\ bin = NewBin /\ binPicture = None /\ candidate = None
    /\ binAnswer = "no" /\ dark = 0 /\ away = ~Present(look)
    /\ said = [what |-> "nothing"] /\ binMishaps = 0

BinNext ==
    \/ \E who \in {"nobody", "person", "truck"}, compares, ask, outage \in BOOLEAN :
          BinFrame(who, compares, ask, outage)
    \/ \E a \in {"true", "failed"} : BinAnswers(a)
    \/ BinRestart
    \/ \E l \in Looks : Happens(l)

BinSpec == BinInit /\ [][BinNext]_binVars

\* --- properties --------------------------------------------------------------

\* Every variable has its type; a candidate needs a baseline to differ from.
BinTypeOK ==
    /\ look \in Looks /\ bin.state \in {"unknown", "present", "absent"}
    /\ bin.by \in {"nobody", "person", "truck"} /\ bin.count \in 0..BinConfirm
    /\ bin.count > 0 <=> bin.pending # None
    /\ bin.baseline = None => bin.pending = None /\ ~bin.stale
    /\ candidate # None => bin.baseline # None
    /\ dark \in 0..(BinOutages + BinMishaps)

\* A bin is announced as put out only if the zone was without it since the last
\* announcement, although presence is judged from pictures taken earlier, in a
\* record that a restart or a reset may have emptied (_bin_transition).
PlacedOutWasAway == [][said' # said /\ said'.what = "placed_out" => away]_binVars
================================================================================
