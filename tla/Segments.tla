-------------------------------- MODULE Segments --------------------------------
(***************************************************************************)
(* The stream reader of one camera (app/services/stream_frames.py) and the *)
(* capture of a clip from its buffer (_collect of incident_clips.py).      *)
(*                                                                         *)
(* The relay's muxer publishes numbered segments and lists the last few of *)
(* them; a poll looks at the list, then downloads, and both take time. A   *)
(* muxer that starts again numbers from 0, and its init is the one before  *)
(* or another. Every segment has size 1. How long a reader waits after a   *)
(* failure, and where it finds the list, are left out.                     *)
(***************************************************************************)
EXTENDS Integers, Sequences, SequencesExt

CONSTANTS
    SgListed,     \* segments in the media playlist
    SgPad,        \* EXT-X-GAP entries at the beginning of a muxer's numbers
    SgCatchup,    \* _MAX_CATCHUP_SEGMENTS
    SgBuffer,     \* segments the clip buffer may hold
    SgClipMax,    \* incident_clip_max_bytes, in segments
    SgSegments,   \* bound: segments published
    SgMishaps     \* bound: restarts of the muxer, and new or released readers

ASSUME SegmentsAssumption ==
    /\ {SgListed, SgCatchup, SgBuffer, SgClipMax} \subseteq Nat \ {0}
    /\ {SgPad, SgSegments, SgMishaps} \subseteq Nat

VARIABLES
    muxer,      \* its life, the number of its next segment, its init
    published,  \* history: segments published over all lives
    sgReader,     \* the camera's reader: generation, task, latest sample and buffer
    clipTask,   \* the capture: its state, the reader it uses, its segments
    sgMishaps

segmentVars == <<muxer, published, sgReader, clipTask, sgMishaps>>

NoSegment == [life |-> 0, seq |-> 0, init |-> "none", at |-> 0]
NoReader  == [gen |-> 0, pc |-> "over", latest |-> NoSegment, stale |-> TRUE,
              buffer |-> <<>>, wanted |-> <<>>]
NoClip    == [pc |-> "none", gen |-> 0, segments |-> <<>>]
Newest(n, s) == IF Len(s) <= n THEN s ELSE SubSeq(s, Len(s) - n + 1, Len(s))

\* Those of a list that are numbered above n. The numbers grow.
Above(list, n) ==
    SubSeq(list, CHOOSE k \in 1..(Len(list) + 1) : \A i \in 1..Len(list) : i >= k <=> list[i].seq > n,
           Len(list))

\* --- the relay ---------------------------------------------------------------

\* media_segments: the listed segments, without the gaps.
Playlist == Above(muxer.list, SgPad - 1)

Publish ==
    /\ published < SgSegments /\ published' = published + 1
    /\ muxer' = [muxer EXCEPT !.next = @ + 1,
                    !.list = Newest(SgListed, Append(@, [life |-> muxer.life, seq |-> muxer.next,
                                                         init |-> muxer.init, at |-> published]))]
    /\ UNCHANGED <<sgReader, clipTask, sgMishaps>>

SgMishap == sgMishaps < SgMishaps /\ sgMishaps' = sgMishaps + 1

MuxerRestarts ==
    /\ SgMishap
    /\ \E init \in {"one", "other"} :
         muxer' = [life |-> muxer.life + 1, next |-> 0, init |-> init, list |-> <<>>]
    /\ UNCHANGED <<published, sgReader, clipTask>>

\* --- the reader (fetch_once) ---------------------------------------------------

Consecutive(s) == \A i \in 1..(Len(s) - 1) : s[i + 1].seq = s[i].seq + 1
Missing(last)  == Above(Playlist, last.seq)

\* The segments since the last poll follow it without a hole, and are few.
CatchesUp(last) ==
    LET missing == Missing(last) IN
    /\ last.init = muxer.init
    /\ missing # <<>> /\ Consecutive(<<last>> \o missing)
    /\ Len(missing) <= SgCatchup

\* Nothing to do when the newest segment is known. The buffer is gone when the
\* newest segment does not continue it.
Poll ==
    /\ sgReader.pc = "poll" /\ Playlist # <<>> /\ sgReader.latest # Last(Playlist)
    /\ LET goesOn == sgReader.buffer # <<>> /\ CatchesUp(Last(sgReader.buffer))
       IN  sgReader' = [sgReader EXCEPT !.pc = "fetch",
                         !.buffer = IF goesOn THEN @ ELSE <<>>,
                         !.wanted = IF goesOn THEN Missing(Last(sgReader.buffer)) ELSE <<Last(Playlist)>>]
    /\ UNCHANGED <<muxer, published, clipTask, sgMishaps>>

\* Downloaded and decoded, while the muxer still has the segments. A segment of the
\* wrong kind or too large empties the buffer; what is too old, or too much, leaves it
\* at its front.
SgFetched ==
    /\ sgReader.pc = "fetch" /\ Last(sgReader.wanted).life = muxer.life
    /\ \E bad \in 0..Len(sgReader.wanted) :
         LET all  == sgReader.buffer \o sgReader.wanted
             good == IF bad = 0 THEN all ELSE SubSeq(sgReader.wanted, bad + 1, Len(sgReader.wanted))
         IN  \E n \in 1..SgBuffer :
               sgReader' = [sgReader EXCEPT !.pc = "poll", !.buffer = Newest(n, good), !.wanted = <<>>,
                                        !.latest = Last(sgReader.wanted), !.stale = FALSE]
    /\ UNCHANGED <<muxer, published, clipTask, sgMishaps>>

\* No playlist, an empty one, a segment that is gone, an undecodable one.
PollFails ==
    /\ sgReader.pc \in {"poll", "fetch"}
    /\ sgReader' = [sgReader EXCEPT !.pc = "poll", !.buffer = <<>>, !.wanted = <<>>]
    /\ UNCHANGED <<muxer, published, clipTask, sgMishaps>>

\* stream_frame_max_age_seconds without a new sample.
GrowsStale ==
    /\ ~sgReader.stale /\ sgReader' = [sgReader EXCEPT !.stale = TRUE]
    /\ UNCHANGED <<muxer, published, clipTask, sgMishaps>>

\* Nobody asked for a frame for a while, or the stream is not readable.
ReaderStops ==
    /\ sgReader.pc = "poll" /\ sgReader' = [sgReader EXCEPT !.pc = "over"]
    /\ UNCHANGED <<muxer, published, clipTask, sgMishaps>>

\* ensure: a new reader, unless one is running.
Ensure ==
    /\ sgReader.pc = "over" /\ SgMishap
    /\ sgReader' = [NoReader EXCEPT !.gen = sgMishaps + 1, !.pc = "poll"]
    /\ UNCHANGED <<muxer, published, clipTask>>

\* release: this replica no longer reads the camera.
Release ==
    /\ sgReader.gen # 0 /\ SgMishap /\ sgReader' = NoReader
    /\ UNCHANGED <<muxer, published, clipTask>>

\* --- a clip (seed, capture, _collect) -------------------------------------------

\* clip_segments
Offered == IF sgReader.gen = 0 \/ sgReader.stale THEN <<>> ELSE sgReader.buffer

\* Detection: the pre-roll is frozen, and the capture begins after the enrichment.
Seed ==
    /\ clipTask.pc = "none"
    /\ \E n \in 1..Len(Offered) :
         clipTask' = [NoClip EXCEPT !.pc = "seeded", !.segments = Newest(n, Offered)]
    /\ UNCHANGED <<muxer, published, sgReader, sgMishaps>>

Capture ==
    /\ clipTask.pc = "seeded"
    /\ clipTask' = IF sgReader.gen = 0 \/ Len(clipTask.segments) > SgClipMax
                   THEN [clipTask EXCEPT !.pc = "failed"]
                   ELSE [clipTask EXCEPT !.pc = "collect", !.gen = sgReader.gen]
    /\ UNCHANGED <<muxer, published, sgReader, sgMishaps>>

\* Each segment follows the one before, or there is a gap.
FollowsAnyway(last, s) == s.init = last.init  \* mutant: the number is not compared
Follows(last, s) == s.seq = last.seq + 1 /\ s.init = last.init
Gapless(s) == \A i \in 1..(Len(s) - 1) : Follows(s[i], s[i + 1])

\* A round of the capture; it ends with enough post-roll, or without.
Collect ==
    /\ clipTask.pc = "collect"
    /\ LET longer == clipTask.segments \o Above(Offered, Last(clipTask.segments).seq)
           taken  == /\ sgReader.gen = clipTask.gen /\ Offered # <<>>
                     /\ Gapless(longer) /\ Len(longer) <= SgClipMax
       IN  IF taken
           THEN \E end \in {"collect", "video", "failed"} :
                  clipTask' = [clipTask EXCEPT !.pc = end, !.segments = longer]
           ELSE clipTask' = [clipTask EXCEPT !.pc = "failed"]
    /\ UNCHANGED <<muxer, published, sgReader, sgMishaps>>

SegmentsInit ==
    /\ muxer = [life |-> 1, next |-> 0, init |-> "one", list |-> <<>>] /\ published = 0
    /\ sgReader = [NoReader EXCEPT !.gen = SgMishaps + 1, !.pc = "poll"]
    /\ clipTask = NoClip /\ sgMishaps = 0

SegmentsNext ==
    \/ Publish \/ MuxerRestarts
    \/ Poll \/ SgFetched \/ PollFails \/ GrowsStale \/ ReaderStops
    \/ Ensure \/ Release \/ Seed \/ Capture \/ Collect

SegmentsSpec == SegmentsInit /\ [][SegmentsNext]_segmentVars

\* --- properties -------------------------------------------------------------------

\* Every variable has its type.
SegmentsTypeOK ==
    /\ published \in 0..SgSegments /\ sgMishaps \in 0..SgMishaps
    /\ muxer.next \in 0..SgSegments /\ Len(muxer.list) <= SgListed
    /\ sgReader.pc \in {"over", "poll", "fetch"} /\ Len(sgReader.buffer) <= SgBuffer
    /\ sgReader.pc = "fetch" <=> sgReader.wanted # <<>>
    /\ clipTask.pc \in {"none", "seeded", "collect", "video", "failed"}
    /\ Len(clipTask.segments) <= SgBuffer + SgClipMax

\* A clip never jumps over footage that the relay published and the reader missed
\* (fetch_once and _collect): its segments share one init and each follows the one
\* before, unless the muxer itself started again in between.
NoSplice ==
    \A i \in 1..(Len(clipTask.segments) - 1) :
        LET s == clipTask.segments[i]
            t == clipTask.segments[i + 1]
        IN  s.init = t.init /\ (s.life = t.life => t.at = s.at + 1)
================================================================================
