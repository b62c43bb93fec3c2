--------------------------- MODULE DocumentHeader ---------------------------
(***************************************************************************)
(* What the header of a JSONL document carries besides its channels: the   *)
(* clock, the linked videos with their frames and synchronisation, and the *)
(* passes applied (telemetry-format/src/jsonl, write.rs and read.rs).  A   *)
(* recording is written, read, written again and read again.               *)
(*                                                                         *)
(* An optional value is << >> or <<value>>.                                *)
(***************************************************************************)
EXTENDS VideoTimeline, SequencesExt, FiniteSetsExt

CONSTANTS
  Originals,   \* recordings to write, see IsOriginal
  Word,        \* 2^32
  Generations, \* how often a recording is written
  LastInstant

VARIABLES original, current, header, generation, phase

vars == <<original, current, header, generation, phase>>

Nothing == << >>

IsOptional(v) == Len(v) <= 1

IsOriginal(r) ==
    /\ IsOptional(r.offset) /\ IsOptional(r.frames) /\ IsOptional(r.clock.offset)
    /\ r.segments = << >> \/ ValidSegments(r.segments)
    /\ \A i \in DOMAIN r.videos : IsOptional(r.videos[i].offset) /\ r.videos[i].index \in Nat

-----------------------------------------------------------------------------
(* Writing                                                                 *)

\* Wrong: the clock of the first reading is written as that of time zero.
AbsOfFirst(clock) == IF clock.name = "" THEN Nothing ELSE clock.start

\* The reading at time zero; the first reading where that has none or would be
\* negative.
Abs(clock) ==
    IF clock.name = "" THEN Nothing
    ELSE IF clock.offset # Nothing /\ clock.offset[1] >= 0 THEN clock.offset ELSE clock.start

ClockFields(clock) ==
    IF Abs(clock) = Nothing THEN [name |-> "", abs |-> Nothing, abe |-> Nothing]
    ELSE [name |-> clock.name, abs |-> Abs(clock), abe |-> clock.end]

\* The frames counted are those of the first video, and a video without an
\* offset has the recording's.  A recording with frames and no video is one.
LinkedVideos(r) ==
    LET itself == [name |-> r.file, index |-> 1, frames |-> 0, offset |-> r.offset]
        videos == IF r.frames = Nothing \/ r.videos # << >> THEN r.videos
                  ELSE IF r.file = "" THEN << >> ELSE <<itself>>
        counted == IF r.frames = Nothing \/ videos = << >> THEN videos
                   ELSE [videos EXCEPT ![1].frames = r.frames[1]]
    IN  [i \in DOMAIN counted |->
           IF counted[i].offset = Nothing THEN [counted[i] EXCEPT !.offset = r.offset] ELSE counted[i]]

\* One video of that index.
IsCatalogued(index, videos) == Cardinality({i \in DOMAIN videos : videos[i].index = index}) = 1

Writable(r) == \A s \in ToSet(r.segments) : IsCatalogued(s.clip, LinkedVideos(r))

\* Frames and segments are written behind a list of videos only.
Header(r) ==
    LET videos == LinkedVideos(r)
    IN  [clock |-> ClockFields(r.clock), dur |-> r.duration, vo |-> r.offset, vf |-> videos,
         vpts |-> IF videos = << >> THEN << >> ELSE r.times,
         vmap |-> IF videos = << >> THEN << >> ELSE r.segments,
         passes |-> r.passes]

-----------------------------------------------------------------------------
(* Reading                                                                 *)

VideosRead(h) ==
    /\ \A i \in DOMAIN h.vf : h.vf[i].name # "" /\ h.vf[i].index < Word
    /\ h.vpts # << >> => h.vf # << >>
    /\ \A i \in 1..Len(h.vpts) - 1 : h.vpts[i] <= h.vpts[i + 1]

TimelineReads(h) ==
    /\ \A s \in ToSet(h.vmap) : s.clip > 0 /\ IsCatalogued(s.clip, h.vf)
    /\ h.vmap # << >> => ValidSegments(h.vmap)

PassesRead(h) == \A i \in DOMAIN h.passes : h.passes[i].name # ""

\* A range without an end lasts as long as the recording.
Clock(h) ==
    IF h.clock.name = "" \/ h.clock.abs = Nothing
    THEN [name |-> "", offset |-> Nothing, start |-> Nothing, end |-> Nothing]
    ELSE [name |-> h.clock.name, offset |-> h.clock.abs, start |-> h.clock.abs,
          end |-> IF h.clock.abe = Nothing THEN <<h.clock.abs[1] + h.dur>> ELSE h.clock.abe]

\* A version is cut to 32 bits.
Provenance(h) == [i \in DOMAIN h.passes |-> [h.passes[i] EXCEPT !.version = @ % Word]]

Opened(h) ==
    [file |-> "mtj", clock |-> Clock(h), duration |-> h.dur, offset |-> h.vo, videos |-> h.vf,
     times |-> h.vpts, frames |-> IF h.vpts = << >> THEN Nothing ELSE <<Len(h.vpts)>>,
     segments |-> h.vmap, passes |-> Provenance(h)]

-----------------------------------------------------------------------------
(* What a recording answers about an instant                               *)

PresentationTime(r, time) ==
    IF r.segments # << >>
    THEN LET pts == PresentationAt(r.segments, time).pts
         IN  IF pts = Unmapped THEN Nothing ELSE <<pts>>
    ELSE IF r.offset = Nothing \/ time + r.offset[1] < 0 THEN Nothing ELSE <<time + r.offset[1]>>

FrameAt(r, time) ==
    LET stamp == PresentationTime(r, time)
    IN  IF r.times = << >> \/ stamp = Nothing THEN Nothing
        ELSE <<Max({UpTo(r.times, stamp[1]) - 1, 0})>>

VideoReferenceAt(r, time) ==
    [file |-> IF r.segments = << >> THEN 0 ELSE PresentationAt(r.segments, time).clip,
     time |-> PresentationTime(r, time), frame |-> FrameAt(r, time)]

-----------------------------------------------------------------------------
Init ==
    /\ original \in Originals /\ current = original
    /\ header = << >> /\ generation = 0 /\ phase = "open"

WriteHeader ==
    /\ phase = "open" /\ generation < Generations
    /\ generation' = generation + 1
    /\ IF Writable(current) THEN header' = Header(current) /\ phase' = "written"
       ELSE phase' = "refused" /\ UNCHANGED header
    /\ UNCHANGED <<original, current>>

ReadHeader ==
    /\ phase = "written"
    /\ IF VideosRead(header) /\ TimelineReads(header) /\ PassesRead(header)
       THEN current' = Opened(header) /\ phase' = "open"
       ELSE phase' = "unreadable" /\ UNCHANGED current
    /\ UNCHANGED <<original, header, generation>>

Next == WriteHeader \/ ReadHeader

-----------------------------------------------------------------------------
(* Property                                                                *)

Sound(r) ==
    /\ \A i \in DOMAIN r.videos : r.videos[i].name # ""
    /\ \A i \in 1..Len(r.times) - 1 : r.times[i] <= r.times[i + 1]
    /\ \A s \in ToSet(r.segments) : IsCatalogued(s.clip, r.videos)

Told(r) == {<<r.videos[i].name, r.videos[i].index>> : i \in DOMAIN r.videos}

\* However often a recording is written and read again, every instant has the
\* clock reading, the video and the frame it had, no linked video is lost or
\* renamed, and the passes on record are the same (write_header, write_videos,
\* write_passes, parse_header_line, video_reference_at).  A clock that reads
\* below zero at time zero is left out.
RereadAnswersAlike ==
    Sound(original) /\ generation > 0 =>
      /\ phase \notin {"refused", "unreadable"}
      /\ phase = "open" =>
           /\ \A time \in 0..LastInstant :
                VideoReferenceAt(current, time) = VideoReferenceAt(original, time)
           /\ original.clock.name # "" /\ original.clock.offset[1] >= 0 =>
                /\ current.clock.name = original.clock.name
                /\ current.clock.offset = original.clock.offset
                /\ original.clock.end # Nothing => current.clock.end = original.clock.end
           /\ Told(original) \subseteq Told(current)
           /\ [i \in DOMAIN current.passes |-> current.passes[i].name]
                = [i \in DOMAIN original.passes |-> original.passes[i].name]
           /\ \A i \in DOMAIN original.passes :
                original.passes[i].version < Word => current.passes[i] = original.passes[i]

=============================================================================
