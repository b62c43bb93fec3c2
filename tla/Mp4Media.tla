------------------------------ MODULE Mp4Media ------------------------------
(***************************************************************************)
(* MP4 inspection (aim-telemetry/src/video_media.rs) beside the frame      *)
(* index of the AiM reader (aim-telemetry/src/lib.rs): both derive when a  *)
(* video is shown from run-length timing tables and an edit list.          *)
(*                                                                         *)
(* The walk over the top-level boxes is one action per box.  The header    *)
(* found at a position is whatever the file has there, so a damaged size   *)
(* leads anywhere.  An 8-byte header is one unit of the file; the moov box *)
(* is the record of the tables the inspector reads from it.                *)
(***************************************************************************)
EXTENDS Integers, Sequences, FiniteSets, SequencesExt, FiniteSetsExt

CONSTANTS
  Files,      \* the files to inspect
  MaxBoxes,   \* MAX_BOXES: top-level headers read at most
  MaxMoov,    \* MAX_MOOV: the largest moov box read
  Second      \* presentation ticks of a second

VARIABLES
  file,       \* see IsFile
  phase,
  out         \* [position, boxes, moov, ftyp, streams]

vars == <<file, phase, out>>

\* The header at every position, the size of the file, and the tables of moov.
\* A header's size 0 is up to the end, 1 in the next unit, given here as large;
\* an edit's media -1 presents nothing.
IsFile(f) ==
    /\ \A p \in 0..f.size - 1 :
          p \in DOMAIN f.headers => /\ f.headers[p].size \in Nat /\ f.headers[p].large \in Nat
                                    /\ f.headers[p].kind \in {"ftyp", "moov", "moof", "mdat"}
    /\ f.moov.scale \in Nat \ {0}
    /\ \A i \in DOMAIN f.moov.tracks :
          LET t == f.moov.tracks[i]
          IN  /\ t.video \in BOOLEAN /\ t.scale \in Nat \ {0} /\ t.sizes \in Nat
              /\ \A k \in DOMAIN t.runs : t.runs[k].count \in Nat /\ t.runs[k].delta \in Nat
              /\ \A k \in DOMAIN t.offsets : t.offsets[k].count \in Nat /\ t.offsets[k].offset \in Int
              /\ \A k \in DOMAIN t.edits : t.edits[k].duration \in Nat /\ t.edits[k].media \in Int

Init == /\ file \in Files
        /\ phase = "boxes"
        /\ out = [position |-> 0, boxes |-> 0, moov |-> FALSE, ftyp |-> FALSE, streams |-> << >>]

-----------------------------------------------------------------------------
(* The walk over the boxes                                                 *)

Header == file.headers[out.position]

HeaderUnits == IF Header.size = 1 THEN 2 ELSE 1

\* The number of units the box claims, its header included.
BoxSize == CASE Header.size = 0 -> file.size - out.position
             [] Header.size = 1 -> Header.large
             [] OTHER -> Header.size

\* Every way a box is refused: too many, a truncated header, a box that ends
\* outside the file or inside its own header, fragments, a second or an
\* oversized metadata box.
Malformed ==
    \/ out.boxes >= MaxBoxes
    \/ Header.size = 1 /\ file.size - out.position < 2
    \/ out.position + BoxSize > file.size \/ BoxSize < HeaderUnits
    \/ Header.kind = "moof"
    \/ Header.kind = "moov" /\ (out.moov \/ BoxSize > MaxMoov)
    \/ Header.kind = "ftyp" /\ out.ftyp

WalkBox ==
    /\ phase = "boxes" /\ out.position < file.size
    /\ IF Malformed
       THEN phase' = "refused" /\ out' = out
       ELSE /\ phase' = phase
            /\ out' = [out EXCEPT !.position = @ + BoxSize, !.boxes = @ + 1,
                                  !.moov = @ \/ Header.kind = "moov",
                                  !.ftyp = @ \/ Header.kind = "ftyp"]
    /\ UNCHANGED file

EndOfBoxes ==
    /\ phase = "boxes" /\ out.position >= file.size
    /\ phase' = IF out.moov THEN "tracks" ELSE "refused"
    /\ UNCHANGED <<file, out>>

-----------------------------------------------------------------------------
(* Timing tables                                                           *)

\* Integer division of the code: towards zero.
Quotient(a, b) == IF a >= 0 THEN a \div b ELSE -((-a) \div b)

Ns(ticks, scale) == Quotient(ticks * Second, scale)

\* Frames in a list of runs [count, ...].
Frames(runs) == FoldSeq(LAMBDA run, n : n + run.count, 0, runs)

\* stream: a track whose tables do not fit together is refused.
TablesFit(t) ==
    /\ t.runs # << >>
    /\ \A i \in DOMAIN t.runs : t.runs[i].count > 0 /\ t.runs[i].delta > 0
    /\ t.sizes = Frames(t.runs)
    /\ \A i \in DOMAIN t.offsets : t.offsets[i].count > 0
    /\ t.offsets = << >> \/ Frames(t.offsets) = Frames(t.runs)
    /\ \A i \in DOMAIN t.edits : t.edits[i].media >= -1 /\ t.edits[i].duration > 0
    /\ t.edits = << >> \/ \E i \in DOMAIN t.edits : t.edits[i].media >= 0

\* One run of offset 0 when there is no composition table.
Offsets(t) == IF t.offsets = << >> THEN <<[count |-> Frames(t.runs), offset |-> 0]>> ELSE t.offsets

\* The merge of the two run-length tables: each pass takes the frames that
\* share a duration and an offset; the state after k passes.
Merge(t) ==
    LET offsets == Offsets(t)
        passes == Len(t.runs) + Len(offsets)
        start == [run |-> 1, offset |-> 1, taken |-> 0, composed |-> 0, decode |-> 0, pieces |-> << >>]
        pass(s) ==
          LET run == t.runs[s.run]
              offset == offsets[s.offset]
              count == Min({run.count - s.taken, offset.count - s.composed})
              next == s.decode + count * run.delta
              runDone == s.taken + count = run.count
              offsetDone == s.composed + count = offset.count
          IN  [run |-> IF runDone THEN s.run + 1 ELSE s.run,
               taken |-> IF runDone THEN 0 ELSE s.taken + count,
               offset |-> IF offsetDone THEN s.offset + 1 ELSE s.offset,
               composed |-> IF offsetDone THEN 0 ELSE s.composed + count,
               decode |-> next,
               pieces |-> Append(s.pieces, [low |-> Ns(s.decode + offset.offset, t.scale),
                                            high |-> Ns(next + offset.offset, t.scale)])]
        step(s, k) == IF s.run > Len(t.runs) THEN s ELSE pass(s)
    IN  FoldLeft(step, start, [k \in 1..passes |-> k]).pieces

\* Edits that present media: when, from where in the media, for how long.
Edits(t, movieScale) ==
    LET movieTime(i) == FoldSeq(LAMBDA e, n : n + e.duration, 0, SubSeq(t.edits, 1, i))
    IN  {[from |-> Ns(movieTime(i - 1), movieScale),
          media |-> Ns(t.edits[i].media, t.scale),
          length |-> Ns(movieTime(i), movieScale) - Ns(movieTime(i - 1), movieScale)] :
           i \in {j \in DOMAIN t.edits : t.edits[j].media >= 0}}

\* Wrong: the media time an edit starts at is not taken off.
ShownUnshifted(piece, edit) ==
    [low |-> Max({piece.low, edit.media}) + edit.from,
     high |-> Min({piece.high, edit.media + edit.length}) + edit.from]

\* What an edit shows of a piece.
Shown(piece, edit) ==
    [low |-> Max({piece.low, edit.media}) - edit.media + edit.from,
     high |-> Min({piece.high, edit.media + edit.length}) - edit.media + edit.from]

\* Without an edit list all of the media is shown.
Presented(pieces, t, movieScale) ==
    IF t.edits = << >> THEN Range(pieces)
    ELSE {s \in {Shown(p, e) : p \in Range(pieces), e \in Edits(t, movieScale)} : s.low < s.high}

Hull(shown) == [start |-> Min({s.low : s \in shown}), end |-> Max({s.high : s \in shown})]

\* The presentation extent of a track as a set, empty when nothing is shown.
Extent(t, movieScale) ==
    LET shown == Presented(Merge(t), t, movieScale)
    IN  {hull \in {Hull(shown) : none \in {{}} \ {shown}} : hull.start < hull.end}

VideoTracks == SelectSeq(file.moov.tracks, LAMBDA t : t.video)

Stream(t) == [id |-> t.id, frames |-> Frames(t.runs),
              extent |-> CHOOSE e \in Extent(t, file.moov.scale) : TRUE]

\* One bad video track refuses the file, and so do none or two of one id.
Acceptable ==
    /\ ~file.moov.fragments
    /\ VideoTracks # << >>
    /\ \A i \in DOMAIN VideoTracks : /\ TablesFit(VideoTracks[i])
                                     /\ Extent(VideoTracks[i], file.moov.scale) # {}
    /\ \A i, j \in DOMAIN VideoTracks : VideoTracks[i].id = VideoTracks[j].id => i = j

InspectTracks ==
    /\ phase = "tracks"
    /\ IF Acceptable
       THEN /\ phase' = "done"
            /\ out' = [out EXCEPT !.streams = [i \in DOMAIN VideoTracks |-> Stream(VideoTracks[i])]]
       ELSE phase' = "refused" /\ out' = out
    /\ UNCHANGED file

Stopped == phase \in {"done", "refused"}

Next == WalkBox \/ EndOfBoxes \/ InspectTracks

Spec == Init /\ [][Next]_vars

-----------------------------------------------------------------------------
(* The frame index of the AiM reader                                       *)

\* Decode time and composition offset of every frame, one by one.
DecodeTimes(t) ==
    LET add(done, run) ==
          [times |-> done.times \o [k \in 1..run.count |-> done.next + (k - 1) * run.delta],
           next |-> done.next + run.count * run.delta]
    IN  FoldLeft(add, [times |-> << >>, next |-> 0], t.runs).times

CompositionOffsets(t) ==
    FoldLeft(LAMBDA done, run : done \o [k \in 1..run.count |-> run.offset], << >>, Offsets(t))

\* presentation_offset_ns: only the first edit that presents media counts.
PresentationOffset(t, movieScale) ==
    LET first == CHOOSE i \in DOMAIN t.edits :
                   t.edits[i].media >= 0 /\ \A j \in 1..i - 1 : t.edits[j].media < 0
        empty == FoldSeq(LAMBDA e, n : n + e.duration, 0, SubSeq(t.edits, 1, first - 1))
    IN  IF t.edits = << >> THEN 0 ELSE Ns(empty, movieScale) - Ns(t.edits[first].media, t.scale)

\* video_frame_times_ns: the frames shown at or after 0, in order.
FrameTimes(t, movieScale) ==
    LET decode == DecodeTimes(t)
        offsets == CompositionOffsets(t)
        at(k) == Ns(decode[k] + offsets[k], t.scale) + PresentationOffset(t, movieScale)
    IN  SortSeq(SelectSeq([k \in 1..Frames(t.runs) |-> at(k)], LAMBDA time : time >= 0), <)

-----------------------------------------------------------------------------
(* Properties                                                              *)

\* The extent of a track is that of its frames one by one: the first instant
\* any frame is shown by any edit and the last.
ExtentIsOfFrames(t, extent) ==
    LET length == FoldSeq(LAMBDA run, n : n + run.count * run.delta, 0, t.runs)
        decode == Append(DecodeTimes(t), length)
        offsets == CompositionOffsets(t)
        frames == [k \in 1..Frames(t.runs) |-> [low |-> Ns(decode[k] + offsets[k], t.scale),
                                               high |-> Ns(decode[k + 1] + offsets[k], t.scale)]]
    IN  extent = Hull(Presented(frames, t, file.moov.scale))

\* Where at most one edit presents media and cuts nothing off, the first frame
\* of the index is shown at the start of the extent, unless that is before 0.
IndexAgrees(t, extent) ==
    LET pieces == Range(Merge(t))
        edits == Edits(t, file.moov.scale)
        uncut == \A e \in edits, p \in pieces :
                    e.media <= p.low /\ p.high <= e.media + e.length
        times == FrameTimes(t, file.moov.scale)
    IN  uncut /\ Cardinality(edits) <= 1 /\ extent.start >= 0
        => times # << >> /\ times[1] = extent.start

\* The extent of a track is that of its frames one by one, however the runs
\* of its timing tables overlap and whatever its edits cut off (the merge loop
\* of stream); and the two readers of one video agree on when it is first
\* shown (stream, video_frame_times_ns).
PresentationIsOfFrames ==
    phase = "done" =>
      \A i \in DOMAIN VideoTracks :
        LET t == VideoTracks[i]  extent == out.streams[i].extent
        IN  ExtentIsOfFrames(t, extent) /\ IndexAgrees(t, extent)

=============================================================================
