--------------------------- MODULE VideoTimeline ---------------------------
(***************************************************************************)
(* The mapping between telemetry time and presentation time of linked      *)
(* videos (telemetry-core/src/video.rs): validated segments of             *)
(* observations, looked up in both directions by interpolation within one  *)
(* segment and never outside it.                                           *)
(*                                                                         *)
(* A point is [at |-> telemetry time, pts |-> presentation time]; a        *)
(* segment is [clip |-> video index, points |-> sequence of points]. Both  *)
(* times are natural numbers in one tick; the overflow checks of the 64    *)
(* bit axes are left out.                                                  *)
(***************************************************************************)
EXTENDS Integers, Sequences, FiniteSets

\* The two errors of a lookup; every time is a natural number.
Unmapped  == -1
Ambiguous == -2

\* VideoTimeline::from_segments accepts exactly these segment lists.
ValidSegment(segment) ==
    /\ segment.points # << >>
    /\ segment.clip > 0
    /\ \A i \in 1..Len(segment.points) - 1 :
          /\ segment.points[i].at < segment.points[i + 1].at
          /\ segment.points[i].pts <= segment.points[i + 1].pts

ValidSegments(segments) ==
    /\ segments # << >>
    /\ \A i \in 1..Len(segments) : ValidSegment(segments[i])
    /\ \A i \in 1..Len(segments) - 1 :
          segments[i].points[Len(segments[i].points)].at < segments[i + 1].points[1].at

\* slice::partition_point on an ascending sequence of keys.
Before(keys, key) == Cardinality({i \in 1..Len(keys) : keys[i] < key})

\* Wrong: a key that is there is not counted.
UpToOpen(keys, key) == Cardinality({i \in 1..Len(keys) : keys[i] < key})

UpTo(keys, key) == Cardinality({i \in 1..Len(keys) : keys[i] <= key})

\* The key itself, or a point between its neighbours rounded to the nearest
\* tick; equal neighbours have no unique point between them.
Interpolate(inputs, outputs, key) ==
    LET after == Before(inputs, key) + 1
        width == inputs[after] - inputs[after - 1]
    IN  CASE after <= Len(inputs) /\ inputs[after] = key -> outputs[after]
          [] after > Len(inputs) \/ after = 1 -> Unmapped
          [] OTHER -> outputs[after - 1]
                        + ((key - inputs[after - 1]) * (outputs[after] - outputs[after - 1])
                            + (width \div 2)) \div width

Ats(segment) == [i \in 1..Len(segment.points) |-> segment.points[i].at]
Ptss(segment) == [i \in 1..Len(segment.points) |-> segment.points[i].pts]

\* presentation_at: only the last segment that starts by then is asked.
PresentationAt(segments, time) ==
    LET last == UpTo([i \in 1..Len(segments) |-> segments[i].points[1].at], time)
    IN  IF last = 0 THEN [clip |-> 0, pts |-> Unmapped]
        ELSE [clip |-> segments[last].clip,
              pts |-> Interpolate(Ats(segments[last]), Ptss(segments[last]), time)]

\* telemetry_at: every segment of the clip is asked, in order; one that shows
\* the frame twice ends the search, and so does a second answer.
TelemetryAt(segments, clip, pts) ==
    LET shown(segment) == UpTo(Ptss(segment), pts) - Before(Ptss(segment), pts)
        answer(segment) == Interpolate(Ptss(segment), Ats(segment), pts)
        clips == {i \in 1..Len(segments) : segments[i].clip = clip}
        found == {i \in clips : answer(segments[i]) # Unmapped}
    IN  CASE \E i \in clips : shown(segments[i]) > 1 -> Ambiguous
          [] Cardinality(found) > 1 -> Ambiguous
          [] found = {} -> Unmapped
          [] OTHER -> answer(segments[CHOOSE i \in found : TRUE])

=============================================================================
