------------------------------ MODULE VboFile ------------------------------
(***************************************************************************)
(* The Racelogic VBO reader (racelogic-telemetry/src/lib.rs): rows of text *)
(* become a timeline, chunks, laps timed at the start/finish gate and a    *)
(* mapping to the linked videos.                                           *)
(*                                                                         *)
(* One action is one pass of from_slice_mode over all rows.  The file is   *)
(* fixed by Init, out collects what the reader returns.  Sections, names   *)
(* and units are left out: a row is a record of the columns read.  Times   *)
(* are ticks of a day, positions ticks along the track with the gate at 0. *)
(***************************************************************************)
EXTENDS Integers, Sequences, FiniteSets, SequencesExt, VideoTimeline

CONSTANTS
  Files,          \* the files a reader may be given
  Day,            \* ticks of a day; half of it decides a midnight
  NaN,            \* a time that is not a number
  NoFix,          \* a row without a usable position
  DefaultPeriod,  \* 100 ms, when no period is declared or seen
  MaxSpeed,       \* GATE_MAX_SPEED_MPS: a faster pair of fixes is a jump
  MaxGap,         \* 2 s: fixes further apart do not form a path
  Debounce,       \* GATE_DEBOUNCE_NS: closer crossings are one
  JumpsPerPair    \* 200: 1 / GATE_MAX_JUMP_FRACTION

VARIABLES
  file,    \* see IsFile
  phase,   \* the next pass of the reader
  out      \* what has been read

vars == <<file, phase, out>>

Rows == file.rows
Times == out.times

\* time, position with its satellite count in order, video file and its clock
\* (0 and -1 where the columns hold no number).
IsRow(row) == /\ row.time \in 0..Day - 1 \cup {NaN}
              /\ row.fix \in Int \cup {NoFix}
              /\ row.tracking \in BOOLEAN
              /\ row.clip \in Nat /\ row.pts \in Nat \cup {-1}

\* written: when each row was really written, of which the columns show the
\* time of day; period: the declared one or 0; gate: a gate is declared.
IsFile(f) == /\ f.rows \in Seq({f.rows[i] : i \in DOMAIN f.rows})
             /\ \A i \in DOMAIN f.rows : IsRow(f.rows[i])
             /\ \A i \in DOMAIN f.rows : f.rows[i].time \in {f.written[i] % Day, NaN}
             /\ f.period \in Nat /\ f.gate \in BOOLEAN

NothingRead == [times |-> << >>, period |-> 0, duration |-> 0, chunks |-> << >>,
                laps |-> << >>, fromGate |-> FALSE, segments |-> << >>]

Init == /\ file \in Files
        /\ phase = "times"
        /\ out = NothingRead

Behind(a, b) == IF b > a THEN b - a ELSE 0   \* b.saturating_sub(a)

-----------------------------------------------------------------------------
(* The timeline                                                            *)

\* Nothing is read without a row or without a first time.
HasStart == Rows # << >> /\ Rows[1].time # NaN

Refuse == /\ phase = "times" /\ ~HasStart
          /\ phase' = "refused"
          /\ UNCHANGED <<file, out>>

\* Wrong: only a time before the first is the next day's.
TimeWithoutRollover(row, first) == IF row.time = NaN THEN 0 ELSE Behind(first, row.time)

\* A time of day far before the first one belongs to the next day; a time
\* before the first, or none, is put at the start.
TimeOf(row, first) ==
    LET clock == IF 2 * row.time < 2 * first - Day THEN row.time + Day ELSE row.time
    IN  IF row.time = NaN THEN 0 ELSE Behind(first, clock)

\* The declared period, else the first step forward, else the default.
PeriodOf(times, declared) ==
    LET steps == {i \in 1..Len(times) - 1 : times[i] < times[i + 1]}
        first == CHOOSE i \in steps : \A j \in steps : i <= j
    IN  CASE declared > 0 -> declared
          [] declared = 0 /\ steps # {} -> times[first + 1] - times[first]
          [] OTHER -> DefaultPeriod

ReadTimes ==
    /\ phase = "times" /\ HasStart
    /\ LET times == [i \in DOMAIN Rows |-> TimeOf(Rows[i], Rows[1].time)]
           period == PeriodOf(times, file.period)
       IN  out' = [out EXCEPT !.times = times, !.period = period,
                              !.duration = times[Len(times)] + period]
    /\ phase' = "chunks"
    /\ UNCHANGED file

\* Only a declared period proves that rows are missing.
SplitsBefore(i) == file.period > 0 /\ Behind(Times[i - 1], Times[i]) > 3 * file.period

\* A chunk starts at the first row and at every row after a gap.
SplitChunks ==
    /\ phase = "chunks"
    /\ LET starts == SetToSortSeq({1} \cup {i \in 2..Len(Times) : SplitsBefore(i)},
                                  LAMBDA a, b : a < b)
           next(c) == IF c = Len(starts) THEN Len(Times) + 1 ELSE starts[c + 1]
       IN  out' = [out EXCEPT !.chunks =
                     [c \in 1..Len(starts) |-> [base |-> starts[c],
                                                count |-> next(c) - starts[c],
                                                at |-> Times[starts[c]]]]]
    /\ phase' = "gate"
    /\ UNCHANGED file

-----------------------------------------------------------------------------
(* Laps at the gate                                                        *)

\* The car cannot have driven from one fix to the other.
Jumps(i) == LET dt == Behind(Times[i - 1], Times[i])
                dx == Rows[i].fix - Rows[i - 1].fix
            IN  dt = 0 \/ dx > MaxSpeed * dt \/ -dx > MaxSpeed * dt

Fixed(i) == Rows[i - 1].fix # NoFix /\ Rows[i].fix # NoFix

\* The receiver is judged on every reported fix, tracking or not.
Unreliable == LET pairs == {i \in 2..Len(Rows) : Fixed(i)}
              IN  Cardinality({i \in pairs : Jumps(i)}) * JumpsPerPair > Cardinality(pairs)

\* Consecutive tracked fixes close in time form a path, and it meets the gate.
Crosses(i) ==
    LET a == Rows[i - 1].fix  b == Rows[i].fix
    IN  /\ Fixed(i) /\ Rows[i - 1].tracking /\ Rows[i].tracking
        /\ Behind(Times[i - 1], Times[i]) <= MaxGap
        /\ ~Jumps(i)
        /\ a # b /\ ((a <= 0 /\ 0 <= b) \/ (b <= 0 /\ 0 <= a))

\* The instant between the two rows, to the nearest tick.
CrossedAt(i) ==
    LET a == Rows[i - 1].fix  b == Rows[i].fix
        way == IF a < b THEN b - a ELSE a - b
        done == IF a < 0 THEN -a ELSE a
    IN  Times[i - 1] + (2 * (Times[i] - Times[i - 1]) * done + way) \div (2 * way)

\* Far enough from the last crossing kept.
Fresh(kept, at) == kept = << >> \/ Behind(Last(kept), at) >= Debounce

\* Crossings in row order, without the ones too close to the last one kept.
Crossings ==
    LET keep(kept, i) == IF Crosses(i) /\ Fresh(kept, CrossedAt(i))
                         THEN Append(kept, CrossedAt(i)) ELSE kept
    IN  FoldLeft(keep, << >>, [i \in 1..Len(Rows) - 1 |-> i + 1])

\* Laps between crossings; the ones at the edges of the recording are
\* incomplete, and empty ones are dropped but keep their number.
LapsBetween(crossings) ==
    LET bounds == <<0>> \o crossings \o
                  <<IF Last(crossings) > out.duration THEN Last(crossings) ELSE out.duration>>
        laps == [i \in 1..Len(bounds) - 1 |->
                   [number |-> i, from |-> bounds[i], to |-> bounds[i + 1],
                    complete |-> 1 < i /\ i < Len(bounds) - 1]]
    IN  SelectSeq(laps, LAMBDA lap : lap.to > lap.from)

TimeAtGate ==
    /\ phase = "gate"
    /\ IF file.gate /\ ~Unreliable /\ Crossings # << >>
       THEN out' = [out EXCEPT !.laps = LapsBetween(Crossings), !.fromGate = TRUE]
       ELSE out' = out
    /\ phase' = "video"
    /\ UNCHANGED file

-----------------------------------------------------------------------------
(* The linked videos                                                       *)

Observed(i) == Rows[i].clip > 0 /\ Rows[i].pts >= 0

\* Two rows at one instant that say the same are one observation.
Repeats(i) == /\ Times[i] = Times[i - 1] /\ Observed(i) = Observed(i - 1)
              /\ Observed(i) => Rows[i].clip = Rows[i - 1].clip /\ Rows[i].pts = Rows[i - 1].pts

\* Any other step that does not advance the clock disables the mapping.
ClockConflict == \E i \in 2..Len(Rows) : Times[i] <= Times[i - 1] /\ ~Repeats(i)

Point(i) == [at |-> Times[i], pts |-> Rows[i].pts]

\* A file roll, a clock reset or one and a half missed periods end a segment.
Continues(segment, i) ==
    /\ segment.clip = Rows[i].clip
    /\ Last(segment.points).pts <= Rows[i].pts
    /\ Behind(Last(segment.points).at, Times[i]) <= out.period + (out.period \div 2)

\* Segments so far, and whether the last one is still open: a row without an
\* observation closes it.
Segments ==
    LET none == [list |-> << >>, open |-> FALSE]
        add(so, i) ==
          IF so.open /\ Continues(Last(so.list), i)
          THEN [so EXCEPT !.list[Len(so.list)].points = Append(@, Point(i))]
          ELSE [list |-> Append(so.list, [clip |-> Rows[i].clip, points |-> <<Point(i)>>]),
                open |-> TRUE]
        read(so, i) == CASE i > 1 /\ Repeats(i) -> so
                         [] Observed(i) /\ ~(i > 1 /\ Repeats(i)) -> add(so, i)
                         [] OTHER -> [so EXCEPT !.open = FALSE]
    IN  FoldLeft(read, none, [i \in DOMAIN Rows |-> i]).list

SyncVideos ==
    /\ phase = "video"
    /\ out' = [out EXCEPT !.segments =
                 IF ~ClockConflict /\ ValidSegments(Segments) THEN Segments ELSE << >>]
    /\ phase' = "done"
    /\ UNCHANGED file

Stopped == phase \in {"done", "refused"}

Next == Refuse \/ ReadTimes \/ SplitChunks \/ TimeAtGate \/ SyncVideos

Spec == Init /\ [][Next]_vars

-----------------------------------------------------------------------------
(* Properties                                                              *)

\* A file whose rows were written in order within half a day has its rows in
\* that order on the timeline, every one at its distance from the first, also
\* when midnight falls in between (the rollover branch of from_slice_mode).
\* written[i] is when row i was really written.
MidnightUnwraps ==
    \A i \in DOMAIN Times :
        file.written[i] - file.written[1] < Day \div 2 /\ file.written[i] >= file.written[1]
            /\ Rows[i].time # NaN
        => Times[i] = file.written[i] - file.written[1]

\* Laps timed at the gate cover the recording from 0 to its end without a gap
\* or an overlap, whatever rows without a time, repeated rows or rows out of
\* order do to the clock, and a complete lap is never shorter than the
\* debounce (gate_laps).
GateLapsTile ==
    out.fromGate =>
      LET laps == out.laps
      IN  /\ laps # << >> => laps[1].from = 0 /\ Last(laps).to >= out.duration
          /\ \A i \in 1..Len(laps) - 1 : laps[i].to = laps[i + 1].from
          /\ \A i \in DOMAIN laps : /\ laps[i].from < laps[i].to
                                    /\ laps[i].complete => laps[i].to - laps[i].from >= Debounce

\* Where there is a mapping to videos, it gives every row the frame that row
\* recorded, and rows that recorded none have none, although they lie between
\* others that do; and asked back for a recorded frame it answers that row's
\* instant or that there are several, never another row's (video_timeline,
\* VideoTimeline::presentation_at and telemetry_at).
VideosHonourRows ==
    out.segments # << >> =>
      \A i \in DOMAIN Rows :
        LET shown == PresentationAt(out.segments, Times[i])
        IN  IF Observed(i)
            THEN /\ shown = [clip |-> Rows[i].clip, pts |-> Rows[i].pts]
                 /\ TelemetryAt(out.segments, Rows[i].clip, Rows[i].pts) \in {Times[i], Ambiguous}
            ELSE shown.pts = Unmapped

\* What the reader makes of the time column: the times of the rows, and the laps
\* between the rows at the gate.
ClockHolds == MidnightUnwraps /\ GateLapsTile

=============================================================================
