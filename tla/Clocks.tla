------------------------------- MODULE Clocks -------------------------------
(***************************************************************************)
(* What read_source_metadata derives from the clock and driver channels of *)
(* one recording: its place on an absolute clock, the key its sessions are *)
(* grouped by, and the stints of its drivers.                              *)
(*                                                                         *)
(* A channel is a sequence of samples [at, value]; an absent channel is    *)
(* the empty sequence and a non-finite value is NoReading.  One tick       *)
(* stands for the nanosecond, the millisecond and the second of the code's *)
(* conversions.                                                            *)
(***************************************************************************)
EXTENDS Integers, Sequences, SequencesExt, FiniteSets, FiniteSetsExt

CONSTANTS
  NoReading,      \* a NaN or infinite sample
  Week,           \* GPS_WEEK_MS
  Earliest,       \* UNIX_CLOCK_MIN_S
  Latest,         \* UNIX_CLOCK_MAX_S
  Drift,          \* tolerance of the rate of a Unix clock
  Day,            \* 86,400 s
  MinStint        \* shortest run of a driver, one second

ASSUME ClockAssumption ==
    /\ NoReading \notin Int
    /\ {Week, Day} \subseteq Nat \ {0}
    /\ {Earliest, Latest, Drift, MinStint} \subseteq Nat

Readings(channel) == SelectSeq(channel, LAMBDA s : s.value # NoReading)

(* A key orders and compares like its string: what kind of clock, the hint *)
(* (week, day or the source's own) and the hash of the channel list.       *)
NoKey == <<0, 0, 0>>
NoClock == [key |-> NoKey, start |-> 0, end |-> 0, offset |-> 0]

LexLess(a, b) ==
    \E k \in DOMAIN a : a[k] < b[k] /\ \A j \in 1 .. k - 1 : a[j] = b[j]

\* Wrong: a cold start's week is taken for the recording's.
FirstWeek(week) == Readings(week)[1].value

\* The week most samples report; among equals the one reported last.
DominantWeek(week) ==
    LET seen == Readings(week)
        At(v) == {i \in DOMAIN seen : seen[i].value = v}
        Weight(v) == <<Cardinality(At(v)), Max(At(v))>>
    IN  CHOOSE v \in {seen[i].value : i \in DOMAIN seen} :
            \A w \in {seen[i].value : i \in DOMAIN seen} :
                ~LexLess(Weight(v), Weight(w))

GpsDated(file) ==
    /\ Readings(file.week) # <<>>
    /\ file.itow # <<>>
    /\ Head(file.itow).value # NoReading
    /\ Last(file.itow).value # NoReading

GpsClock(file) ==
    LET week == DominantWeek(file.week)
        first == Head(file.itow)
        last == Last(file.itow)
        endWeek == IF last.value < first.value THEN week + 1 ELSE week
        start == week * Week + first.value
    IN  [key |-> <<1, week, file.schema>>,
         start |-> start,
         end |-> endWeek * Week + last.value,
         offset |-> start - first.at]

UnixDated(file) ==
    LET seen == Readings(file.unix)
        span == Last(seen).value - Head(seen).value
        sampled == Last(seen).at - Head(seen).at
    IN  /\ Len(seen) >= 2
        /\ \A i \in DOMAIN seen : seen[i].value \in Earliest .. Latest
        /\ \A i \in 2 .. Len(seen) : seen[i - 1].value <= seen[i].value
        /\ span - sampled \in -Drift .. Drift

UnixClock(file) ==
    LET seen == Readings(file.unix)
    IN  [key |-> <<3, Head(seen).value \div Day, file.schema>>,
         start |-> Head(seen).value,
         end |-> Last(seen).value,
         offset |-> Head(seen).value - Head(seen).at]

\* The source's own range comes first, then GPS, then a Unix channel.
DeriveClock(file) ==
    IF file.range # <<>>
    THEN [key |-> <<2, file.range[1].hint, file.schema>>,
          start |-> file.range[1].start,
          end |-> file.range[1].end,
          offset |-> file.range[1].start]
    ELSE IF GpsDated(file) THEN GpsClock(file)
    ELSE IF UnixDated(file) THEN UnixClock(file)
    ELSE NoClock

\* Runs of equal driver numbers; the last one lasts until the file ends.
IntegerRuns(channel, duration) ==
    LET seen == Readings(channel)
        changes == SetToSortSeq(
            {i \in DOMAIN seen : i = 1 \/ seen[i].value # seen[i - 1].value}, <)
    IN  [r \in DOMAIN changes |->
            [driver |-> seen[changes[r]].value,
             start |-> seen[changes[r]].at,
             end |-> IF r < Len(changes)
                     THEN seen[changes[r + 1]].at
                     ELSE Max({duration, seen[changes[r]].at})]]

\* Runs too short to be a driver are noise, unless there is only one.
DriverStints(channel, duration) ==
    LET runs == IntegerRuns(channel, duration)
    IN  SelectSeq(runs, LAMBDA r :
            /\ Len(runs) = 1 \/ r.end - r.start >= MinStint
            /\ r.driver >= 0)

=============================================================================
