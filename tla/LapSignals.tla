------------------------------ MODULE LapSignals ------------------------------
(***************************************************************************)
(* Which signals of a recording its laps are recovered from, in            *)
(* telemetry-core/src/laps.rs: the lap counter that is believed            *)
(* (select_lap_counter) and the instants at which the running lap timer    *)
(* starts over (timer_reset_laps_observed).  Walking a counter is in       *)
(* LapRecovery, making laps of the resets in LapPublication.               *)
(*                                                                         *)
(* A recording carries what happened beside what was logged: the beacons   *)
(* the car passed and the samples its timer read zero at.                  *)
(***************************************************************************)
EXTENDS Integers, Sequences, FiniteSets, SequencesExt, FiniteSetsExt

CONSTANTS
  Recordings,   \* see IsRecording
  MinDrop,      \* 5 s: a smaller drop is no reset
  Latency,      \* 2 s: how late a dash may show a new lap
  Confirm,      \* RESET_CONFIRM_NS
  Milli         \* 1000 of the timer's units, if it counts milliseconds

VARIABLES
  recording,
  task,    \* "counters", "timer" or "done"
  next,    \* the next counter, or the next pair of timer samples
  best,    \* per class the best counter so far, and the one selected; 0 for none
  resets   \* instants the timer started over

signalsVars == <<recording, task, next, best, resets>>

NoNumber == -1     \* a sample that is not a number, or is negative
Unranked == 0      \* a channel that is not named like a lap counter
Classes == {"strong", "weak", "constant"}

\* counters: a channel's rank among the names of lap counters, whether it has
\* samples, and what its walk returned.
\* late: how long the dash takes to show a new lap.
IsRecording(r) ==
    /\ r.counters \in Seq([rank : Nat, populated : BOOLEAN, crossings : Nat, laps : Nat])
    /\ r.progress \in BOOLEAN
    /\ r.unit \in {"s", "ms", "", "rpm"}
    /\ r.period \in Nat /\ r.duration \in Nat
    /\ r.timer \in Seq([at : Nat, value : {NoNumber} \cup Nat])
    /\ \A j, k \in DOMAIN r.timer : j < k => r.timer[j].at < r.timer[k].at
    /\ r.beacons \subseteq Nat /\ r.late \in Nat
    /\ r.zeros \subseteq DOMAIN r.timer

SignalsInit ==
    /\ recording \in Recordings
    /\ task = "counters" /\ next = 1
    /\ best = [class \in Classes \cup {"selected"} |-> 0]
    /\ resets = {}

-----------------------------------------------------------------------------
(* The lap counter                                                         *)

\* Lap counters that were walked to some laps.
Eligible(c) == c.populated /\ c.rank # Unranked /\ c.laps > 0

ClassOf(c) ==
    IF c.crossings >= 2 THEN "strong" ELSE IF c.crossings = 1 THEN "weak" ELSE "constant"

\* Wrong: the name decides among counters that count.
BeatsByName(c, other) == c.rank < other.rank

\* Of two counters of a class: more crossings if they are strong, then the name.
Beats(c, other) ==
    IF ClassOf(c) = "strong" /\ c.crossings # other.crossings
    THEN c.crossings > other.crossings
    ELSE c.rank < other.rank

Improves(k) ==
    LET c == recording.counters[k]
        held == best[ClassOf(c)]
    IN  Eligible(c) /\ (held # 0 => Beats(c, recording.counters[held]))

NextCounter ==
    /\ task = "counters" /\ next <= Len(recording.counters)
    /\ next' = next + 1
    /\ UNCHANGED <<recording, task, resets>>

BetterCounter ==
    /\ NextCounter
    /\ Improves(next)
    /\ best' = [best EXCEPT ![ClassOf(recording.counters[next])] = next]

OtherCounter ==
    /\ NextCounter
    /\ ~Improves(next)
    /\ UNCHANGED best

\* The strongest class that has a counter.
Select ==
    /\ task = "counters" /\ next > Len(recording.counters)
    /\ best' = [best EXCEPT !["selected"] =
                   IF best["strong"] # 0 THEN best["strong"]
                   ELSE IF best["weak"] # 0 THEN best["weak"] ELSE best["constant"]]
    /\ task' = "timer" /\ next' = 1
    /\ UNCHANGED <<recording, resets>>

-----------------------------------------------------------------------------
(* The lap timer                                                           *)

At(k) == recording.timer[k].at
Value(k) == recording.timer[k].value

Numbers(k) == Value(k) # NoNumber

Greatest == Max({0} \cup {Value(k) : k \in {j \in DOMAIN recording.timer : Numbers(j)}})

\* A unit that is stored wins; without one large values are milliseconds.
Scale ==
    CASE recording.unit = "s" -> 1
      [] recording.unit = "ms" -> Milli
      [] recording.unit = "" -> IF Greatest > Milli THEN Milli ELSE 1
      [] OTHER -> 0

Seconds(value) == value \div Scale

\* Progress in hundredths of a percent, or of a hundredth.
FullLap == IF Greatest > 200 THEN 10000 ELSE 100

\* From the last quarter of a lap into the first.
Wraps(k) == Value(k) * 4 >= FullLap * 3 /\ Value(k + 1) * 4 <= FullLap

\* The timer falls to what a new lap can show in its first sample; falling to
\* more it adopts a time from elsewhere.
Drops(k) ==
    /\ Seconds(Value(k) - Value(k + 1)) > MinDrop
    /\ Seconds(Value(k + 1)) <= Latency + 2 * recording.period

\* Wrong: the old time must come back as it was.
ResumesUnmoved(k) ==
    \E j \in DOMAIN recording.timer :
        /\ j > k + 1 /\ At(j) - At(k + 1) <= Confirm
        /\ Numbers(j)
        /\ Seconds(Value(j) - Value(k)) \in -Latency..Latency

\* Soon after a drop the timer goes on where it would have been.
Resumes(k) ==
    \E j \in DOMAIN recording.timer :
        /\ j > k + 1 /\ At(j) - At(k + 1) <= Confirm
        /\ Numbers(j)
        /\ Seconds(Value(j) - Value(k)) - (At(j) - At(k)) \in -Latency..Latency

NextPair ==
    /\ task = "timer" /\ next < Len(recording.timer)
    /\ next' = next + 1
    /\ UNCHANGED <<recording, task, best>>

Falls(k) == Numbers(k) /\ Numbers(k + 1) /\ Scale > 0 /\ Drops(k)

\* Progress starts over at the sample that shows it.
ProgressReset ==
    /\ NextPair
    /\ recording.progress
    /\ Numbers(next) /\ Numbers(next + 1) /\ Wraps(next)
    /\ resets' = resets \cup {At(next + 1)}

\* A time starts over as long before the sample as the sample says.
TimerReset ==
    /\ NextPair
    /\ ~recording.progress
    /\ Falls(next) /\ ~Resumes(next)
    /\ resets' = resets \cup {Max({0, At(next + 1) - Seconds(Value(next + 1))})}

RecoveredTimer ==
    /\ NextPair
    /\ ~recording.progress
    /\ Falls(next) /\ Resumes(next)
    /\ UNCHANGED resets

TimerRuns ==
    /\ NextPair
    /\ IF recording.progress THEN ~(Numbers(next) /\ Numbers(next + 1) /\ Wraps(next))
                             ELSE ~Falls(next)
    /\ UNCHANGED resets

\* A reset at an edge of the recording parts nothing.
EndOfTimer ==
    /\ task = "timer" /\ next >= Len(recording.timer)
    /\ resets' = {t \in resets : 0 < t /\ t < recording.duration}
    /\ task' = "done"
    /\ UNCHANGED <<recording, next, best>>

SignalsNext ==
    \/ BetterCounter \/ OtherCounter \/ Select
    \/ ProgressReset \/ TimerReset \/ RecoveredTimer \/ TimerRuns \/ EndOfTimer

SignalsSpec == SignalsInit /\ [][SignalsNext]_signalsVars

-----------------------------------------------------------------------------
(* Properties                                                              *)

Stronger(c, other) ==
    \/ c.crossings > other.crossings
    \/ c.crossings = other.crossings /\ c.rank < other.rank

\* Whatever the order of the channels, the counter that is read is one with
\* the most crossings, of these the one with the best name, of these the
\* first; none is read only if none was walked to a lap (select_lap_counter).
StrongestCounterIsRead ==
    task # "counters" =>
        LET eligible == {k \in DOMAIN recording.counters : Eligible(recording.counters[k])}
            read == best["selected"]
        IN  /\ read = 0 <=> eligible = {}
            /\ \A k \in eligible :
                  /\ ~Stronger(recording.counters[k], recording.counters[read])
                  /\ k < read => Stronger(recording.counters[read], recording.counters[k])

Since(b) == Max({0} \cup {a \in recording.beacons : a < b})

\* The first sample that may show the lap a beacon began.
Shown(b) == {k \in DOMAIN recording.timer :
                /\ At(k) >= b + recording.late
                /\ \A j \in 1 .. (k - 1) : At(j) < b + recording.late}

Sound(k) == Numbers(k) /\ k \notin recording.zeros

\* A lap long enough ended, and the samples around its end are sound.
Witnessed(b) ==
    /\ b > 0
    /\ b - Since(b) > MinDrop + 2 * recording.period
    /\ \E k \in Shown(b) : k > 1 /\ Sound(k - 1) /\ Sound(k)

PartedAt(b) ==
    IF recording.progress THEN {At(k) : k \in Shown(b)} ELSE {b}

\* The timer read zero from sample k on, and when it went on, if it did so in
\* time, a beacon had been passed.
HidBeacon(k) ==
    /\ k \in recording.zeros
    /\ \A j \in DOMAIN recording.timer :
          j > k /\ Sound(j) /\ At(j) - At(k) <= Confirm =>
             \E b \in recording.beacons :
                b + recording.late <= At(j) /\ b + recording.late > At(k - 1)

\* The beacons the dash has shown by sample k.
Begun(k) == {b \in recording.beacons : b + recording.late <= At(k)}

\* A lap timer that runs true: its sound samples show the time since the last
\* beacon it was told of, the others nothing or zero; it is sampled at least
\* once a period, no lap is shorter than one, and it began to run by time 0.
RunsTrue ==
    /\ ~recording.progress /\ recording.unit # "rpm"
    /\ recording.late <= Latency
    /\ \A k \in recording.zeros : Value(k) \in {NoNumber, 0}
    /\ \A a, b \in recording.beacons : a < b => b - a > recording.period
    /\ \A k \in 2 .. Len(recording.timer) : At(k) - At(k - 1) <= recording.period
    /\ \A k \in DOMAIN recording.timer : Sound(k) =>
          IF Begun(k) = {} THEN Value(k) >= Scale * At(k)
                           ELSE Value(k) = Scale * (At(k) - Max(Begun(k)))
    /\ \A j, k \in DOMAIN recording.timer : Sound(j) /\ Sound(k) /\ Begun(j) = Begun(k) =>
          Value(k) - Value(j) = Scale * (At(k) - At(j))

\* Laps part at beacons, to the tick even if the dash shows them late: at every
\* beacon the timer shows, and elsewhere only where the timer read zero while a
\* beacon was passed or for too long (timer_reset_laps_observed).  A progress
\* channel is not watched for zeros.
ResetsAreBeacons ==
    task = "done" =>
        /\ \A b \in recording.beacons :
              recording.unit # "rpm" /\ Witnessed(b) => PartedAt(b) \cap (1 .. recording.duration - 1) \subseteq resets
        /\ \A t \in resets :
              \/ \E b \in recording.beacons : t \in PartedAt(b)
              \/ \E k \in recording.zeros :
                    At(k) = t /\ (recording.progress \/ HidBeacon(k))

=============================================================================
