----------------------------- MODULE LapRecovery -----------------------------
(***************************************************************************)
(* The counter walk of lap recovery: increasing_counter_laps in            *)
(* telemetry-core/src/laps.rs.  It reads a recording's lap counter sample  *)
(* by sample, merges in the pit visits the GPS detector confirmed, and     *)
(* turns them into closed intervals ("laps") with the Phase reducer.       *)
(*                                                                         *)
(* One action is one pass of a loop body of the code: a pit event taken    *)
(* off the list, or a counter sample with everything its handler does.     *)
(* The recording is fixed by Init.  What the motion and GPS channels say   *)
(* at the instants the code asks (zero speed, on circuit, gate crossing,   *)
(* slow, moving, departure) is chosen in the action that asks.             *)
(***************************************************************************)
EXTENDS Integers, Sequences, FiniteSets, SequencesExt, LapPhase

CONSTANTS
  Recordings,     \* the recordings to walk (see IsRecording)
  ConfirmWindow,  \* RESET_CONFIRM_NS: a drop that recovers within it is a glitch
  HeldZero,       \* 0.5 s: a parked zero held this long is a re-arming dash
  MaxCounter      \* i64::MAX: the beacon-count offset overflows here

Boundaries == {"recording-edge", "counter-crossing", "counter-reset",
               "motion-departure", "gps-pit-entry", "gps-pit-exit"}

Samples == [at : Nat, counter : Nat]

\* samples: the finite, non-negative samples of the counter channel.
\* pitEvents: entry and exit instants in turn, as flattened from pit_visits.
\* head: what initially_parked and on_circuit(0) say of the first seconds.
\* reference: the reference lap time, 0 when the source has none.
\* completed: a completed-beacon counter, whose lap number is one ahead.
IsRecording(r) ==
    /\ r.samples \in Seq(Samples)
    /\ \A i, j \in DOMAIN r.samples : i < j => r.samples[i].at < r.samples[j].at
    /\ \A i \in DOMAIN r.samples : r.samples[i].counter <= MaxCounter
    /\ r.pitEvents \in Seq(Nat)
    /\ \A i, j \in DOMAIN r.pitEvents : i < j => r.pitEvents[i] < r.pitEvents[j]
    /\ r.duration \in Nat
    /\ \A i \in DOMAIN r.samples : r.samples[i].at <= r.duration
    /\ r.head \in {"moving", "parked", "parked-on-circuit"}
    /\ r.reference \in Nat
    /\ r.completed \in BOOLEAN

ASSUME RecordingAssumption == \A r \in Recordings : IsRecording(r)
ASSUME BoundAssumption ==
    /\ ConfirmWindow \in Nat
    /\ HeldZero \in Nat
    /\ MaxCounter \in Nat

NoLap == [stintLap |-> 0, start |-> 0, startBoundary |-> "none"]
NoCounter == -1
NoTime == -1

OpenLaps == [stintLap : Nat, start : Nat, startBoundary : Boundaries]
Laps == [start : Nat, end : Nat, complete : BOOLEAN, stint : Nat, stintLap : Nat,
         kind : Kinds, startBoundary : Boundaries, endBoundary : Boundaries]

VARIABLES
  recording,    \* the source being walked; never changes
  phase,        \* Phase
  laps,         \* the intervals closed so far
  current,      \* the OpenLap, or NoLap
  highWater,    \* the counter value held, or NoCounter
  crossings,    \* accepted crossings
  stint,        \* the stint being recorded
  position,     \* index of the next counter sample
  pitPosition,  \* index of the next pit event
  finished,     \* the walk has returned
  resets        \* history: when a reset was confirmed, and as which event

vars == <<recording, phase, laps, current, highWater, crossings, stint,
          position, pitPosition, finished, resets>>

Init ==
    /\ recording \in Recordings
    /\ phase = CASE recording.head = "moving" -> "initial"
                 [] recording.head = "parked" -> "pit"
                 [] recording.head = "parked-on-circuit" -> "stopped"
    /\ laps = <<>>
    /\ current = NoLap
    /\ highWater = NoCounter
    /\ crossings = 0
    /\ stint = 1
    /\ position = 1
    /\ pitPosition = 1
    /\ finished = FALSE
    /\ resets = {}
-----------------------------------------------------------------------------
(***************************************************************************)
(* Closing an interval.                                                    *)
(***************************************************************************)
LapOf(open, until, kind, boundary) ==
    [start |-> open.start, end |-> until, complete |-> kind = "flying",
     stint |-> stint, stintLap |-> open.stintLap, kind |-> kind,
     startBoundary |-> open.startBoundary, endBoundary |-> boundary]

\* Wrong: the shortest interval is dropped with the empty ones.
ClosedUnlessShort(ls, open, until, kind, boundary) ==
    IF until > open.start + 1 THEN Append(ls, LapOf(open, until, kind, boundary)) ELSE ls

\* close: an interval that would be empty is dropped.
Closed(ls, open, until, kind, boundary) ==
    IF until > open.start THEN Append(ls, LapOf(open, until, kind, boundary)) ELSE ls

OpenAt(number, at, boundary) ==
    [stintLap |-> number, start |-> at, startBoundary |-> boundary]

\* Evidence::departure(start, until): no departure, or the instant the car
\* left its last standstill.  A standstill precedes it in the window, so the
\* instant lies strictly inside.
DepartureIn(start, until) == {NoTime} \cup (start + 1) .. (until - 1)

\* Wrong: the departure moves the open interval's start and closes nothing.
DepartedUnclosed(left) ==
    IF phase \in Inactive /\ current # NoLap /\ left # NoTime
    THEN [laps |-> laps,
          open |-> OpenAt(current.stintLap, left, "motion-departure"),
          phase |-> NextPhase(phase, "departure")]
    ELSE [laps |-> laps, open |-> current, phase |-> phase]

\* The laps, open interval and phase once a departure at `left` is applied.
Departed(left) ==
    IF phase \in Inactive /\ current # NoLap /\ left # NoTime
    THEN [laps |-> Closed(laps, current, left, ClosingKind(phase, "departure"),
                          "motion-departure"),
          open |-> OpenAt(current.stintLap, left, "motion-departure"),
          phase |-> NextPhase(phase, "departure")]
    ELSE [laps |-> laps, open |-> current, phase |-> phase]
-----------------------------------------------------------------------------
(***************************************************************************)
(* Pit events (the process_pit_events closure).                            *)
(***************************************************************************)
SamplesLeft == position <= Len(recording.samples)

Sample == recording.samples[position]

\* Pit events are consumed up to the next sample, or at last to the duration.
PitDue ==
    /\ pitPosition <= Len(recording.pitEvents)
    /\ recording.pitEvents[pitPosition] <=
            (IF SamplesLeft THEN Sample.at ELSE recording.duration)

PitAt == recording.pitEvents[pitPosition]

IsExit == pitPosition % 2 = 0

TakePitEvent ==
    /\ ~finished
    /\ PitDue
    /\ pitPosition' = pitPosition + 1
    /\ UNCHANGED <<recording, highWater, crossings, position, finished, resets>>

\* Nothing is open yet, or the interval opened at or after the event.
StalePitEvent ==
    /\ TakePitEvent
    /\ current = NoLap \/ PitAt <= current.start
    /\ UNCHANGED <<phase, laps, current, stint>>

\* The car is already known to be in the pits, stopped, or out of them.
RedundantPitEvent ==
    /\ TakePitEvent
    /\ current # NoLap /\ PitAt > current.start
    /\ \/ IsExit /\ phase \notin Inactive
       \/ ~IsExit /\ phase \in {"pit", "stopped"}
    /\ UNCHANGED <<phase, laps, current, stint>>

\* A pit entry also confirms an earlier departure out of an inactive phase.
GpsPitEntry ==
    /\ TakePitEvent
    /\ current # NoLap /\ PitAt > current.start
    /\ ~IsExit
    /\ \E left \in DepartureIn(current.start, PitAt) :
          LET d == Departed(left)
              kind == ClosingKind(d.phase, "pit-entry")
          IN  /\ kind # NoKind
              /\ laps' = Closed(d.laps, d.open, PitAt, kind, "gps-pit-entry")
              /\ current' = OpenAt(d.open.stintLap, PitAt, "gps-pit-entry")
              /\ phase' = NextPhase(d.phase, "pit-entry")
    /\ stint' = stint + 1

GpsPitExit ==
    /\ TakePitEvent
    /\ current # NoLap /\ PitAt > current.start
    /\ IsExit
    /\ phase \in Inactive
    /\ laps' = Closed(laps, current, PitAt, ClosingKind(phase, "departure"), "gps-pit-exit")
    /\ current' = OpenAt(current.stintLap, PitAt, "gps-pit-exit")
    /\ phase' = NextPhase(phase, "departure")
    /\ UNCHANGED stint
-----------------------------------------------------------------------------
(***************************************************************************)
(* Counter samples.                                                        *)
(***************************************************************************)
Offset == IF recording.completed THEN 1 ELSE 0

Overflows == Sample.counter + Offset > MaxCounter

\* Wrong: the beacon count is corrected the other way.
LapNumberBehind == Sample.counter - Offset

LapNumber == Sample.counter + Offset

TakeSample ==
    /\ ~finished
    /\ SamplesLeft
    /\ ~PitDue
    /\ position' = position + 1
    /\ UNCHANGED <<recording, pitPosition, finished>>

Rest == <<phase, laps, current, highWater, crossings, stint, resets>>

\* The first sample opens the recording's first interval.
FirstSample ==
    /\ TakeSample
    /\ highWater = NoCounter
    /\ highWater' = Sample.counter
    /\ current' = IF Overflows THEN NoLap
                  ELSE OpenAt(LapNumber, Sample.at, "recording-edge")
    /\ UNCHANGED <<phase, laps, crossings, stint, resets>>

RepeatedSample ==
    /\ TakeSample
    /\ Sample.counter = highWater
    /\ UNCHANGED Rest

Later == {j \in DOMAIN recording.samples : j > position}

AtOf(j) == recording.samples[j].at
CounterOf(j) == recording.samples[j].counter

\* An active counter that a parked dash resets 1 -> 0 and holds there.
ParkedRearm(stationary) ==
    /\ ~recording.completed /\ highWater = 1 /\ Sample.counter = 0 /\ stationary
    /\ \E j \in Later :
          /\ AtOf(j) - Sample.at >= HeldZero
          /\ \A k \in Later : k <= j => CounterOf(k) = 0

\* Wrong: a drop may take any time to recover.
RecoversEver(stationary) ==
    /\ ~ParkedRearm(stationary)
    /\ \E j \in Later : CounterOf(j) >= highWater

Recovers(stationary) ==
    /\ ~ParkedRearm(stationary)
    /\ \E j \in Later : AtOf(j) - Sample.at <= ConfirmWindow /\ CounterOf(j) >= highWater

Drops == highWater # NoCounter /\ Sample.counter < highWater

RecoveredDropout ==
    /\ TakeSample
    /\ Drops
    /\ {stationary \in BOOLEAN : Recovers(stationary)} # {}
    /\ UNCHANGED Rest

\* Standing still is one reading of the evidence, standing on the circuit
\* (stopped_on_track) a stronger one.
ResetEvents == {"reset-moving", "reset-stationary", "track-stop"}

\* The increment just before the reset was the dash closing the running lap
\* in the pit box, not a beacon.
PitCloseIncrement(event, slow) ==
    /\ current.startBoundary = "counter-crossing"
    /\ \/ Sample.at - current.start <= ConfirmWindow
       \/ /\ event # "reset-moving"
          /\ recording.reference # 0
          /\ Sample.at - current.start < recording.reference \div 2
          /\ slow
    /\ laps # <<>>
    /\ Last(laps).end = current.start

\* The last closed lap takes over the interval up to the reset.
FoldedLap ==
    [Last(laps) EXCEPT !.end = Sample.at, !.complete = FALSE, !.endBoundary = "counter-reset",
                       !.kind = IF @ = "out" THEN "out-in" ELSE "in"]

\* Wrong: the fold rewrites the first interval.
FoldedFirst == [laps EXCEPT ![1] = FoldedLap]

Folded == [laps EXCEPT ![Len(laps)] = FoldedLap]

\* The counter starts over: what every confirmed drop does.
CounterRestarts(event) ==
    /\ TakeSample
    /\ Drops
    /\ ~Recovers(event # "reset-moving")
    /\ highWater' = Sample.counter
    /\ phase' = NextPhase(phase, event)
    /\ resets' = resets \cup {[at |-> Sample.at, event |-> event]}

\* Circuit activity ends here and a new stint begins.
NewStintAtReset ==
    /\ phase \in Active
    /\ stint' = stint + 1
    /\ current' = OpenAt(LapNumber, Sample.at, "counter-reset")

FoldPitClose ==
    \E event \in ResetEvents, slow \in BOOLEAN :
        /\ CounterRestarts(event)
        /\ NewStintAtReset
        /\ current # NoLap
        /\ PitCloseIncrement(event, slow)
        /\ laps' = Folded
        /\ crossings' = crossings - 1

CloseAtReset ==
    \E event \in ResetEvents, slow \in BOOLEAN :
        /\ CounterRestarts(event)
        /\ NewStintAtReset
        /\ current # NoLap => ~PitCloseIncrement(event, slow)
        /\ laps' = IF current = NoLap THEN laps
                   ELSE Closed(laps, current, Sample.at, ClosingKind(phase, event),
                               "counter-reset")
        /\ UNCHANGED crossings

\* Another reset in the pits, while stopped or uncertain, closes nothing.
ResetWhileInactive ==
    \E event \in ResetEvents :
        /\ CounterRestarts(event)
        /\ phase \in Inactive
        /\ current' = IF current = NoLap THEN NoLap ELSE [current EXCEPT !.stintLap = LapNumber]
        /\ UNCHANGED <<laps, crossings, stint>>

Rises == highWater # NoCounter /\ Sample.counter > highWater

\* A jump the very next sample does not hold.
Spike ==
    /\ Rises
    /\ Sample.counter - highWater > 1
    /\ position < Len(recording.samples)
    /\ CounterOf(position + 1) < Sample.counter

IgnoredSpike ==
    /\ TakeSample
    /\ Spike
    /\ UNCHANGED Rest

\* The increment's lap number does not fit: the crossing is dropped.
OverflowingCrossing ==
    /\ TakeSample
    /\ Rises /\ ~Spike /\ Overflows
    /\ UNCHANGED Rest

\* Evidence about one increment.  gps: Evidence::crossing, "none" when the
\* GPS cannot tell; the others are the motion and timer tests.
Evidence == [gps : {"none", "on-track", "off-track"}, slow : BOOLEAN,
             moving : BOOLEAN, timer : BOOLEAN]

Departures ==
    IF SamplesLeft /\ current # NoLap THEN DepartureIn(current.start, Sample.at) ELSE {NoTime}

\* The independent proof that a 0 -> 1 is the first physical crossing.
FirstCrossing(e, left) ==
    \/ e.gps = "on-track"
    \/ /\ e.gps = "none"
       /\ recording.reference # 0
       /\ current # NoLap
       /\ Sample.at - current.start >= recording.reference \div 2
       /\ \/ e.moving
          \/ e.timer /\ left # NoTime /\ Sample.at - left >= recording.reference \div 2

IsRearm(e, left) ==
    /\ ~recording.completed /\ highWater = 0 /\ Sample.counter = 1
    /\ ~FirstCrossing(e, left)

IsPitLaneBeacon(e) == e.gps = "off-track" /\ e.slow

TakeIncrement ==
    /\ TakeSample
    /\ Rises /\ ~Spike /\ ~Overflows
    /\ highWater' = Sample.counter
    /\ UNCHANGED resets

\* Wrong: arming is taken for a departure.
RearmAsDeparture ==
    /\ TakeIncrement
    /\ {left \in Departures : {e \in Evidence : IsRearm(e, left)} # {}} # {}
    /\ phase' = NextPhase(phase, "departure")
    /\ UNCHANGED <<laps, current, crossings, stint>>

IgnoredRearm ==
    /\ TakeIncrement
    /\ {left \in Departures : {e \in Evidence : IsRearm(e, left)} # {}} # {}
    /\ phase' = NextPhase(phase, "rearm")
    /\ current' = IF current = NoLap THEN NoLap ELSE [current EXCEPT !.stintLap = LapNumber]
    /\ UNCHANGED <<laps, crossings, stint>>

IgnoredPitLaneBeacon ==
    /\ TakeIncrement
    /\ {left \in Departures :
            {e \in Evidence : ~IsRearm(e, left) /\ IsPitLaneBeacon(e)} # {}} # {}
    /\ UNCHANGED <<phase, laps, current, crossings, stint>>

\* An increment that reaches the phase machine, after any departure before it.
CrossingAfter(left) ==
    /\ TakeIncrement
    /\ {e \in Evidence : ~IsRearm(e, left) /\ ~IsPitLaneBeacon(e)} # {}

\* In the pits or stopped, and no departure explains the increment.
UnanchoredIncrement ==
    \E left \in Departures :
        /\ CrossingAfter(left)
        /\ Departed(left).phase \in {"pit", "stopped"}
        /\ UNCHANGED <<phase, laps, current, crossings, stint>>

Crossing ==
    \E left \in Departures :
        LET d == Departed(left)
        IN  /\ CrossingAfter(left)
            /\ d.phase \notin {"pit", "stopped"}
            /\ laps' = IF d.open = NoLap THEN d.laps
                       ELSE Closed(d.laps, d.open, Sample.at,
                                   ClosingKind(d.phase, "crossing"), "counter-crossing")
            /\ current' = OpenAt(LapNumber, Sample.at, "counter-crossing")
            /\ phase' = NextPhase(d.phase, "crossing")
            /\ crossings' = crossings + 1
            /\ UNCHANGED stint

\* All samples and pit events are consumed: close the tail at the duration.
Finish ==
    /\ ~finished
    /\ ~SamplesLeft
    /\ ~PitDue
    /\ finished' = TRUE
    /\ laps' = IF current = NoLap THEN laps
               ELSE Closed(laps, current, recording.duration, ClosingKind(phase, "end"),
                           "recording-edge")
    /\ phase' = IF current = NoLap THEN phase ELSE NextPhase(phase, "end")
    /\ UNCHANGED <<recording, current, highWater, crossings, stint, position,
                   pitPosition, resets>>

Next ==
    \/ StalePitEvent \/ RedundantPitEvent \/ GpsPitEntry \/ GpsPitExit
    \/ FirstSample \/ RepeatedSample \/ RecoveredDropout
    \/ FoldPitClose \/ CloseAtReset \/ ResetWhileInactive
    \/ IgnoredSpike \/ OverflowingCrossing
    \/ IgnoredRearm \/ IgnoredPitLaneBeacon \/ UnanchoredIncrement \/ Crossing
    \/ Finish

Spec == Init /\ [][Next]_vars
-----------------------------------------------------------------------------
(***************************************************************************)
(* Properties.                                                             *)
(***************************************************************************)
TypeOK ==
    /\ IsRecording(recording)
    /\ phase \in Phases
    /\ laps \in Seq(Laps)
    /\ current \in OpenLaps \cup {NoLap}
    /\ highWater \in Nat \cup {NoCounter}
    /\ crossings \in Nat
    /\ stint \in Nat \ {0}
    /\ position \in 1 .. (Len(recording.samples) + 1)
    /\ pitPosition \in 1 .. (Len(recording.pitEvents) + 1)
    /\ finished \in BOOLEAN
    /\ resets \subseteq [at : Nat, event : ResetEvents]

\* The intervals tile the recording: each is non-empty and starts where the
\* one before it ended, and the open interval starts where the last one
\* ended.  Departures are backdated and folds rewrite the last interval, and
\* neither may open a gap or an overlap.
LapsTile ==
    /\ \A i \in DOMAIN laps : laps[i].start < laps[i].end
    /\ \A i \in DOMAIN laps : i > 1 => laps[i].start = laps[i - 1].end
    /\ current # NoLap /\ laps # <<>> /\ ~finished => current.start = Last(laps).end

\* When the walk ends every instant from the first sample to the end of the
\* recording lies in one interval, unless the first sample overflowed and
\* nothing was ever opened.
CoversRecording ==
    finished /\ current # NoLap /\ AtOf(1) < recording.duration
        /\ CounterOf(1) + Offset <= MaxCounter =>
        /\ laps # <<>>
        /\ laps[1].start = AtOf(1)
        /\ Last(laps).end = recording.duration

Boundary(i) == <<laps[i].startBoundary, laps[i].endBoundary>>

\* A flying lap is a timed lap: counter crossings at both ends, with the
\* counter higher at its end than at its start, and every drop in between
\* recovered within the confirmation window.  No reset, rearm, pit event or
\* recording edge hides inside it.
FlyingIsTimed ==
    \A l \in DOMAIN laps : laps[l].kind = "flying" =>
        /\ Boundary(l) = <<"counter-crossing", "counter-crossing">>
        /\ \E s, e \in DOMAIN recording.samples :
              /\ AtOf(s) = laps[l].start /\ AtOf(e) = laps[l].end
              /\ CounterOf(s) < CounterOf(e)
              /\ \A i \in (s + 1) .. (e - 1) : CounterOf(i) < CounterOf(s) =>
                    \E j \in DOMAIN recording.samples :
                        /\ j > i /\ CounterOf(j) >= CounterOf(s)
                        /\ AtOf(j) - AtOf(i) <= ConfirmWindow

ActivityStarts == {"recording-edge", "motion-departure", "gps-pit-exit"}
ActivityEnds == {"recording-edge", "counter-reset", "gps-pit-entry"}

\* The kind an interval is given agrees with the evidence at its two ends,
\* as the LapKind documentation defines the kinds: an out fragment leaves
\* pits or logger start for a crossing, an in fragment is never closed by a
\* crossing, pit and stopped time ends only in a departure or the recording.
KindsMatchBoundaries ==
    \A i \in DOMAIN laps :
        LET starts == laps[i].startBoundary
            ends == laps[i].endBoundary
        IN  CASE laps[i].kind = "flying" -> ends = "counter-crossing"
              [] laps[i].kind = "out" -> starts \in ActivityStarts /\ ends = "counter-crossing"
              [] laps[i].kind = "out-in" -> starts \in ActivityStarts /\ ends \in ActivityEnds
              [] laps[i].kind = "in" -> /\ ends \in ActivityEnds
                                        /\ starts # "counter-crossing" => ends = "counter-reset"
              [] laps[i].kind \in {"pit", "stopped"} ->
                    /\ starts \notin {"counter-crossing", "motion-departure", "gps-pit-exit"}
                    /\ ends \in {"motion-departure", "gps-pit-exit", "recording-edge"}
              [] OTHER -> starts = "counter-reset" \/ ends = "counter-reset"

Accepted(ls) == {i \in DOMAIN ls : ls[i].endBoundary \in {"motion-departure", "gps-pit-exit"}}

\* Only independent evidence of a departure ends pit or stopped time: no
\* counter increment, re-arm or reset alone puts the car back on the circuit.
PitExitNeedsEvidence ==
    [][/\ phase \in {"pit", "stopped"}
       /\ phase' \notin {"pit", "stopped"}
       => \E i \in Accepted(laps') : i > Len(laps) /\ laps'[i].kind = phase]_vars

\* A closed interval is history: a step only appends intervals, or hands the
\* last one the fragment after it.
OnlyFoldRewrites ==
    [][/\ Len(laps') >= Len(laps)
       /\ \A i \in 1 .. (Len(laps) - 1) : laps'[i] = laps[i]
       /\ laps # <<>> /\ laps'[Len(laps)] # Last(laps) =>
             /\ Len(laps') = Len(laps)
             /\ current.startBoundary = "counter-crossing"
             /\ stint' = stint + 1]_vars

\* The intervals as a reader of the contract sees them.
Activity == [i \in DOMAIN laps |-> [start |-> laps[i].start, end |-> laps[i].end,
                                    kind |-> laps[i].kind]]

Contract == INSTANCE LapContract WITH
    intervals <- Activity,
    from <- IF current = NoLap THEN NoTime ELSE current.start,
    anchored <- phase = "on-track",
    ended <- finished

\* The walk implements the lap contract: a flying interval comes only from
\* two consecutive anchors, and every other end of activity clears the anchor.
ImplementsContract == Contract!Spec
=============================================================================
