------------------------- MODULE LapPublicationProofs -------------------------
(***************************************************************************)
(* The counter walk and what is published of it, for every set of          *)
(* recordings and every value of the windows.                              *)
(*                                                                         *)
(* Of the walk: its types and its phase machine, the tiling of the         *)
(* recording by its intervals, and the kinds that the evidence at the ends *)
(* of an interval allows; that it implements the lap contract, that pit    *)
(* time ends only with evidence of a departure, that history is rewritten  *)
(* by folds alone, and that a flying lap is a timed lap.                   *)
(*                                                                         *)
(* Of publication: published laps do not overlap, a published flying lap   *)
(* is timed, stints advance, and vendor laps are kept, whatever the walk   *)
(* recovered, the lap timer and the standstills say, and whatever list a   *)
(* source supplies.  How the intervals of a walk hang together comes       *)
(* first: which boundary the next one starts at, and how time in the pits  *)
(* ends.                                                                   *)
(***************************************************************************)
EXTENDS LapPublication, ListProofs, SequenceTheorems

(***************************************************************************)
(* The reducer.                                                            *)
(***************************************************************************)

\* Phase::apply returns a phase and, but for the events it ignores, a kind.
LEMMA ReducerType ==
    ASSUME NEW p \in Phases, NEW e \in Events
    PROVE  /\ NextPhase(p, e) \in Phases
           /\ ClosingKind(p, e) \in Kinds \cup {NoKind}
  BY DEF Phases, Events, Kinds, NoKind, Inactive, Active, NextPhase, ClosingKind,
         CrossedKind, FragmentKind

\* Only a crossing on track closes a flying interval, and only a crossing
\* leads onto the track.
LEMMA ReducerAnchor ==
    ASSUME NEW p \in Phases, NEW e \in Events
    PROVE  /\ ClosingKind(p, e) = "flying" => p = "on-track" /\ e = "crossing"
           /\ NextPhase(p, e) = "on-track" =>
                 \/ e = "crossing" /\ p \notin {"pit", "stopped"}
                 \/ p = "on-track" /\ e \in {"departure", "rearm", "end"}
  BY DEF Phases, Events, Kinds, NoKind, Inactive, Active, NextPhase, ClosingKind,
         CrossedKind, FragmentKind

\* A departure from an inactive phase, and a reset in an active one, close
\* the open interval.
LEMMA ReducerCloses ==
    ASSUME NEW p \in Phases
    PROVE  /\ p \in Inactive => /\ ClosingKind(p, "departure") \in Kinds
                                /\ NextPhase(p, "departure") = "out"
           /\ p \in Active => \A e \in ResetEvents : ClosingKind(p, e) \in Kinds
           /\ ClosingKind(p, "crossing") \in Kinds
           /\ ClosingKind(p, "end") \in Kinds
           /\ NextPhase(p, "end") = p
           /\ NextPhase(p, "rearm") = p
           /\ p \notin {"pit", "stopped"} => NextPhase(p, "crossing") = "on-track"
           /\ p # "stopped" => NextPhase(p, "pit-entry") = "pit"
           /\ p = "stopped" => NextPhase(p, "pit-entry") = "stopped"
           /\ \A e \in ResetEvents : NextPhase(p, e) \in Inactive
  BY DEF Phases, Events, Kinds, NoKind, Inactive, Active, NextPhase, ClosingKind,
         CrossedKind, FragmentKind, ResetEvents

(***************************************************************************)
(* Closing intervals.                                                      *)
(***************************************************************************)

\* Closing an interval yields intervals.
LEMMA ClosedType ==
    ASSUME NEW ls \in Seq(Laps), NEW open \in OpenLaps, NEW until \in Nat,
           NEW kind \in Kinds, NEW boundary \in Boundaries, stint \in Nat
    PROVE  Closed(ls, open, until, kind, boundary) \in Seq(Laps)
<1>1. LapOf(open, until, kind, boundary) \in Laps
  BY DEF LapOf, Laps, OpenLaps
<1> QED
  BY <1>1 DEF Closed

\* Replacing an element of a sequence.
LEMMA ReplaceType ==
    ASSUME NEW S, NEW s \in Seq(S), NEW i \in DOMAIN s, NEW x \in S
    PROVE  /\ [s EXCEPT ![i] = x] \in Seq(S)
           /\ Len([s EXCEPT ![i] = x]) = Len(s)
           /\ [s EXCEPT ![i] = x][i] = x
           /\ \A j \in DOMAIN s : j # i => [s EXCEPT ![i] = x][j] = s[j]
  OBVIOUS

LEMMA OpenAtType ==
    ASSUME NEW n \in Nat, NEW t \in Nat, NEW b \in Boundaries
    PROVE  OpenAt(n, t, b) \in OpenLaps
  BY DEF OpenAt, OpenLaps

\* Applying a departure keeps the walk's state well-typed.
LEMMA DepartedType ==
    ASSUME TypeOK, NEW t \in Nat, current # NoLap,
           NEW left \in DepartureIn(current.start, t)
    PROVE  /\ Departed(left).laps \in Seq(Laps)
           /\ Departed(left).open \in OpenLaps
           /\ Departed(left).phase \in Phases
<1>1. current \in OpenLaps /\ phase \in Phases /\ laps \in Seq(Laps) /\ stint \in Nat
  BY DEF TypeOK
<1>2. CASE phase \in Inactive /\ left # NoTime
  <2>1. left \in Nat
    BY <1>1, <1>2 DEF DepartureIn, NoTime, OpenLaps
  <2>2. ClosingKind(phase, "departure") \in Kinds /\ NextPhase(phase, "departure") \in Phases
    BY <1>1, <1>2, ReducerCloses DEF Phases
  <2>3. Closed(laps, current, left, ClosingKind(phase, "departure"), "motion-departure")
           \in Seq(Laps)
    BY <1>1, <2>1, <2>2, ClosedType DEF Boundaries
  <2>4. OpenAt(current.stintLap, left, "motion-departure") \in OpenLaps
    BY <1>1, <2>1, OpenAtType DEF Boundaries, OpenLaps
  <2> QED
    BY <1>2, <2>2, <2>3, <2>4 DEF Departed
<1>3. CASE ~(phase \in Inactive /\ left # NoTime)
  BY <1>1, <1>3 DEF Departed
<1> QED
  BY <1>2, <1>3

(***************************************************************************)
(* Type correctness.  The crossing count stays a natural number because an *)
(* interval that a crossing opened was counted: the fold that takes the    *)
(* count back also takes that interval back.                               *)
(***************************************************************************)
AnchorCounted == current.startBoundary = "counter-crossing" => crossings > 0

TypeInv == TypeOK /\ AnchorCounted

LEMMA SampleType ==
    ASSUME TypeOK, SamplesLeft
    PROVE  /\ position \in DOMAIN recording.samples
           /\ Sample \in Samples
           /\ Sample.at \in Nat /\ Sample.counter \in Nat
           /\ LapNumber \in Nat
<1>1. position \in 1 .. Len(recording.samples)
  BY DEF TypeOK, SamplesLeft, IsRecording
<1>2. recording.samples \in Seq(Samples) /\ position \in DOMAIN recording.samples
  BY <1>1 DEF TypeOK, IsRecording
<1>3. Sample \in Samples
  BY <1>2 DEF Sample
<1>4. Sample.at \in Nat /\ Sample.counter \in Nat
  BY <1>3 DEF Samples
<1> QED
  BY <1>2, <1>3, <1>4 DEF LapNumber, Offset

LEMMA PitAtType ==
    ASSUME TypeOK, PitDue
    PROVE  PitAt \in Nat /\ pitPosition + 1 \in 1 .. (Len(recording.pitEvents) + 1)
<1>1. pitPosition \in 1 .. Len(recording.pitEvents)
  BY DEF TypeOK, PitDue, IsRecording
<1>2. recording.pitEvents \in Seq(Nat)
  BY DEF TypeOK, IsRecording
<1>3. Len(recording.pitEvents) \in Nat /\ recording.pitEvents[pitPosition] \in Nat
  BY <1>1, <1>2
<1> QED
  BY <1>1, <1>3 DEF PitAt

\* What consuming a pit event leaves as it was.
LEMMA TakePitEventType ==
    ASSUME TypeOK, TakePitEvent
    PROVE  /\ IsRecording(recording') /\ highWater' \in Nat \cup {NoCounter}
           /\ crossings' = crossings /\ crossings' \in Nat
           /\ position' \in 1 .. (Len(recording'.samples) + 1)
           /\ pitPosition' \in 1 .. (Len(recording'.pitEvents) + 1)
           /\ finished' \in BOOLEAN /\ resets' \subseteq [at : Nat, event : ResetEvents]
  BY PitAtType DEF TypeOK, TakePitEvent

\* What consuming a sample leaves as it was.
LEMMA TakeSampleType ==
    ASSUME TypeOK, TakeSample
    PROVE  /\ IsRecording(recording')
           /\ position' \in 1 .. (Len(recording'.samples) + 1)
           /\ pitPosition' \in 1 .. (Len(recording'.pitEvents) + 1)
           /\ finished' \in BOOLEAN
  BY SampleType DEF TypeOK, TakeSample, IsRecording

\* The recording is well-formed, so Init is well-typed.
LEMMA InitType == Init => TypeInv
<1> SUFFICES ASSUME Init PROVE TypeInv
  OBVIOUS
<1>1. IsRecording(recording)
  BY RecordingAssumption DEF Init
<1>2. phase \in Phases
  BY <1>1 DEF Init, IsRecording, Phases
<1>3. laps \in Seq(Laps)
  BY DEF Init
<1>4. position \in 1 .. (Len(recording.samples) + 1)
         /\ pitPosition \in 1 .. (Len(recording.pitEvents) + 1)
  BY <1>1 DEF Init, IsRecording
<1>5. /\ current = NoLap /\ highWater = NoCounter /\ crossings = 0 /\ stint = 1
      /\ finished = FALSE /\ resets = {}
  BY DEF Init
<1>8. /\ current \in OpenLaps \cup {NoLap} /\ highWater \in Nat \cup {NoCounter}
  BY <1>5
<1>9. /\ crossings \in Nat /\ stint \in Nat \ {0}
  BY <1>5
<1>10. finished \in BOOLEAN /\ resets \subseteq [at : Nat, event : ResetEvents]
  BY <1>5
<1>7. TypeOK
  BY <1>1, <1>2, <1>3, <1>4, <1>8, <1>9, <1>10 DEF TypeOK
<1>6. AnchorCounted
  BY DEF Init, AnchorCounted, NoLap
<1> QED
  BY <1>6, <1>7 DEF TypeInv

\* Every step keeps the walk well-typed.
LEMMA StepType == TypeInv /\ [Next]_vars => TypeInv'
<1> SUFFICES ASSUME TypeInv, [Next]_vars PROVE TypeInv'
  OBVIOUS
<1> USE DEF TypeInv
<1>0. /\ phase \in Phases /\ laps \in Seq(Laps) /\ current \in OpenLaps \cup {NoLap}
      /\ stint \in Nat \ {0} /\ crossings \in Nat
      /\ highWater \in Nat \cup {NoCounter}
      /\ resets \subseteq [at : Nat, event : ResetEvents]
  BY DEF TypeOK
<1>1. CASE StalePitEvent
  BY <1>0, <1>1, TakePitEventType DEF StalePitEvent, TypeOK, AnchorCounted
<1>2. CASE RedundantPitEvent
  BY <1>0, <1>2, TakePitEventType DEF RedundantPitEvent, TypeOK, AnchorCounted
<1>3. CASE GpsPitEntry
  <2>1. PICK left \in DepartureIn(current.start, PitAt) :
          LET d == Departed(left)
              kind == ClosingKind(d.phase, "pit-entry")
          IN  /\ kind # NoKind
              /\ laps' = Closed(d.laps, d.open, PitAt, kind, "gps-pit-entry")
              /\ current' = OpenAt(d.open.stintLap, PitAt, "gps-pit-entry")
              /\ phase' = NextPhase(d.phase, "pit-entry")
    BY <1>3 DEF GpsPitEntry
  <2> DEFINE d == Departed(left)
  <2>2. /\ d.laps \in Seq(Laps) /\ d.open \in OpenLaps /\ d.phase \in Phases
        /\ PitAt \in Nat
    BY <1>3, DepartedType, PitAtType DEF GpsPitEntry, TakePitEvent
  <2>3. phase' \in Phases /\ ClosingKind(d.phase, "pit-entry") \in Kinds
    BY <2>1, <2>2, ReducerType DEF Events
  <2>4. laps' \in Seq(Laps)
    BY <1>0, <2>1, <2>2, <2>3, ClosedType DEF Boundaries
  <2>5. current' \in OpenLaps /\ current'.startBoundary = "gps-pit-entry"
    BY <2>1, <2>2, OpenAtType DEF Boundaries, OpenLaps, OpenAt
  <2> QED
    BY <1>0, <1>3, <2>3, <2>4, <2>5, TakePitEventType DEF GpsPitEntry, TypeOK, AnchorCounted
<1>4. CASE GpsPitExit
  <2>1. PitAt \in Nat /\ current \in OpenLaps
    BY <1>0, <1>4, PitAtType DEF GpsPitExit, TakePitEvent
  <2>2. ClosingKind(phase, "departure") \in Kinds /\ phase' \in Phases
    BY <1>0, <1>4, ReducerCloses DEF GpsPitExit, Phases
  <2>3. laps' \in Seq(Laps)
    BY <1>0, <1>4, <2>1, <2>2, ClosedType DEF Boundaries, GpsPitExit
  <2>4. current' \in OpenLaps /\ current'.startBoundary = "gps-pit-exit"
    BY <1>4, <2>1, OpenAtType DEF Boundaries, OpenLaps, OpenAt, GpsPitExit
  <2> QED
    BY <1>0, <1>4, <2>2, <2>3, <2>4, TakePitEventType DEF GpsPitExit, TypeOK, AnchorCounted
<1>5. CASE FirstSample
  <2>1. current' \in OpenLaps \cup {NoLap} /\ current'.startBoundary # "counter-crossing"
    BY <1>0, <1>5, SampleType, OpenAtType
       DEF FirstSample, TakeSample, Boundaries, OpenAt, NoLap
  <2>2. highWater' \in Nat
    BY <1>5, SampleType DEF FirstSample, TakeSample
  <2> QED
    BY <1>0, <1>5, <2>1, <2>2, TakeSampleType DEF FirstSample, TypeOK, AnchorCounted
<1>6. CASE RepeatedSample \/ RecoveredDropout \/ IgnoredSpike \/ OverflowingCrossing
  BY <1>0, <1>6, TakeSampleType
     DEF RepeatedSample, RecoveredDropout, IgnoredSpike, OverflowingCrossing, Rest,
         TypeOK, AnchorCounted
<1>7. ASSUME NEW event \in ResetEvents, CounterRestarts(event)
      PROVE  /\ highWater' \in Nat /\ phase' \in Phases
             /\ resets' \subseteq [at : Nat, event : ResetEvents]
             /\ Sample.at \in Nat /\ LapNumber \in Nat
             /\ IsRecording(recording')
             /\ position' \in 1 .. (Len(recording'.samples) + 1)
             /\ pitPosition' \in 1 .. (Len(recording'.pitEvents) + 1)
             /\ finished' \in BOOLEAN
  <2>1. Sample.at \in Nat /\ Sample.counter \in Nat /\ LapNumber \in Nat
    BY <1>7, SampleType DEF CounterRestarts, TakeSample
  <2>2. [at |-> Sample.at, event |-> event] \in [at : Nat, event : ResetEvents]
    BY <2>1
  <2>3. phase' \in Phases
    BY <1>0, <1>7, ReducerType DEF CounterRestarts, Events, ResetEvents
  <2> QED
    BY <1>0, <1>7, <2>1, <2>2, <2>3, TakeSampleType DEF CounterRestarts
<1>8. CASE FoldPitClose
  <2>1. PICK event \in ResetEvents, slow \in BOOLEAN :
          /\ CounterRestarts(event)
          /\ NewStintAtReset
          /\ current # NoLap
          /\ PitCloseIncrement(event, slow)
          /\ laps' = Folded
          /\ crossings' = crossings - 1
    BY <1>8 DEF FoldPitClose
  <2>2. current' \in OpenLaps /\ current'.startBoundary = "counter-reset"
    BY <1>7, <2>1, OpenAtType DEF NewStintAtReset, Boundaries, OpenAt
  <2>3. crossings' \in Nat
    BY <1>0, <2>1 DEF PitCloseIncrement, AnchorCounted
  <2>4. laps' \in Seq(Laps)
    <3>1. Len(laps) \in DOMAIN laps /\ Last(laps) \in Laps
      BY <1>0, <2>1 DEF PitCloseIncrement, Last
    <3>2. FoldedLap \in Laps
      BY <1>7, <2>1, <3>1 DEF FoldedLap, Laps, Boundaries, Kinds
    <3>3. Folded \in Seq(Laps)
      BY <1>0, <3>1, <3>2, ReplaceType DEF Folded
    <3> QED
      BY <2>1, <3>3
  <2> QED
    BY <1>0, <1>7, <2>1, <2>2, <2>3, <2>4 DEF NewStintAtReset, TypeOK, AnchorCounted
<1>9. CASE CloseAtReset
  <2>1. PICK event \in ResetEvents :
          /\ CounterRestarts(event)
          /\ NewStintAtReset
          /\ laps' = IF current = NoLap THEN laps
                     ELSE Closed(laps, current, Sample.at, ClosingKind(phase, event),
                                 "counter-reset")
          /\ crossings' = crossings
    BY <1>9 DEF CloseAtReset
  <2>2. current' \in OpenLaps /\ current'.startBoundary = "counter-reset"
    BY <1>7, <2>1, OpenAtType DEF NewStintAtReset, Boundaries, OpenAt
  <2>3. ClosingKind(phase, event) \in Kinds
    BY <1>0, <2>1, ReducerCloses DEF NewStintAtReset
  <2>4. laps' \in Seq(Laps)
    BY <1>0, <1>7, <2>1, <2>3, ClosedType DEF Boundaries
  <2> QED
    BY <1>0, <1>7, <2>1, <2>2, <2>4 DEF NewStintAtReset, TypeOK, AnchorCounted
<1>10. CASE ResetWhileInactive
  <2>1. PICK event \in ResetEvents :
          /\ CounterRestarts(event)
          /\ current' = IF current = NoLap THEN NoLap
                        ELSE [current EXCEPT !.stintLap = LapNumber]
          /\ UNCHANGED <<laps, crossings, stint>>
    BY <1>10 DEF ResetWhileInactive
  <2>2. /\ current' \in OpenLaps \cup {NoLap}
        /\ current'.startBoundary = current.startBoundary
    BY <1>0, <1>7, <2>1 DEF OpenLaps
  <2> QED
    BY <1>0, <1>7, <2>1, <2>2 DEF TypeOK, AnchorCounted
<1>11. ASSUME TakeIncrement
       PROVE  /\ highWater' \in Nat /\ Sample.at \in Nat /\ LapNumber \in Nat
              /\ resets' \subseteq [at : Nat, event : ResetEvents]
              /\ IsRecording(recording')
              /\ position' \in 1 .. (Len(recording'.samples) + 1)
              /\ pitPosition' \in 1 .. (Len(recording'.pitEvents) + 1)
              /\ finished' \in BOOLEAN
  BY <1>0, <1>11, SampleType, TakeSampleType DEF TakeIncrement, TakeSample
<1>12. CASE IgnoredRearm
  <2>1. /\ current' \in OpenLaps \cup {NoLap}
        /\ current'.startBoundary = current.startBoundary
    BY <1>0, <1>11, <1>12 DEF IgnoredRearm, OpenLaps
  <2>2. phase' \in Phases
    BY <1>0, <1>12, ReducerType DEF IgnoredRearm, Events
  <2> QED
    BY <1>0, <1>11, <1>12, <2>1, <2>2 DEF IgnoredRearm, TypeOK, AnchorCounted
<1>13. CASE IgnoredPitLaneBeacon
  BY <1>0, <1>11, <1>13 DEF IgnoredPitLaneBeacon, TypeOK, AnchorCounted
<1>14. CASE UnanchoredIncrement
  BY <1>0, <1>11, <1>14 DEF UnanchoredIncrement, CrossingAfter, TypeOK, AnchorCounted
<1>15. CASE Crossing
  <2>1. PICK left \in Departures :
          LET d == Departed(left)
          IN  /\ CrossingAfter(left)
              /\ laps' = IF d.open = NoLap THEN d.laps
                         ELSE Closed(d.laps, d.open, Sample.at,
                                     ClosingKind(d.phase, "crossing"), "counter-crossing")
              /\ current' = OpenAt(LapNumber, Sample.at, "counter-crossing")
              /\ phase' = NextPhase(d.phase, "crossing")
              /\ crossings' = crossings + 1
              /\ UNCHANGED stint
    BY <1>15 DEF Crossing
  <2>2. TakeIncrement /\ SamplesLeft
    BY <2>1 DEF CrossingAfter, TakeIncrement, TakeSample
  <2> DEFINE d == Departed(left)
  <2>3. d.laps \in Seq(Laps) /\ d.open \in OpenLaps \cup {NoLap} /\ d.phase \in Phases
    <3>1. CASE current = NoLap
      BY <1>0, <3>1 DEF Departed
    <3>2. CASE current # NoLap
      BY <1>0, <2>1, <2>2, <3>2, DepartedType, SampleType DEF Departures
    <3> QED
      BY <3>1, <3>2
  <2>4. ClosingKind(d.phase, "crossing") \in Kinds /\ phase' \in Phases
    BY <2>1, <2>3, ReducerCloses, ReducerType DEF Events
  <2>5. laps' \in Seq(Laps)
    BY <1>0, <1>11, <2>1, <2>2, <2>3, <2>4, ClosedType DEF Boundaries
  <2>6. current' \in OpenLaps
    BY <1>11, <2>1, <2>2, OpenAtType DEF Boundaries
  <2> QED
    BY <1>0, <1>11, <2>1, <2>2, <2>4, <2>5, <2>6 DEF TypeOK, AnchorCounted
<1>16. CASE Finish
  <2>1. phase' \in Phases /\ ClosingKind(phase, "end") \in Kinds
    BY <1>0, <1>16, ReducerCloses DEF Finish
  <2>2. recording.duration \in Nat
    BY DEF TypeOK, IsRecording
  <2>3. laps' \in Seq(Laps)
    BY <1>0, <1>16, <2>1, <2>2, ClosedType DEF Finish, Boundaries
  <2> QED
    BY <1>0, <1>16, <2>1, <2>3 DEF Finish, TypeOK, AnchorCounted
<1>17. CASE UNCHANGED vars
  BY <1>17 DEF vars, TypeOK, AnchorCounted
<1> QED
  BY <1>1, <1>2, <1>3, <1>4, <1>5, <1>6, <1>8, <1>9, <1>10, <1>12, <1>13, <1>14, <1>15,
     <1>16, <1>17 DEF Next

\* TypeOK holds in every state, for every set of recordings: in particular
\* the crossing count (a usize in the code) is never decremented below zero.
THEOREM TypeCorrect == Spec => []TypeOK
<1>1. Spec => []TypeInv
  BY InitType, StepType, PTL DEF Spec
<1> QED
  BY <1>1, PTL DEF TypeInv
-----------------------------------------------------------------------------
(***************************************************************************)
(* Tilings.                                                                *)
(***************************************************************************)

\* A tiling of laps that ends where an interval opens.
Tiled(ls) ==
    /\ \A i \in DOMAIN ls : ls[i].start < ls[i].end
    /\ \A i \in DOMAIN ls : i > 1 => ls[i].start = ls[i - 1].end

EndsAt(ls, t) == ls # <<>> => Last(ls).end = t

\* Appending an interval that starts where a tiling ends.
LEMMA AppendTiles ==
    ASSUME NEW ls \in Seq(Laps), NEW lap \in Laps, Tiled(ls), EndsAt(ls, lap.start),
           lap.start < lap.end
    PROVE  /\ Tiled(Append(ls, lap))
           /\ EndsAt(Append(ls, lap), lap.end)
<1> DEFINE more == Append(ls, lap)
<1>1. /\ more \in Seq(Laps) /\ Len(more) = Len(ls) + 1
      /\ \A i \in 1 .. Len(ls) : more[i] = ls[i]
      /\ more[Len(ls) + 1] = lap
      /\ Len(ls) \in Nat /\ DOMAIN ls = 1 .. Len(ls) /\ DOMAIN more = 1 .. (Len(ls) + 1)
  OBVIOUS
<1> HIDE DEF more
<1>2. ASSUME NEW i \in DOMAIN more PROVE more[i].start < more[i].end
  BY <1>1, <1>2 DEF Tiled
<1>3. ASSUME NEW i \in DOMAIN more, i > 1 PROVE more[i].start = more[i - 1].end
  <2>1. CASE i = Len(ls) + 1
    <3>1. ls # <<>> /\ i - 1 = Len(ls)
      BY <1>1, <1>3, <2>1
    <3>2. more[i - 1] = Last(ls)
      BY <1>1, <1>3, <2>1, <3>1 DEF Last
    <3> QED
      BY <1>1, <2>1, <3>1, <3>2 DEF EndsAt
  <2>2. CASE i # Len(ls) + 1
    BY <1>1, <1>3, <2>2 DEF Tiled
  <2> QED
    BY <2>1, <2>2
<1>4. Last(more) = lap
  BY <1>1 DEF Last
<1>5. Tiled(more) /\ EndsAt(more, lap.end)
  BY <1>2, <1>3, <1>4 DEF Tiled, EndsAt
<1> QED
  BY <1>5 DEF more

\* Closing an interval keeps a tiling, and extends it to the closing instant
\* if that is not before the interval's start.
LEMMA ClosedTiles ==
    ASSUME NEW ls \in Seq(Laps), NEW open \in OpenLaps, NEW until \in Nat,
           NEW kind \in Kinds, NEW boundary \in Boundaries, stint \in Nat,
           Tiled(ls), EndsAt(ls, open.start)
    PROVE  /\ Tiled(Closed(ls, open, until, kind, boundary))
           /\ open.start <= until => EndsAt(Closed(ls, open, until, kind, boundary), until)
<1> DEFINE lap == LapOf(open, until, kind, boundary)
<1>1. lap \in Laps /\ lap.start = open.start /\ lap.end = until /\ open.start \in Nat
  BY DEF LapOf, Laps, OpenLaps
<1> HIDE DEF lap
<1>2. CASE until > open.start
  <2>1. Tiled(Append(ls, lap)) /\ EndsAt(Append(ls, lap), lap.end)
    BY <1>1, <1>2, AppendTiles
  <2> QED
    BY <1>1, <1>2, <2>1 DEF Closed, lap
<1>3. CASE ~(until > open.start)
  BY <1>1, <1>3 DEF Closed
<1> QED
  BY <1>2, <1>3

(***************************************************************************)
(* The inductive invariant.                                                *)
(***************************************************************************)

\* What is open began no later than the next sample.
OpenInTime == current # NoLap /\ SamplesLeft => current.start <= Sample.at

\* Before anything is open, nothing was closed.
NothingYet ==
    /\ highWater = NoCounter => current = NoLap
    /\ current = NoLap => laps = <<>>

TileInv ==
    /\ TypeInv
    /\ Tiled(laps)
    /\ ~finished /\ current # NoLap => EndsAt(laps, current.start)
    /\ OpenInTime
    /\ NothingYet

\* The next sample is later than the one taken.
LEMMA TimeAdvances ==
    ASSUME TypeOK, TakeSample, SamplesLeft'
    PROVE  Sample.at < Sample'.at
<1>1. /\ recording.samples \in Seq(Samples)
      /\ \A i, j \in DOMAIN recording.samples :
            i < j => recording.samples[i].at < recording.samples[j].at
  BY DEF TypeOK, IsRecording
<1>2. /\ position \in DOMAIN recording.samples /\ position + 1 \in DOMAIN recording.samples
      /\ position < position + 1
  BY <1>1 DEF TypeOK, TakeSample, SamplesLeft, IsRecording
<1>3. Sample' = recording.samples[position + 1]
  BY DEF TakeSample, Sample
<1> QED
  BY <1>1, <1>2, <1>3 DEF Sample

\* An interval that was open, or opens at the sample taken, is in time.
LEMMA SampleInTime ==
    ASSUME TypeOK, OpenInTime, TakeSample,
           \/ current' = NoLap
           \/ current # NoLap /\ current'.start = current.start
           \/ current'.start = Sample.at
    PROVE  OpenInTime'
<1> SUFFICES ASSUME current' # NoLap, SamplesLeft' PROVE current'.start <= Sample'.at
  BY DEF OpenInTime
<1>1. SamplesLeft /\ Sample.at \in Nat /\ Sample.at < Sample'.at
  BY SampleType, TimeAdvances DEF TakeSample
<1>2. Sample'.at \in Nat
  <2>1. Sample' = recording.samples[position + 1]
    BY DEF TakeSample, Sample
  <2>2. recording.samples \in Seq(Samples) /\ position + 1 \in DOMAIN recording.samples
    BY DEF TypeOK, TakeSample, SamplesLeft, IsRecording
  <2>3. Sample' \in Samples
    BY <2>1, <2>2
  <2> QED
    BY <2>3 DEF Samples
<1>3. CASE current'.start = Sample.at
  BY <1>1, <1>2, <1>3
<1>4. CASE current # NoLap /\ current'.start = current.start
  <2>1. current.start <= Sample.at /\ current.start \in Nat
    BY <1>1, <1>4 DEF OpenInTime, TypeOK, OpenLaps
  <2> QED
    BY <1>1, <1>2, <1>4, <2>1
<1> QED
  BY <1>3, <1>4

\* A departure splits the open interval where it started over.
LEMMA DepartedTiles ==
    ASSUME TileInv, ~finished, current # NoLap, NEW t \in Nat, current.start <= t,
           NEW left \in DepartureIn(current.start, t)
    PROVE  /\ Tiled(Departed(left).laps)
           /\ EndsAt(Departed(left).laps, Departed(left).open.start)
           /\ Departed(left).open.start <= t
           /\ Departed(left).open \in OpenLaps
           /\ Departed(left).laps \in Seq(Laps)
           /\ Departed(left).phase \in Phases
<1>1. /\ current \in OpenLaps /\ phase \in Phases /\ laps \in Seq(Laps) /\ stint \in Nat
      /\ TypeOK /\ current.start \in Nat
  BY DEF TileInv, TypeInv, TypeOK, OpenLaps
<1>2. /\ Departed(left).open \in OpenLaps /\ Departed(left).laps \in Seq(Laps)
      /\ Departed(left).phase \in Phases
  BY <1>1, DepartedType
<1>3. CASE phase \in Inactive /\ left # NoTime
  <2>1. left \in Nat /\ current.start <= left /\ left <= t
    BY <1>1, <1>3 DEF DepartureIn, NoTime
  <2>2. ClosingKind(phase, "departure") \in Kinds
    BY <1>1, <1>3, ReducerCloses
  <2>3. Tiled(laps) /\ EndsAt(laps, current.start)
    BY DEF TileInv
  <2>4. /\ Departed(left).laps = Closed(laps, current, left, ClosingKind(phase, "departure"),
                                        "motion-departure")
        /\ Departed(left).open.start = left
    BY <1>3 DEF Departed, OpenAt
  <2> QED
    BY <1>1, <1>2, <2>1, <2>2, <2>3, <2>4, ClosedTiles DEF Boundaries
<1>4. CASE ~(phase \in Inactive /\ left # NoTime)
  BY <1>1, <1>2, <1>4 DEF Departed, TileInv
<1> QED
  BY <1>3, <1>4
(***************************************************************************)
(* The invariant is inductive.                                             *)
(***************************************************************************)
LEMMA InitTile == Init => TileInv
<1> SUFFICES ASSUME Init PROVE TileInv
  OBVIOUS
<1>1. TypeInv
  BY InitType
<1>2. Tiled(laps) /\ EndsAt(laps, current.start)
  BY DEF Init, Tiled, EndsAt
<1>3. OpenInTime /\ NothingYet
  BY DEF Init, OpenInTime, NothingYet
<1> QED
  BY <1>1, <1>2, <1>3 DEF TileInv

\* A pit event due is not after the next sample.
LEMMA PitInTime ==
    ASSUME TypeOK, PitDue, SamplesLeft
    PROVE  PitAt <= Sample.at
  BY DEF PitDue, PitAt

\* Steps that leave the laps and the start of what is open as they were.
LEMMA QuietTiles ==
    ASSUME TileInv, ~finished, TypeInv', laps' = laps, finished' = finished,
           highWater' = NoCounter => highWater = NoCounter,
           \/ current' = NoLap /\ current = NoLap
           \/ current # NoLap /\ current' # NoLap /\ current'.start = current.start,
           OpenInTime'
    PROVE  TileInv'
<1>1. Tiled(laps)' /\ NothingYet'
  BY DEF TileInv, NothingYet, Tiled
<1>2. (~finished /\ current # NoLap => EndsAt(laps, current.start))'
  BY DEF TileInv, EndsAt
<1> QED
  BY <1>1, <1>2 DEF TileInv

\* Steps that close up to an instant and open an interval there.
LEMMA OpeningTiles ==
    ASSUME TypeInv', Tiled(laps'), EndsAt(laps', current'.start), current' # NoLap,
           highWater' = NoCounter => FALSE, OpenInTime'
    PROVE  TileInv'
<1>1. NothingYet'
  BY DEF NothingYet
<1> QED
  BY <1>1 DEF TileInv, Tiled, EndsAt

LEMMA NoLapNotOpen == NoLap \notin OpenLaps
  BY DEF NoLap, OpenLaps, Boundaries

LEMMA StepTile == TileInv /\ [Next]_vars => TileInv'
<1> SUFFICES ASSUME TileInv, [Next]_vars PROVE TileInv'
  OBVIOUS
<1>0. /\ TypeOK /\ TypeInv /\ TypeInv' /\ TypeOK'
      /\ phase \in Phases /\ laps \in Seq(Laps) /\ current \in OpenLaps \cup {NoLap}
      /\ stint \in Nat /\ Tiled(laps) /\ OpenInTime /\ NothingYet
      /\ current # NoLap => current \in OpenLaps /\ current.start \in Nat
      /\ ~finished /\ current # NoLap => EndsAt(laps, current.start)
  <2>1. TypeInv /\ TypeInv' /\ TypeOK /\ TypeOK'
    BY StepType DEF TileInv, TypeInv
  <2> QED
    BY <2>1 DEF TileInv, TypeOK, OpenLaps
<1>1. ASSUME TakePitEvent, UNCHANGED <<laps, current>> PROVE TileInv'
  <2>1. OpenInTime'
    BY <1>0, <1>1 DEF TakePitEvent, OpenInTime, SamplesLeft, Sample
  <2> QED
    BY <1>0, <1>1, <2>1, QuietTiles DEF TakePitEvent
<1>2. CASE StalePitEvent \/ RedundantPitEvent
  BY <1>1, <1>2 DEF StalePitEvent, RedundantPitEvent
<1>3. ASSUME TakePitEvent, current # NoLap, PitAt > current.start, current'.start = PitAt,
             current' # NoLap, Tiled(laps'), EndsAt(laps', PitAt)
      PROVE  TileInv'
  <2>1. OpenInTime'
    BY <1>0, <1>3, PitInTime DEF TakePitEvent, OpenInTime, SamplesLeft, Sample
  <2>2. highWater' # NoCounter
    BY <1>0, <1>3 DEF TakePitEvent, NothingYet
  <2> QED
    BY <1>0, <1>3, <2>1, <2>2, OpeningTiles
<1>4. CASE GpsPitEntry
  <2>1. PICK left \in DepartureIn(current.start, PitAt) :
          LET d == Departed(left)
              kind == ClosingKind(d.phase, "pit-entry")
          IN  /\ kind # NoKind
              /\ laps' = Closed(d.laps, d.open, PitAt, kind, "gps-pit-entry")
              /\ current' = OpenAt(d.open.stintLap, PitAt, "gps-pit-entry")
    BY <1>4 DEF GpsPitEntry
  <2> DEFINE d == Departed(left)
  <2>2. /\ TakePitEvent /\ current # NoLap /\ PitAt > current.start
        /\ PitAt \in Nat /\ ~finished
    BY <1>0, <1>4, PitAtType DEF GpsPitEntry, TakePitEvent
  <2>3. /\ Tiled(d.laps) /\ EndsAt(d.laps, d.open.start) /\ d.open.start <= PitAt
        /\ d.open \in OpenLaps /\ d.laps \in Seq(Laps) /\ d.phase \in Phases
    BY <1>0, <2>2, DepartedTiles
  <2>4. ClosingKind(d.phase, "pit-entry") \in Kinds
    BY <2>1, <2>3, ReducerType DEF Events
  <2>5. Tiled(laps') /\ EndsAt(laps', PitAt)
    BY <1>0, <2>1, <2>2, <2>3, <2>4, ClosedTiles DEF Boundaries
  <2>6. current'.start = PitAt /\ current' # NoLap
    BY <2>1 DEF OpenAt, NoLap
  <2> QED
    BY <1>3, <2>2, <2>5, <2>6
<1>5. CASE GpsPitExit
  <2>1. /\ TakePitEvent /\ current # NoLap /\ PitAt > current.start
        /\ PitAt \in Nat /\ ~finished
    BY <1>0, <1>5, PitAtType DEF GpsPitExit, TakePitEvent
  <2>2. ClosingKind(phase, "departure") \in Kinds
    BY <1>0, <1>5, ReducerCloses DEF GpsPitExit
  <2>3. Tiled(laps') /\ EndsAt(laps', PitAt)
    BY <1>0, <1>5, <2>1, <2>2, ClosedTiles DEF GpsPitExit, Boundaries
  <2>4. current'.start = PitAt /\ current' # NoLap
    BY <1>5 DEF GpsPitExit, OpenAt, NoLap
  <2> QED
    BY <1>3, <2>1, <2>3, <2>4
<1>6. ASSUME TakeSample, laps' = laps, highWater' # NoCounter,
             \/ current' = NoLap /\ current = NoLap
             \/ current # NoLap /\ current' # NoLap /\ current'.start = current.start
      PROVE  TileInv'
  <2>1. OpenInTime'
    BY <1>0, <1>6, SampleInTime
  <2> QED
    BY <1>0, <1>6, <2>1, QuietTiles DEF TakeSample
<1>7. ASSUME TakeSample, highWater' # NoCounter, current'.start = Sample.at,
             current' # NoLap, Tiled(laps'), EndsAt(laps', Sample.at)
      PROVE  TileInv'
  <2>1. OpenInTime'
    BY <1>0, <1>7, SampleInTime
  <2> QED
    BY <1>0, <1>7, <2>1, OpeningTiles
<1>8. ASSUME TakeSample
      PROVE  /\ Sample.at \in Nat /\ Sample.counter # NoCounter /\ SamplesLeft /\ ~finished
             /\ current # NoLap => current.start <= Sample.at
  BY <1>0, <1>8, SampleType DEF TakeSample, NoCounter, OpenInTime
<1>9. CASE FirstSample
  <2>1. highWater' # NoCounter /\ laps = <<>> /\ laps' = laps /\ current = NoLap
    BY <1>0, <1>8, <1>9 DEF FirstSample, NothingYet
  <2>2. CASE current' = NoLap
    BY <1>6, <1>9, <2>1, <2>2 DEF FirstSample
  <2>3. CASE current' # NoLap
    <3>1. current'.start = Sample.at
      BY <1>9, <2>3 DEF FirstSample, OpenAt
    <3> QED
      BY <1>7, <1>9, <2>1, <2>3, <3>1 DEF FirstSample, Tiled, EndsAt
  <2> QED
    BY <2>2, <2>3
<1>10. CASE RepeatedSample \/ RecoveredDropout \/ IgnoredSpike \/ OverflowingCrossing
  BY <1>0, <1>6, <1>8, <1>10
     DEF RepeatedSample, RecoveredDropout, IgnoredSpike, OverflowingCrossing, Rest,
         Drops, Rises, Spike
<1>11. CASE FoldPitClose
  <2>1. PICK event \in ResetEvents, slow \in BOOLEAN :
          /\ CounterRestarts(event) /\ NewStintAtReset /\ current # NoLap
          /\ PitCloseIncrement(event, slow) /\ laps' = Folded
    BY <1>11 DEF FoldPitClose
  <2>2. TakeSample /\ highWater' # NoCounter /\ Sample.at \in Nat /\ current.start <= Sample.at
    BY <1>8, <2>1 DEF CounterRestarts
  <2>3. current'.start = Sample.at /\ current' # NoLap
    BY <2>1 DEF NewStintAtReset, OpenAt, NoLap
  <2>4. /\ laps # <<>> /\ Len(laps) \in DOMAIN laps /\ Last(laps) \in Laps
        /\ Last(laps).end = current.start /\ Last(laps) = laps[Len(laps)]
    BY <1>0, <2>1 DEF PitCloseIncrement, Last
  <2>5. /\ FoldedLap \in Laps /\ FoldedLap.start = Last(laps).start
        /\ FoldedLap.end = Sample.at
    BY <2>2, <2>4 DEF FoldedLap, Laps, Kinds, Boundaries
  <2>6. /\ laps' \in Seq(Laps) /\ Len(laps') = Len(laps) /\ laps'[Len(laps)] = FoldedLap
        /\ \A j \in DOMAIN laps : j # Len(laps) => laps'[j] = laps[j]
    BY <1>0, <2>1, <2>4, <2>5, ReplaceType DEF Folded
  <2>7. DOMAIN laps' = DOMAIN laps /\ DOMAIN laps = 1 .. Len(laps) /\ Len(laps) \in Nat
    BY <1>0, <2>6
  <2>8. Last(laps).start < Sample.at
    <3>1. Last(laps).start < Last(laps).end
      BY <1>0, <2>4 DEF Tiled
    <3>2. Last(laps).start \in Nat /\ Last(laps).end \in Nat
      BY <2>4 DEF Laps
    <3> QED
      BY <2>2, <2>4, <3>1, <3>2
  <2>9. Tiled(laps')
    <3>1. ASSUME NEW i \in DOMAIN laps PROVE laps'[i].start < laps'[i].end
      <4>1. CASE i = Len(laps)
        BY <2>5, <2>6, <2>8, <4>1
      <4>2. CASE i # Len(laps)
        BY <1>0, <2>6, <4>2 DEF Tiled
      <4> QED
        BY <4>1, <4>2
    <3>2. ASSUME NEW i \in DOMAIN laps, i > 1 PROVE laps'[i].start = laps'[i - 1].end
      <4>1. laps'[i].start = laps[i].start
        BY <2>4, <2>5, <2>6
      <4>2. i - 1 \in DOMAIN laps /\ i - 1 # Len(laps)
        BY <2>7, <3>2
      <4>3. laps'[i - 1] = laps[i - 1]
        BY <2>6, <4>2
      <4> QED
        BY <1>0, <3>2, <4>1, <4>3 DEF Tiled
    <3> QED
      BY <2>7, <3>1, <3>2 DEF Tiled
  <2>10. EndsAt(laps', Sample.at)
    BY <2>5, <2>6 DEF EndsAt, Last
  <2> QED
    BY <1>7, <2>2, <2>3, <2>9, <2>10
<1>12. CASE CloseAtReset
  <2>1. PICK event \in ResetEvents :
          /\ CounterRestarts(event) /\ NewStintAtReset
          /\ laps' = IF current = NoLap THEN laps
                     ELSE Closed(laps, current, Sample.at, ClosingKind(phase, event),
                                 "counter-reset")
    BY <1>12 DEF CloseAtReset
  <2>2. TakeSample /\ highWater' # NoCounter
    BY <1>8, <2>1 DEF CounterRestarts
  <2>3. current'.start = Sample.at /\ current' # NoLap
    BY <2>1 DEF NewStintAtReset, OpenAt, NoLap
  <2>4. Tiled(laps') /\ EndsAt(laps', Sample.at)
    <3>1. CASE current = NoLap
      BY <1>0, <2>1, <3>1 DEF NothingYet, EndsAt
    <3>2. CASE current # NoLap
      <4>1. ClosingKind(phase, event) \in Kinds
        BY <1>0, <2>1, ReducerCloses DEF NewStintAtReset
      <4> QED
        BY <1>0, <1>8, <2>1, <2>2, <3>2, <4>1, ClosedTiles DEF Boundaries
    <3> QED
      BY <3>1, <3>2
  <2> QED
    BY <1>7, <2>2, <2>3, <2>4
<1>13. CASE ResetWhileInactive
  <2>1. PICK event \in ResetEvents :
          /\ CounterRestarts(event)
          /\ current' = IF current = NoLap THEN NoLap
                        ELSE [current EXCEPT !.stintLap = LapNumber]
          /\ laps' = laps
    BY <1>13 DEF ResetWhileInactive
  <2>2. TakeSample /\ highWater' # NoCounter
    BY <1>8, <2>1 DEF CounterRestarts
  <2>3. current # NoLap => current' # NoLap /\ current'.start = current.start
    <3>1. LapNumber \in Nat
      BY <1>0, <1>8, <2>2, SampleType
    <3>2. current # NoLap => current' \in OpenLaps /\ current'.start = current.start
      BY <1>0, <2>1, <3>1 DEF OpenLaps
    <3> QED
      BY <3>2, NoLapNotOpen
  <2> QED
    BY <1>6, <2>1, <2>2, <2>3
<1>14. ASSUME TakeIncrement PROVE TakeSample /\ highWater' # NoCounter /\ LapNumber \in Nat
  BY <1>0, <1>8, <1>14, SampleType DEF TakeIncrement
<1>15. CASE IgnoredRearm
  <2>1. current # NoLap => current' # NoLap /\ current'.start = current.start
    <3>1. current # NoLap => current' \in OpenLaps /\ current'.start = current.start
      BY <1>0, <1>14, <1>15 DEF OpenLaps, IgnoredRearm
    <3> QED
      BY <3>1, NoLapNotOpen
  <2>2. current = NoLap => current' = NoLap
    BY <1>15 DEF IgnoredRearm
  <2> QED
    BY <1>6, <1>14, <1>15, <2>1, <2>2 DEF IgnoredRearm
<1>16. CASE IgnoredPitLaneBeacon \/ UnanchoredIncrement
  <2>1. TakeIncrement /\ UNCHANGED <<laps, current>>
    BY <1>16 DEF IgnoredPitLaneBeacon, UnanchoredIncrement, CrossingAfter
  <2> QED
    BY <1>6, <1>14, <2>1
<1>17. CASE Crossing
  <2>1. PICK left \in Departures :
          LET d == Departed(left)
          IN  /\ CrossingAfter(left)
              /\ laps' = IF d.open = NoLap THEN d.laps
                         ELSE Closed(d.laps, d.open, Sample.at,
                                     ClosingKind(d.phase, "crossing"), "counter-crossing")
              /\ current' = OpenAt(LapNumber, Sample.at, "counter-crossing")
    BY <1>17 DEF Crossing
  <2> DEFINE d == Departed(left)
  <2>2. TakeSample /\ highWater' # NoCounter
    BY <1>14, <2>1 DEF CrossingAfter
  <2>3. current'.start = Sample.at /\ current' # NoLap
    BY <2>1 DEF OpenAt, NoLap
  <2>4. Tiled(laps') /\ EndsAt(laps', Sample.at)
    <3>1. CASE current = NoLap
      <4>1. laps' = laps /\ laps = <<>>
        BY <1>0, <2>1, <3>1 DEF Departed, NothingYet
      <4> QED
        BY <1>0, <4>1 DEF EndsAt
    <3>2. CASE current # NoLap
      <4>1. /\ Tiled(d.laps) /\ EndsAt(d.laps, d.open.start) /\ d.open.start <= Sample.at
            /\ d.open \in OpenLaps /\ d.laps \in Seq(Laps) /\ d.phase \in Phases
        BY <1>0, <1>8, <2>1, <2>2, <3>2, DepartedTiles DEF Departures
      <4>2. ClosingKind(d.phase, "crossing") \in Kinds
        BY <4>1, ReducerCloses
      <4>3. laps' = Closed(d.laps, d.open, Sample.at, ClosingKind(d.phase, "crossing"),
                           "counter-crossing")
        BY <2>1, <4>1, NoLapNotOpen
      <4> QED
        BY <1>0, <1>8, <2>2, <4>1, <4>2, <4>3, ClosedTiles DEF Boundaries
    <3> QED
      BY <3>1, <3>2
  <2> QED
    BY <1>7, <2>2, <2>3, <2>4
<1>18. CASE Finish
  <2>1. finished' /\ current' = current /\ highWater' = highWater /\ ~SamplesLeft' /\ ~finished
    BY <1>18 DEF Finish, SamplesLeft
  <2>2. ClosingKind(phase, "end") \in Kinds /\ recording.duration \in Nat
    BY <1>0, ReducerCloses DEF TypeOK, IsRecording
  <2>3. Tiled(laps')
    BY <1>0, <1>18, <2>1, <2>2, ClosedTiles DEF Finish, Boundaries
  <2>4. OpenInTime'
    BY <2>1 DEF OpenInTime
  <2>5. NothingYet'
    BY <1>0, <1>18, <2>1 DEF NothingYet, Finish
  <2>6. Tiled(laps)'
    BY <2>3 DEF Tiled
  <2> QED
    BY <1>0, <2>1, <2>4, <2>5, <2>6 DEF TileInv
<1>19. CASE UNCHANGED vars
  BY <1>0, <1>19 DEF vars, TileInv, Tiled, EndsAt, OpenInTime, NothingYet, SamplesLeft, Sample
<1> QED
  BY <1>2, <1>4, <1>5, <1>9, <1>10, <1>11, <1>12, <1>13, <1>15, <1>16, <1>17, <1>18, <1>19
     DEF Next

\* Every recording is cut into intervals without gaps or overlaps, whatever
\* departures are backdated, pit events merged in and laps folded.
THEOREM Tiling == Spec => []LapsTile
<1>1. TileInv => LapsTile
  BY DEF TileInv, Tiled, EndsAt, LapsTile
<1>2. Spec => []TileInv
  BY InitTile, StepTile, PTL DEF Spec
<1> QED
  BY <1>1, <1>2, PTL
-----------------------------------------------------------------------------
(***************************************************************************)
(* Kinds and boundaries.                                                   *)
(***************************************************************************)
KindFits(kind, starts, ends) ==
    CASE kind = "flying" -> ends = "counter-crossing"
      [] kind = "out" -> starts \in ActivityStarts /\ ends = "counter-crossing"
      [] kind = "out-in" -> starts \in ActivityStarts /\ ends \in ActivityEnds
      [] kind = "in" -> ends \in ActivityEnds
                        /\ (starts # "counter-crossing" => ends = "counter-reset")
      [] kind \in {"pit", "stopped"} ->
            /\ starts \notin {"counter-crossing", "motion-departure", "gps-pit-exit"}
            /\ ends \in {"motion-departure", "gps-pit-exit", "recording-edge"}
      [] OTHER -> starts = "counter-reset" \/ ends = "counter-reset"

Fit(ls) == \A i \in DOMAIN ls : KindFits(ls[i].kind, ls[i].startBoundary, ls[i].endBoundary)

\* What the phase says of the boundary the open interval starts at.
PhaseFits(p, starts) ==
    /\ p = "initial" => starts \in {"none", "recording-edge"}
    /\ p = "on-track" => starts = "counter-crossing"
    /\ p = "out" => starts \in {"motion-departure", "gps-pit-exit"}
    /\ p \in {"pit", "stopped"} =>
          starts \in {"none", "recording-edge", "counter-reset", "gps-pit-entry"}
    /\ p = "uncertain" => starts = "counter-reset"

\* The boundaries an event puts at the end of the interval it closes.
EndsOf(e) ==
    CASE e = "crossing" -> {"counter-crossing"}
      [] e \in ResetEvents -> {"counter-reset"}
      [] e = "pit-entry" -> {"gps-pit-entry"}
      [] e = "departure" -> {"motion-departure", "gps-pit-exit"}
      [] OTHER -> {"recording-edge"}

\* The reducer's kind fits the boundaries: the central case distinction.
LEMMA KindOfEventFits ==
    ASSUME NEW p \in Phases, NEW e \in ResetEvents \cup {"crossing", "pit-entry", "departure", "end"},
           NEW starts \in Boundaries, NEW ends \in EndsOf(e), PhaseFits(p, starts),
           e = "crossing" => p \notin {"pit", "stopped"},
           e \in ResetEvents => p \in Active,
           ClosingKind(p, e) # NoKind
    PROVE  KindFits(ClosingKind(p, e), starts, ends)
<1>1. CASE e = "crossing"
  BY <1>1 DEF Phases, PhaseFits, ClosingKind, CrossedKind, KindFits, EndsOf, NoKind,
              ActivityStarts, ActivityEnds, ResetEvents, Boundaries
<1>2. CASE e = "pit-entry"
  BY <1>2 DEF Phases, PhaseFits, ClosingKind, FragmentKind, KindFits, EndsOf, NoKind,
              ActivityStarts, ActivityEnds, ResetEvents, Boundaries
<1>3. CASE e = "departure"
  BY <1>3 DEF Phases, PhaseFits, ClosingKind, KindFits, EndsOf, NoKind, Inactive, Active,
              ActivityStarts, ActivityEnds, ResetEvents, Boundaries
<1>4. CASE e = "end"
  BY <1>4 DEF Phases, PhaseFits, ClosingKind, FragmentKind, KindFits, EndsOf, NoKind,
              ActivityStarts, ActivityEnds, ResetEvents, Boundaries
<1>5. CASE e \in ResetEvents
  BY <1>5 DEF Phases, PhaseFits, ClosingKind, FragmentKind, KindFits, EndsOf, NoKind, Active,
              ActivityStarts, ActivityEnds, ResetEvents, Boundaries
<1> QED
  BY <1>1, <1>2, <1>3, <1>4, <1>5

\* Closing an interval whose kind fits keeps the list fit.
LEMMA ClosedFits ==
    ASSUME NEW ls \in Seq(Laps), NEW open \in OpenLaps, NEW until \in Nat,
           NEW kind \in Kinds, NEW boundary \in Boundaries, stint \in Nat,
           Fit(ls), KindFits(kind, open.startBoundary, boundary)
    PROVE  Fit(Closed(ls, open, until, kind, boundary))
<1> DEFINE lap == LapOf(open, until, kind, boundary)
<1>1. lap.kind = kind /\ lap.startBoundary = open.startBoundary /\ lap.endBoundary = boundary
  BY DEF LapOf
<1> HIDE DEF lap
<1>2. Fit(Append(ls, lap))
  BY <1>1 DEF Fit
<1> QED
  BY <1>2 DEF Closed, lap

(***************************************************************************)
(* The inductive invariant.                                                *)
(***************************************************************************)
KindInv ==
    /\ TileInv
    /\ Fit(laps)
    /\ PhaseFits(phase, current.startBoundary)

\* A departure leaves a fit list and a fit phase.
LEMMA DepartedFits ==
    ASSUME KindInv, NEW t \in Nat, current # NoLap,
           NEW left \in DepartureIn(current.start, t)
    PROVE  /\ Fit(Departed(left).laps)
           /\ PhaseFits(Departed(left).phase, Departed(left).open.startBoundary)
<1>1. /\ current \in OpenLaps /\ phase \in Phases /\ laps \in Seq(Laps) /\ stint \in Nat
      /\ current.start \in Nat /\ current.startBoundary \in Boundaries
  BY DEF KindInv, TileInv, TypeInv, TypeOK, OpenLaps
<1>2. CASE phase \in Inactive /\ left # NoTime
  <2>1. left \in Nat
    BY <1>1, <1>2 DEF DepartureIn, NoTime
  <2>2. ClosingKind(phase, "departure") \in Kinds /\ NextPhase(phase, "departure") = "out"
    BY <1>1, <1>2, ReducerCloses
  <2>3. KindFits(ClosingKind(phase, "departure"), current.startBoundary, "motion-departure")
    <3>1. "motion-departure" \in EndsOf("departure")
      BY DEF EndsOf, ResetEvents
    <3>2. ClosingKind(phase, "departure") # NoKind
      BY <2>2 DEF Kinds, NoKind
    <3> QED
      BY <1>1, <3>1, <3>2, KindOfEventFits DEF KindInv, ResetEvents
  <2>4. Fit(Closed(laps, current, left, ClosingKind(phase, "departure"), "motion-departure"))
    BY <1>1, <2>1, <2>2, <2>3, ClosedFits DEF Boundaries, KindInv
  <2>5. PhaseFits("out", "motion-departure")
    BY DEF PhaseFits
  <2> QED
    BY <1>2, <2>2, <2>4, <2>5 DEF Departed, OpenAt
<1>3. CASE ~(phase \in Inactive /\ left # NoTime)
  BY <1>3 DEF Departed, KindInv
<1> QED
  BY <1>2, <1>3

LEMMA InitKind == Init => KindInv
<1> SUFFICES ASSUME Init PROVE KindInv
  OBVIOUS
<1>1. TileInv
  BY InitTile
<1>2. Fit(laps)
  BY DEF Init, Fit
<1>3. PhaseFits(phase, current.startBoundary)
  <2>1. current.startBoundary = "none"
    BY DEF Init, NoLap
  <2>2. IsRecording(recording)
    BY RecordingAssumption DEF Init
  <2>3. phase \in {"initial", "pit", "stopped"}
    BY <2>2 DEF Init, IsRecording
  <2> QED
    BY <2>1, <2>3 DEF PhaseFits
<1> QED
  BY <1>1, <1>2, <1>3 DEF KindInv

LEMMA StepKind == KindInv /\ [Next]_vars => KindInv'
<1> SUFFICES ASSUME KindInv, [Next]_vars PROVE KindInv'
  OBVIOUS
<1>0. /\ TileInv /\ TileInv' /\ TypeOK /\ Fit(laps) /\ PhaseFits(phase, current.startBoundary)
      /\ phase \in Phases /\ laps \in Seq(Laps) /\ stint \in Nat
      /\ current \in OpenLaps \cup {NoLap}
      /\ current # NoLap =>
            current \in OpenLaps /\ current.start \in Nat /\ current.startBoundary \in Boundaries
  <2>1. TileInv /\ TileInv' /\ TypeOK
    BY StepTile DEF KindInv, TileInv, TypeInv
  <2> QED
    BY <2>1 DEF KindInv, TypeOK, OpenLaps
<1>1. SUFFICES Fit(laps') /\ PhaseFits(phase', current'.startBoundary)
  BY <1>0 DEF KindInv, Fit
<1>2. ASSUME UNCHANGED <<phase, laps, current>>
      PROVE  Fit(laps') /\ PhaseFits(phase', current'.startBoundary)
  BY <1>0, <1>2
<1>3. CASE GpsPitEntry
  <2>1. PICK left \in DepartureIn(current.start, PitAt) :
          LET d == Departed(left)
              kind == ClosingKind(d.phase, "pit-entry")
          IN  /\ kind # NoKind
              /\ laps' = Closed(d.laps, d.open, PitAt, kind, "gps-pit-entry")
              /\ current' = OpenAt(d.open.stintLap, PitAt, "gps-pit-entry")
              /\ phase' = NextPhase(d.phase, "pit-entry")
    BY <1>3 DEF GpsPitEntry
  <2> DEFINE d == Departed(left)
  <2>2. current # NoLap /\ PitAt \in Nat
    BY <1>0, <1>3, PitAtType DEF GpsPitEntry, TakePitEvent
  <2>3. /\ Fit(d.laps) /\ PhaseFits(d.phase, d.open.startBoundary)
        /\ d.open \in OpenLaps /\ d.laps \in Seq(Laps) /\ d.phase \in Phases
    BY <1>0, <2>2, DepartedFits, DepartedType
  <2>4. d.open.startBoundary \in Boundaries
    BY <2>3 DEF OpenLaps
  <2>5. KindFits(ClosingKind(d.phase, "pit-entry"), d.open.startBoundary, "gps-pit-entry")
    <3>1. "gps-pit-entry" \in EndsOf("pit-entry")
      BY DEF EndsOf, ResetEvents
    <3> QED
      BY <2>1, <2>3, <2>4, <3>1, KindOfEventFits DEF ResetEvents
  <2>6. ClosingKind(d.phase, "pit-entry") \in Kinds
    BY <2>1, <2>3, ReducerType DEF Events
  <2>7. Fit(laps')
    BY <1>0, <2>1, <2>2, <2>3, <2>5, <2>6, ClosedFits DEF Boundaries
  <2>8. phase' \in {"pit", "stopped"} /\ current'.startBoundary = "gps-pit-entry"
    BY <2>1, <2>3, ReducerCloses DEF OpenAt
  <2> QED
    BY <2>7, <2>8 DEF PhaseFits
<1>4. CASE GpsPitExit
  <2>1. current # NoLap /\ PitAt \in Nat /\ phase \in Inactive
    BY <1>0, <1>4, PitAtType DEF GpsPitExit, TakePitEvent
  <2>2. ClosingKind(phase, "departure") \in Kinds /\ NextPhase(phase, "departure") = "out"
    BY <1>0, <2>1, ReducerCloses
  <2>3. KindFits(ClosingKind(phase, "departure"), current.startBoundary, "gps-pit-exit")
    <3>1. "gps-pit-exit" \in EndsOf("departure")
      BY DEF EndsOf, ResetEvents
    <3>2. ClosingKind(phase, "departure") # NoKind
      BY <2>2 DEF Kinds, NoKind
    <3> QED
      BY <1>0, <2>1, <3>1, <3>2, KindOfEventFits DEF ResetEvents
  <2>4. Fit(laps')
    BY <1>0, <1>4, <2>1, <2>2, <2>3, ClosedFits DEF Boundaries, GpsPitExit
  <2> QED
    BY <1>4, <2>2, <2>4 DEF PhaseFits, GpsPitExit, OpenAt
<1>5. CASE FirstSample
  <2>1. laps' = laps /\ phase' = phase /\ current = NoLap
    BY <1>0, <1>5 DEF FirstSample, TileInv, NothingYet
  <2>2. current'.startBoundary \in {"none", "recording-edge"}
    BY <1>5 DEF FirstSample, OpenAt, NoLap
  <2>3. phase \in {"initial", "pit", "stopped"}
    BY <1>0, <2>1 DEF PhaseFits, NoLap, Phases
  <2> QED
    BY <1>0, <2>1, <2>2, <2>3 DEF PhaseFits
<1>6. ASSUME NEW event \in ResetEvents, CounterRestarts(event)
      PROVE  phase' = NextPhase(phase, event) /\ TakeSample /\ Sample.at \in Nat
  BY <1>0, <1>6, SampleType DEF CounterRestarts, TakeSample
<1>7. ASSUME NEW event \in ResetEvents, phase' = NextPhase(phase, event),
             current'.startBoundary = "counter-reset"
      PROVE  PhaseFits(phase', current'.startBoundary)
  <2>1. NextPhase(phase, event) \in Inactive
    BY <1>0, ReducerCloses
  <2> QED
    BY <1>7, <2>1 DEF PhaseFits, Inactive, Active, Phases
<1>8. CASE FoldPitClose
  <2>1. PICK event \in ResetEvents, slow \in BOOLEAN :
          /\ CounterRestarts(event) /\ NewStintAtReset
          /\ PitCloseIncrement(event, slow) /\ laps' = Folded
    BY <1>8 DEF FoldPitClose
  <2>2. PhaseFits(phase', current'.startBoundary)
    BY <1>6, <1>7, <2>1 DEF NewStintAtReset, OpenAt
  <2>3. Len(laps) \in DOMAIN laps /\ Last(laps) \in Laps /\ Last(laps) = laps[Len(laps)]
    BY <1>0, <2>1 DEF PitCloseIncrement, Last
  <2>4. /\ FoldedLap.startBoundary = Last(laps).startBoundary
        /\ FoldedLap.endBoundary = "counter-reset"
        /\ FoldedLap.kind = IF Last(laps).kind = "out" THEN "out-in" ELSE "in"
        /\ FoldedLap \in Laps
    BY <1>6, <2>1, <2>3 DEF FoldedLap, Laps, Kinds, Boundaries
  <2>5. KindFits(FoldedLap.kind, FoldedLap.startBoundary, FoldedLap.endBoundary)
    <3>1. KindFits(Last(laps).kind, Last(laps).startBoundary, Last(laps).endBoundary)
      BY <1>0, <2>3 DEF Fit
    <3> QED
      BY <2>4, <3>1 DEF KindFits, ActivityStarts, ActivityEnds
  <2>6. /\ DOMAIN laps' = DOMAIN laps /\ laps'[Len(laps)] = FoldedLap
        /\ \A j \in DOMAIN laps : j # Len(laps) => laps'[j] = laps[j]
    BY <1>0, <2>1, <2>3, <2>4, ReplaceType DEF Folded
  <2>7. Fit(laps')
    BY <1>0, <2>5, <2>6 DEF Fit
  <2> QED
    BY <2>2, <2>7
<1>9. CASE CloseAtReset
  <2>1. PICK event \in ResetEvents :
          /\ CounterRestarts(event) /\ NewStintAtReset
          /\ laps' = IF current = NoLap THEN laps
                     ELSE Closed(laps, current, Sample.at, ClosingKind(phase, event),
                                 "counter-reset")
    BY <1>9 DEF CloseAtReset
  <2>2. PhaseFits(phase', current'.startBoundary)
    BY <1>6, <1>7, <2>1 DEF NewStintAtReset, OpenAt
  <2>3. Fit(laps')
    <3>1. CASE current = NoLap
      BY <1>0, <2>1, <3>1
    <3>2. CASE current # NoLap
      <4>1. phase \in Active /\ ClosingKind(phase, event) \in Kinds
        BY <1>0, <2>1, ReducerCloses DEF NewStintAtReset
      <4>2. ClosingKind(phase, event) # NoKind
        BY <4>1 DEF Kinds, NoKind
      <4>3. "counter-reset" \in EndsOf(event)
        BY DEF EndsOf, ResetEvents
      <4>4. KindFits(ClosingKind(phase, event), current.startBoundary, "counter-reset")
        BY <1>0, <3>2, <4>1, <4>2, <4>3, KindOfEventFits DEF ResetEvents
      <4> QED
        BY <1>0, <1>6, <2>1, <3>2, <4>1, <4>4, ClosedFits DEF Boundaries
    <3> QED
      BY <3>1, <3>2
  <2> QED
    BY <2>2, <2>3
<1>10. CASE ResetWhileInactive
  <2>1. PICK event \in ResetEvents :
          /\ CounterRestarts(event) /\ phase \in Inactive
          /\ current' = IF current = NoLap THEN NoLap
                        ELSE [current EXCEPT !.stintLap = LapNumber]
          /\ laps' = laps
    BY <1>10 DEF ResetWhileInactive
  <2>2. current'.startBoundary = current.startBoundary
    BY <1>0, <2>1 DEF OpenLaps
  <2>3. phase' = NextPhase(phase, event)
    BY <1>6, <2>1
  <2>4. PhaseFits(NextPhase(phase, event), current.startBoundary)
    BY <1>0, <2>1 DEF PhaseFits, NextPhase, Inactive, Active, Phases, ResetEvents
  <2> QED
    BY <1>0, <2>1, <2>2, <2>3, <2>4
<1>11. CASE IgnoredRearm
  <2>1. current'.startBoundary = current.startBoundary
    BY <1>0, <1>11 DEF IgnoredRearm, OpenLaps
  <2>2. phase' = phase /\ laps' = laps
    BY <1>0, <1>11, ReducerCloses DEF IgnoredRearm
  <2> QED
    BY <1>0, <2>1, <2>2
<1>12. CASE Crossing
  <2>1. PICK left \in Departures :
          LET d == Departed(left)
          IN  /\ CrossingAfter(left)
              /\ d.phase \notin {"pit", "stopped"}
              /\ laps' = IF d.open = NoLap THEN d.laps
                         ELSE Closed(d.laps, d.open, Sample.at,
                                     ClosingKind(d.phase, "crossing"), "counter-crossing")
              /\ current' = OpenAt(LapNumber, Sample.at, "counter-crossing")
              /\ phase' = NextPhase(d.phase, "crossing")
    BY <1>12 DEF Crossing
  <2> DEFINE d == Departed(left)
  <2>2. SamplesLeft /\ Sample.at \in Nat
    BY <1>0, <2>1, SampleType DEF CrossingAfter, TakeIncrement, TakeSample
  <2>3. CASE current = NoLap
    <3>1. d.phase = phase /\ d.laps = laps /\ d.open = NoLap
      BY <2>3 DEF Departed
    <3>2. phase' = "on-track"
      BY <1>0, <2>1, <3>1, ReducerCloses
    <3> QED
      BY <1>0, <2>1, <3>1, <3>2 DEF PhaseFits, OpenAt
  <2>4. CASE current # NoLap
    <3>1. /\ Fit(d.laps) /\ PhaseFits(d.phase, d.open.startBoundary)
          /\ d.open \in OpenLaps /\ d.laps \in Seq(Laps) /\ d.phase \in Phases
      BY <1>0, <2>1, <2>2, <2>4, DepartedFits, DepartedType DEF Departures
    <3>2. d.open.startBoundary \in Boundaries /\ d.open # NoLap
      BY <3>1, NoLapNotOpen DEF OpenLaps
    <3>3. ClosingKind(d.phase, "crossing") \in Kinds /\ phase' = "on-track"
      BY <2>1, <3>1, ReducerCloses
    <3>4. KindFits(ClosingKind(d.phase, "crossing"), d.open.startBoundary, "counter-crossing")
      <4>1. "counter-crossing" \in EndsOf("crossing")
        BY DEF EndsOf, ResetEvents
      <4>2. ClosingKind(d.phase, "crossing") # NoKind
        BY <3>3 DEF Kinds, NoKind
      <4> QED
        BY <2>1, <3>1, <3>2, <4>1, <4>2, KindOfEventFits DEF ResetEvents
    <3>5. Fit(laps')
      BY <1>0, <2>1, <2>2, <3>1, <3>2, <3>3, <3>4, ClosedFits DEF Boundaries
    <3> QED
      BY <2>1, <3>3, <3>5 DEF PhaseFits, OpenAt
  <2> QED
    BY <2>3, <2>4
<1>13. CASE Finish
  <2>1. current' = current /\ phase' = phase
    BY <1>0, <1>13, ReducerCloses DEF Finish
  <2>2. Fit(laps')
    <3>1. CASE current = NoLap
      BY <1>0, <1>13, <3>1 DEF Finish
    <3>2. CASE current # NoLap
      <4>1. ClosingKind(phase, "end") \in Kinds /\ recording.duration \in Nat
        BY <1>0, ReducerCloses DEF TypeOK, IsRecording
      <4>2. ClosingKind(phase, "end") # NoKind
        BY <4>1 DEF Kinds, NoKind
      <4>3. "recording-edge" \in EndsOf("end")
        BY DEF EndsOf, ResetEvents
      <4>4. KindFits(ClosingKind(phase, "end"), current.startBoundary, "recording-edge")
        BY <1>0, <3>2, <4>1, <4>2, <4>3, KindOfEventFits DEF ResetEvents
      <4> QED
        BY <1>0, <1>13, <3>2, <4>1, <4>4, ClosedFits DEF Boundaries, Finish
    <3> QED
      BY <3>1, <3>2
  <2> QED
    BY <1>0, <2>1, <2>2
<1>14. CASE \/ StalePitEvent \/ RedundantPitEvent \/ RepeatedSample \/ RecoveredDropout
            \/ IgnoredSpike \/ OverflowingCrossing \/ IgnoredPitLaneBeacon
            \/ UnanchoredIncrement \/ UNCHANGED vars
  BY <1>2, <1>14
     DEF StalePitEvent, RedundantPitEvent, RepeatedSample, RecoveredDropout, IgnoredSpike,
         OverflowingCrossing, IgnoredPitLaneBeacon, UnanchoredIncrement, Rest, vars
<1> QED
  BY <1>3, <1>4, <1>5, <1>8, <1>9, <1>10, <1>11, <1>12, <1>13, <1>14 DEF Next

\* The kind of every interval fits the evidence at its ends, however resets,
\* departures, pit visits and folds follow each other.
THEOREM KindsFit == Spec => []KindsMatchBoundaries
<1>1. KindInv => KindsMatchBoundaries
  BY DEF KindInv, Fit, KindFits, KindsMatchBoundaries
<1>2. Spec => []KindInv
  BY InitKind, StepKind, PTL DEF Spec
<1> QED
  BY <1>1, <1>2, PTL

(***************************************************************************)
(* Extending a list of laps.                                               *)
(***************************************************************************)

\* `more` is `ls` with at most n intervals added that fill [start, until].
Extension(ls, more, n, start, until) ==
    /\ Len(more) \in Len(ls) .. (Len(ls) + n)
    /\ \A i \in 1 .. Len(ls) : more[i] = ls[i]
    /\ Len(more) = Len(ls) => until = start
    /\ Len(more) > Len(ls) => /\ more[Len(ls) + 1].start = start
                              /\ more[Len(more)].end = until

NoneFlies(ls, more) == \A i \in (Len(ls) + 1) .. Len(more) : more[i].kind # "flying"

\* Closing an interval extends the list by it, or by nothing.
LEMMA ClosedExtends ==
    ASSUME NEW ls \in Seq(Laps), NEW open \in OpenLaps, NEW until \in Nat,
           NEW kind \in Kinds, NEW boundary \in Boundaries, stint \in Nat,
           open.start <= until
    PROVE  LET more == Closed(ls, open, until, kind, boundary)
           IN  /\ Extension(ls, more, 1, open.start, until)
               /\ kind # "flying" => NoneFlies(ls, more)
               /\ open.start < until => /\ Len(more) = Len(ls) + 1
                                        /\ more[Len(ls) + 1].kind = kind
                                        /\ more[Len(ls) + 1].endBoundary = boundary
<1> DEFINE lap == LapOf(open, until, kind, boundary)
           more == Closed(ls, open, until, kind, boundary)
<1>1. /\ lap.kind = kind /\ lap.start = open.start /\ lap.end = until
      /\ lap.endBoundary = boundary /\ open.start \in Nat
  BY DEF LapOf, OpenLaps
<1> HIDE DEF lap
<1>2. CASE until > open.start
  <2>1. more = Append(ls, lap)
    BY <1>2 DEF Closed, lap
  <2> HIDE DEF more
  <2>2. /\ Len(more) = Len(ls) + 1 /\ more[Len(ls) + 1] = lap /\ Len(ls) \in Nat
        /\ \A i \in 1 .. Len(ls) : more[i] = ls[i]
    BY <2>1
  <2>3. Extension(ls, more, 1, open.start, until) /\ (kind # "flying" => NoneFlies(ls, more))
    BY <1>1, <2>2 DEF Extension, NoneFlies
  <2> QED
    BY <1>1, <2>2, <2>3 DEF more
<1>3. CASE ~(until > open.start)
  <2>1. more = ls /\ until = open.start
    BY <1>1, <1>3 DEF Closed
  <2> HIDE DEF more
  <2>2. Extension(ls, more, 1, open.start, until) /\ NoneFlies(ls, more)
    BY <1>1, <2>1 DEF Extension, NoneFlies
  <2> QED
    BY <1>1, <1>3, <2>2 DEF more
<1> QED
  BY <1>2, <1>3

\* One extension after another.
LEMMA ExtensionChain ==
    ASSUME NEW a \in Seq(Laps), NEW b \in Seq(Laps), NEW c \in Seq(Laps),
           NEW s, NEW t, NEW u, Extension(a, b, 1, s, t), Extension(b, c, 1, t, u)
    PROVE  /\ Extension(a, c, 2, s, u)
           /\ NoneFlies(a, b) /\ NoneFlies(b, c) => NoneFlies(a, c)
<1>1. Len(a) \in Nat /\ Len(b) \in Nat /\ Len(c) \in Nat
  OBVIOUS
<1>2. Extension(a, c, 2, s, u)
  BY <1>1 DEF Extension
<1>3. ASSUME NoneFlies(a, b), NoneFlies(b, c) PROVE NoneFlies(a, c)
  <2>1. ASSUME NEW i \in (Len(a) + 1) .. Len(c) PROVE c[i].kind # "flying"
    <3>1. CASE i <= Len(b)
      BY <1>1, <1>3, <3>1 DEF Extension, NoneFlies
    <3>2. CASE i > Len(b)
      BY <1>1, <1>3, <3>2 DEF Extension, NoneFlies
    <3> QED
      BY <1>1, <3>1, <3>2
  <2> QED
    BY <2>1 DEF NoneFlies
<1> QED
  BY <1>2, <1>3

\* A departure extends the list by an interval that does not fly.
LEMMA DepartedExtends ==
    ASSUME KindInv, ~finished, current # NoLap, NEW t \in Nat, current.start <= t,
           NEW left \in DepartureIn(current.start, t)
    PROVE  /\ Extension(laps, Departed(left).laps, 1, current.start, Departed(left).open.start)
           /\ NoneFlies(laps, Departed(left).laps)
           /\ phase \in Active => Departed(left).laps = laps /\ Departed(left).open = current
                                  /\ Departed(left).phase = phase
           /\ Departed(left).phase = "on-track" => phase = "on-track"
           /\ phase \in Inactive /\ Departed(left).phase # phase =>
                 /\ Len(Departed(left).laps) = Len(laps) + 1
                 /\ Departed(left).laps[Len(laps) + 1].kind = phase
                 /\ Departed(left).laps[Len(laps) + 1].endBoundary = "motion-departure"
<1>1. /\ current \in OpenLaps /\ phase \in Phases /\ laps \in Seq(Laps) /\ stint \in Nat
      /\ current.start \in Nat
  BY DEF KindInv, TileInv, TypeInv, TypeOK, OpenLaps
<1>2. CASE phase \in Inactive /\ left # NoTime
  <2>1. left \in Nat /\ current.start < left /\ left <= t
    BY <1>1, <1>2 DEF DepartureIn, NoTime
  <2>2. /\ ClosingKind(phase, "departure") \in Kinds /\ ClosingKind(phase, "departure") = phase
        /\ phase # "flying" /\ phase # "on-track" /\ phase \notin Active
        /\ NextPhase(phase, "departure") = "out"
    BY <1>1, <1>2, ReducerCloses DEF ClosingKind, Inactive, Active, Phases
  <2>3. /\ Departed(left).laps = Closed(laps, current, left, phase, "motion-departure")
        /\ Departed(left).open.start = left
        /\ Departed(left).phase = "out"
    BY <1>2, <2>2 DEF Departed, OpenAt
  <2>4. /\ Extension(laps, Departed(left).laps, 1, current.start, left)
        /\ NoneFlies(laps, Departed(left).laps)
        /\ Len(Departed(left).laps) = Len(laps) + 1
        /\ Departed(left).laps[Len(laps) + 1].kind = phase
        /\ Departed(left).laps[Len(laps) + 1].endBoundary = "motion-departure"
    BY <1>1, <2>1, <2>2, <2>3, ClosedExtends DEF Boundaries
  <2> QED
    BY <2>2, <2>3, <2>4
<1>3. CASE ~(phase \in Inactive /\ left # NoTime)
  <2>1. Departed(left).laps = laps /\ Departed(left).open = current
        /\ Departed(left).phase = phase
    BY <1>3 DEF Departed
  <2>2. Extension(laps, laps, 1, current.start, current.start) /\ NoneFlies(laps, laps)
    BY <1>1 DEF Extension, NoneFlies
  <2> QED
    BY <2>1, <2>2
<1> QED
  BY <1>2, <1>3
(***************************************************************************)
(* What every step does to the list: it extends it, or folds.              *)
(***************************************************************************)

\* An event that leaves the phase pit or stopped while nothing closes is
\* none that a departure precedes.
LEMMA PitPhaseStays ==
    ASSUME NEW p \in {"pit", "stopped"},
           NEW e \in ResetEvents \cup {"rearm", "end", "pit-entry"}
    PROVE  NextPhase(p, e) \in {"pit", "stopped"}
  BY DEF NextPhase, ResetEvents

\* The fold replaces the last lap of a list and nothing else.
LEMMA FoldReplacesLast ==
    ASSUME TypeOK, NEW event \in ResetEvents, NEW slow \in BOOLEAN,
           CounterRestarts(event), PitCloseIncrement(event, slow), laps' = Folded
    PROVE  /\ laps # <<>> /\ Len(laps) \in DOMAIN laps /\ Len(laps') = Len(laps)
           /\ Last(laps) = laps[Len(laps)] /\ Last(laps).end = current.start
           /\ laps'[Len(laps)] = FoldedLap
           /\ \A j \in 1 .. (Len(laps) - 1) : laps'[j] = laps[j]
           /\ FoldedLap.start = Last(laps).start
           /\ FoldedLap.end = Sample.at
           /\ FoldedLap.kind \in {"in", "out-in"}
<1>1. laps \in Seq(Laps) /\ laps # <<>>
  BY DEF TypeOK, PitCloseIncrement
<1>2. Len(laps) \in DOMAIN laps /\ Last(laps) \in Laps /\ Last(laps) = laps[Len(laps)]
  BY <1>1 DEF Last
<1>3. Sample.at \in Nat
  BY SampleType DEF CounterRestarts, TakeSample
<1>4. /\ FoldedLap.start = Last(laps).start /\ FoldedLap.end = Sample.at
      /\ FoldedLap.kind \in {"in", "out-in"} /\ FoldedLap \in Laps
  BY <1>2, <1>3 DEF FoldedLap, Laps, Kinds, Boundaries
<1>5. /\ Len(laps') = Len(laps) /\ laps'[Len(laps)] = FoldedLap
      /\ \A j \in DOMAIN laps : j # Len(laps) => laps'[j] = laps[j]
  BY <1>1, <1>2, <1>4, ReplaceType DEF Folded
<1> QED
  BY <1>1, <1>2, <1>4, <1>5 DEF PitCloseIncrement

\* What GpsPitEntry does to the list.
LEMMA PitEntryExtends ==
    ASSUME KindInv, GpsPitEntry
    PROVE  /\ Extension(laps, laps', 2, current.start, PitAt) /\ NoneFlies(laps, laps')
           /\ current'.start = PitAt /\ current' # NoLap /\ PitAt >= current.start
           /\ phase' \in {"pit", "stopped"}
<1>0. TypeOK /\ laps \in Seq(Laps) /\ stint \in Nat
  BY DEF KindInv, TileInv, TypeInv, TypeOK
<1>1. PICK left \in DepartureIn(current.start, PitAt) :
          LET d == Departed(left)
              kind == ClosingKind(d.phase, "pit-entry")
          IN  /\ kind # NoKind
              /\ laps' = Closed(d.laps, d.open, PitAt, kind, "gps-pit-entry")
              /\ current' = OpenAt(d.open.stintLap, PitAt, "gps-pit-entry")
              /\ phase' = NextPhase(d.phase, "pit-entry")
  BY DEF GpsPitEntry
<1> DEFINE d == Departed(left)
<1>2. /\ current # NoLap /\ ~finished /\ PitAt \in Nat /\ current.start \in Nat
      /\ current.start <= PitAt
  BY <1>0, PitAtType DEF GpsPitEntry, TakePitEvent, TypeOK, OpenLaps
<1>3. /\ d.open \in OpenLaps /\ d.laps \in Seq(Laps) /\ d.phase \in Phases
      /\ d.open.start <= PitAt
      /\ Extension(laps, d.laps, 1, current.start, d.open.start) /\ NoneFlies(laps, d.laps)
  BY <1>2, DepartedTiles, DepartedExtends DEF KindInv
<1>4. /\ ClosingKind(d.phase, "pit-entry") \in Kinds
      /\ ClosingKind(d.phase, "pit-entry") # "flying"
      /\ phase' \in {"pit", "stopped"}
  BY <1>1, <1>3, ReducerType, ReducerAnchor, ReducerCloses DEF Events
<1>5. /\ Extension(d.laps, laps', 1, d.open.start, PitAt) /\ NoneFlies(d.laps, laps')
  BY <1>0, <1>1, <1>2, <1>3, <1>4, ClosedExtends DEF Boundaries
<1>6. laps' \in Seq(Laps)
  BY <1>0, <1>1, <1>2, <1>3, <1>4, ClosedType DEF Boundaries
<1>7. Extension(laps, laps', 2, current.start, PitAt) /\ NoneFlies(laps, laps')
  BY <1>0, <1>3, <1>5, <1>6, ExtensionChain
<1>8. current'.start = PitAt /\ current' # NoLap
  BY <1>1 DEF OpenAt, NoLap
<1> QED
  BY <1>2, <1>4, <1>7, <1>8

\* What GpsPitExit does to the list.
LEMMA PitExitExtends ==
    ASSUME KindInv, GpsPitExit
    PROVE  /\ Extension(laps, laps', 1, current.start, PitAt) /\ NoneFlies(laps, laps')
           /\ current'.start = PitAt /\ current' # NoLap /\ PitAt >= current.start
           /\ phase' = "out"
           /\ Len(laps') = Len(laps) + 1 /\ laps'[Len(laps) + 1].kind = phase
           /\ laps'[Len(laps) + 1].endBoundary = "gps-pit-exit"
<1>1. /\ TypeOK /\ laps \in Seq(Laps) /\ stint \in Nat /\ current # NoLap
      /\ current \in OpenLaps /\ current.start \in Nat /\ phase \in Phases
      /\ current.start < PitAt /\ phase \in Inactive
  BY DEF KindInv, TileInv, TypeInv, TypeOK, OpenLaps, GpsPitExit
<1>2. PitAt \in Nat
  BY <1>1, PitAtType DEF GpsPitExit, TakePitEvent
<1>3. /\ ClosingKind(phase, "departure") \in Kinds /\ ClosingKind(phase, "departure") = phase
      /\ phase # "flying" /\ NextPhase(phase, "departure") = "out"
  BY <1>1, ReducerCloses DEF ClosingKind, Inactive, Active, Phases
<1>4. laps' = Closed(laps, current, PitAt, phase, "gps-pit-exit") /\ phase' = "out"
  BY <1>3 DEF GpsPitExit
<1>5. current'.start = PitAt /\ current' # NoLap
  BY DEF GpsPitExit, OpenAt, NoLap
<1> QED
  BY <1>1, <1>2, <1>3, <1>4, <1>5, ClosedExtends DEF Boundaries

\* What a reset that closes the open interval does to the list.
LEMMA ResetExtends ==
    ASSUME KindInv, CloseAtReset
    PROVE  /\ current = NoLap => laps' = laps
           /\ current # NoLap =>
                 /\ Extension(laps, laps', 1, current.start, Sample.at)
                 /\ NoneFlies(laps, laps') /\ Sample.at >= current.start
           /\ current'.start = Sample.at /\ current' # NoLap /\ Sample.at \in Nat
           /\ phase \in Active /\ phase' \in Inactive /\ ~finished /\ ~finished'
<1>1. PICK event \in ResetEvents :
          /\ CounterRestarts(event) /\ NewStintAtReset
          /\ laps' = IF current = NoLap THEN laps
                     ELSE Closed(laps, current, Sample.at, ClosingKind(phase, event),
                                 "counter-reset")
  BY DEF CloseAtReset
<1>2. /\ TypeOK /\ laps \in Seq(Laps) /\ stint \in Nat /\ phase \in Phases
      /\ current # NoLap => current \in OpenLaps /\ current.start \in Nat
  BY DEF KindInv, TileInv, TypeInv, TypeOK, OpenLaps
<1>3. /\ SamplesLeft /\ Sample.at \in Nat /\ ~finished /\ ~finished'
      /\ phase' = NextPhase(phase, event)
  BY <1>1, <1>2, SampleType DEF CounterRestarts, TakeSample
<1>4. /\ phase \in Active /\ phase' \in Inactive
      /\ ClosingKind(phase, event) \in Kinds /\ ClosingKind(phase, event) # "flying"
  BY <1>1, <1>2, <1>3, ReducerCloses, ReducerAnchor DEF NewStintAtReset, ResetEvents, Events
<1>5. current'.start = Sample.at /\ current' # NoLap
  BY <1>1 DEF NewStintAtReset, OpenAt, NoLap
<1>6. CASE current = NoLap
  BY <1>1, <1>3, <1>4, <1>5, <1>6
<1>7. CASE current # NoLap
  <2>1. current.start <= Sample.at
    BY <1>3, <1>7 DEF KindInv, TileInv, OpenInTime
  <2>2. laps' = Closed(laps, current, Sample.at, ClosingKind(phase, event), "counter-reset")
    BY <1>1, <1>7
  <2>3. Extension(laps, laps', 1, current.start, Sample.at) /\ NoneFlies(laps, laps')
    BY <1>2, <1>3, <1>4, <1>7, <2>1, <2>2, ClosedExtends DEF Boundaries
  <2> QED
    BY <1>2, <1>3, <1>4, <1>5, <1>7, <2>1, <2>3
<1> QED
  BY <1>6, <1>7

\* What a crossing does to the list.
LEMMA CrossingExtends ==
    ASSUME KindInv, Crossing
    PROVE  /\ current = NoLap => laps' = laps /\ phase \notin {"pit", "stopped"}
           /\ current # NoLap =>
                 /\ Extension(laps, laps', 2, current.start, Sample.at)
                 /\ phase # "on-track" => NoneFlies(laps, laps')
                 /\ phase = "on-track" /\ current.start < Sample.at =>
                       /\ Len(laps') = Len(laps) + 1
                       /\ laps'[Len(laps) + 1].kind = "flying"
                 /\ phase \in {"pit", "stopped"} =>
                       /\ Len(laps') > Len(laps)
                       /\ laps'[Len(laps) + 1].kind = phase
                       /\ laps'[Len(laps) + 1].endBoundary = "motion-departure"
                 /\ Sample.at >= current.start
           /\ current'.start = Sample.at /\ current' # NoLap /\ Sample.at \in Nat
           /\ phase' = "on-track" /\ ~finished /\ ~finished'
<1>0. /\ TypeOK /\ laps \in Seq(Laps) /\ stint \in Nat /\ phase \in Phases
      /\ current # NoLap => current \in OpenLaps /\ current.start \in Nat
  BY DEF KindInv, TileInv, TypeInv, TypeOK, OpenLaps
<1>1. PICK left \in Departures :
          LET d == Departed(left)
          IN  /\ CrossingAfter(left)
              /\ d.phase \notin {"pit", "stopped"}
              /\ laps' = IF d.open = NoLap THEN d.laps
                         ELSE Closed(d.laps, d.open, Sample.at,
                                     ClosingKind(d.phase, "crossing"), "counter-crossing")
              /\ current' = OpenAt(LapNumber, Sample.at, "counter-crossing")
              /\ phase' = NextPhase(d.phase, "crossing")
  BY DEF Crossing
<1> DEFINE d == Departed(left)
<1>2. /\ SamplesLeft /\ Sample.at \in Nat /\ ~finished /\ ~finished'
  BY <1>0, <1>1, SampleType DEF CrossingAfter, TakeIncrement, TakeSample
<1>3. current'.start = Sample.at /\ current' # NoLap
  BY <1>1 DEF OpenAt, NoLap
<1>4. CASE current = NoLap
  <2>1. d.laps = laps /\ d.open = NoLap /\ d.phase = phase
    BY <1>4 DEF Departed
  <2> QED
    BY <1>0, <1>1, <1>2, <1>3, <1>4, <2>1, ReducerCloses
<1>5. CASE current # NoLap
  <2>1. current.start <= Sample.at
    BY <1>2, <1>5 DEF KindInv, TileInv, OpenInTime
  <2>2. left \in DepartureIn(current.start, Sample.at)
    BY <1>1, <1>2, <1>5 DEF Departures
  <2>3. /\ d.open \in OpenLaps /\ d.laps \in Seq(Laps) /\ d.phase \in Phases
        /\ d.open.start <= Sample.at
    BY <1>2, <1>5, <2>1, <2>2, DepartedTiles DEF KindInv
  <2>4. /\ Extension(laps, d.laps, 1, current.start, d.open.start) /\ NoneFlies(laps, d.laps)
        /\ phase \in Active => d.laps = laps /\ d.open = current /\ d.phase = phase
        /\ d.phase = "on-track" => phase = "on-track"
        /\ phase \in Inactive /\ d.phase # phase =>
              /\ Len(d.laps) = Len(laps) + 1
              /\ d.laps[Len(laps) + 1].kind = phase
              /\ d.laps[Len(laps) + 1].endBoundary = "motion-departure"
    BY <1>2, <1>5, <2>1, <2>2, DepartedExtends
  <2>5. /\ ClosingKind(d.phase, "crossing") \in Kinds
        /\ ClosingKind(d.phase, "crossing") = "flying" => d.phase = "on-track"
        /\ d.phase = "on-track" => ClosingKind(d.phase, "crossing") = "flying"
        /\ phase' = "on-track"
    BY <1>1, <2>3, ReducerCloses, ReducerAnchor DEF Events, ClosingKind, CrossedKind
  <2>6. laps' = Closed(d.laps, d.open, Sample.at, ClosingKind(d.phase, "crossing"),
                       "counter-crossing")
    BY <1>1, <2>3, NoLapNotOpen
  <2>7. /\ Extension(d.laps, laps', 1, d.open.start, Sample.at)
        /\ d.phase # "on-track" => NoneFlies(d.laps, laps')
        /\ d.open.start < Sample.at => /\ Len(laps') = Len(d.laps) + 1
                                       /\ laps'[Len(d.laps) + 1].kind
                                              = ClosingKind(d.phase, "crossing")
    BY <1>0, <1>2, <2>3, <2>5, <2>6, ClosedExtends DEF Boundaries
  <2>8. laps' \in Seq(Laps)
    BY <1>0, <1>2, <2>3, <2>5, <2>6, ClosedType DEF Boundaries
  <2>9. /\ Extension(laps, laps', 2, current.start, Sample.at)
        /\ phase # "on-track" => NoneFlies(laps, laps')
    BY <1>0, <2>3, <2>4, <2>7, <2>8, ExtensionChain
  <2>10. phase = "on-track" /\ current.start < Sample.at =>
            /\ Len(laps') = Len(laps) + 1 /\ laps'[Len(laps) + 1].kind = "flying"
    BY <2>4, <2>5, <2>7 DEF Active
  <2>11. phase \in {"pit", "stopped"} =>
            /\ Len(laps') > Len(laps) /\ laps'[Len(laps) + 1].kind = phase
            /\ laps'[Len(laps) + 1].endBoundary = "motion-departure"
    <3>1. SUFFICES ASSUME phase \in {"pit", "stopped"}
                   PROVE  /\ Len(laps') > Len(laps) /\ laps'[Len(laps) + 1].kind = phase
                          /\ laps'[Len(laps) + 1].endBoundary = "motion-departure"
      OBVIOUS
    <3>2. phase \in Inactive /\ d.phase # phase
      BY <1>1, <3>1 DEF Inactive, Active, Phases
    <3>3. Len(laps) \in Nat /\ Len(d.laps) = Len(laps) + 1 /\ Len(laps') \in Nat
      BY <1>0, <2>4, <2>8, <3>2
    <3>4. Len(laps') >= Len(laps) + 1 /\ laps'[Len(laps) + 1] = d.laps[Len(laps) + 1]
      BY <2>7, <3>3 DEF Extension
    <3> QED
      BY <2>4, <3>2, <3>3, <3>4
  <2> QED
    BY <1>0, <1>2, <1>3, <1>5, <2>1, <2>5, <2>9, <2>10, <2>11
<1> QED
  BY <1>4, <1>5

(***************************************************************************)
(* History and pit time.                                                   *)
(***************************************************************************)
LEMMA KindInvariant == Spec => []KindInv
  BY InitKind, StepKind, PTL DEF Spec

OnlyFold ==
    /\ Len(laps') >= Len(laps)
    /\ \A i \in 1 .. (Len(laps) - 1) : laps'[i] = laps[i]
    /\ laps # <<>> /\ laps'[Len(laps)] # Last(laps) =>
          /\ Len(laps') = Len(laps)
          /\ current.startBoundary = "counter-crossing"
          /\ stint' = stint + 1

\* An extension is no rewriting.
LEMMA ExtensionKeeps ==
    ASSUME laps \in Seq(Laps), laps' \in Seq(Laps), NEW n \in Nat, NEW s, NEW u,
           Extension(laps, laps', n, s, u)
    PROVE  OnlyFold
<1>1. laps # <<>> => Len(laps) \in 1 .. Len(laps) /\ Last(laps) = laps[Len(laps)]
  BY DEF Last
<1> QED
  BY <1>1 DEF OnlyFold, Extension

LEMMA StepOnlyFold == KindInv /\ KindInv' /\ [Next]_vars => OnlyFold
<1> SUFFICES ASSUME KindInv, KindInv', [Next]_vars PROVE OnlyFold
  OBVIOUS
<1>0. /\ TypeOK /\ laps \in Seq(Laps) /\ laps' \in Seq(Laps) /\ stint \in Nat
      /\ recording.duration \in Nat /\ phase \in Phases
      /\ current # NoLap => current \in OpenLaps
  BY DEF KindInv, TileInv, TypeInv, TypeOK, IsRecording
<1>1. ASSUME laps' = laps PROVE OnlyFold
  BY <1>0, <1>1 DEF OnlyFold, Last
<1>2. CASE GpsPitEntry
  BY <1>0, <1>2, PitEntryExtends, ExtensionKeeps
<1>3. CASE GpsPitExit
  BY <1>0, <1>3, PitExitExtends, ExtensionKeeps
<1>4. CASE FoldPitClose
  <2>1. PICK event \in ResetEvents, slow \in BOOLEAN :
          /\ CounterRestarts(event) /\ NewStintAtReset
          /\ PitCloseIncrement(event, slow) /\ laps' = Folded
    BY <1>4 DEF FoldPitClose
  <2>2. current.startBoundary = "counter-crossing" /\ stint' = stint + 1
    BY <2>1 DEF PitCloseIncrement, NewStintAtReset
  <2>3. /\ Len(laps') = Len(laps)
        /\ \A j \in 1 .. (Len(laps) - 1) : laps'[j] = laps[j]
    BY <1>0, <2>1, FoldReplacesLast
  <2> QED
    BY <1>0, <2>2, <2>3 DEF OnlyFold
<1>5. CASE CloseAtReset
  BY <1>0, <1>1, <1>5, ResetExtends, ExtensionKeeps
<1>6. CASE Crossing
  BY <1>0, <1>1, <1>6, CrossingExtends, ExtensionKeeps
<1>7. CASE Finish
  <2>1. CASE current = NoLap
    BY <1>1, <1>7, <2>1 DEF Finish
  <2>2. CASE current # NoLap
    <3> DEFINE lap == LapOf(current, recording.duration, ClosingKind(phase, "end"),
                            "recording-edge")
    <3>1. laps' = laps \/ laps' = Append(laps, lap)
      BY <1>7, <2>2 DEF Finish, Closed
    <3> HIDE DEF lap
    <3>2. CASE laps' = Append(laps, lap)
      <4>1. Len(laps') = Len(laps) + 1 /\ \A i \in 1 .. Len(laps) : laps'[i] = laps[i]
        BY <1>0, <3>2
      <4> QED
        BY <1>0, <4>1 DEF OnlyFold, Last
    <3> QED
      BY <1>1, <3>1, <3>2
  <2> QED
    BY <2>1, <2>2
<1>8. CASE \/ StalePitEvent \/ RedundantPitEvent \/ FirstSample \/ RepeatedSample
           \/ RecoveredDropout \/ ResetWhileInactive \/ IgnoredSpike \/ OverflowingCrossing
           \/ IgnoredRearm \/ IgnoredPitLaneBeacon \/ UnanchoredIncrement \/ UNCHANGED vars
  BY <1>1, <1>8
     DEF StalePitEvent, RedundantPitEvent, FirstSample, RepeatedSample, RecoveredDropout,
         ResetWhileInactive, IgnoredSpike, OverflowingCrossing, IgnoredRearm,
         IgnoredPitLaneBeacon, UnanchoredIncrement, Rest, vars
<1> QED
  BY <1>2, <1>3, <1>4, <1>5, <1>6, <1>7, <1>8 DEF Next

\* A closed interval is history: a step appends, or folds a fragment into the
\* last interval.
THEOREM HistoryStands == Spec => OnlyFoldRewrites
<1>1. KindInv /\ KindInv' /\ [Next]_vars => [OnlyFold]_vars
  BY StepOnlyFold
<1>2. Spec => [][OnlyFold]_vars
  BY KindInvariant, <1>1, PTL DEF Spec
<1> QED
  BY <1>2 DEF OnlyFoldRewrites, OnlyFold

\* Standing still in the pits or on the circuit ends with a departure.
LeavesPit ==
    /\ phase \in {"pit", "stopped"}
    /\ phase' \notin {"pit", "stopped"}
    => \E i \in Accepted(laps') : i > Len(laps) /\ laps'[i].kind = phase

LEMMA StepLeavesPit == KindInv /\ KindInv' /\ [Next]_vars => LeavesPit
<1> SUFFICES ASSUME KindInv, KindInv', [Next]_vars,
                    phase \in {"pit", "stopped"}, phase' \notin {"pit", "stopped"}
             PROVE  \E i \in Accepted(laps') : i > Len(laps) /\ laps'[i].kind = phase
  BY DEF LeavesPit
<1>0. /\ laps \in Seq(Laps) /\ laps' \in Seq(Laps) /\ phase \notin Active
      /\ current # NoLap => current \in OpenLaps
  BY DEF KindInv, TileInv, TypeInv, TypeOK, Active
<1>1. CASE GpsPitExit
  <2>1. /\ Len(laps') = Len(laps) + 1 /\ laps'[Len(laps) + 1].kind = phase
        /\ laps'[Len(laps) + 1].endBoundary = "gps-pit-exit"
    BY <1>1, PitExitExtends
  <2>2. Len(laps) + 1 \in Accepted(laps')
    BY <1>0, <2>1 DEF Accepted
  <2> QED
    BY <1>0, <2>1, <2>2
<1>2. CASE Crossing
  <2>1. /\ Len(laps') > Len(laps) /\ laps'[Len(laps) + 1].kind = phase
        /\ laps'[Len(laps) + 1].endBoundary = "motion-departure"
    BY <1>2, CrossingExtends
  <2>2. Len(laps) + 1 \in Accepted(laps')
    BY <1>0, <2>1 DEF Accepted
  <2> QED
    BY <1>0, <2>1, <2>2
<1>3. ASSUME GpsPitEntry PROVE FALSE
  BY <1>3, PitEntryExtends
<1>4. ASSUME NEW event \in ResetEvents, CounterRestarts(event) PROVE FALSE
  BY <1>4, PitPhaseStays DEF CounterRestarts
<1>5. ASSUME FoldPitClose \/ CloseAtReset \/ ResetWhileInactive PROVE FALSE
  BY <1>4, <1>5 DEF FoldPitClose, CloseAtReset, ResetWhileInactive
<1>6. ASSUME IgnoredRearm PROVE FALSE
  BY <1>6, PitPhaseStays DEF IgnoredRearm
<1>7. ASSUME Finish PROVE FALSE
  BY <1>7, PitPhaseStays DEF Finish
<1>8. ASSUME \/ StalePitEvent \/ RedundantPitEvent \/ FirstSample \/ RepeatedSample
             \/ RecoveredDropout \/ IgnoredSpike \/ OverflowingCrossing
             \/ IgnoredPitLaneBeacon \/ UnanchoredIncrement \/ UNCHANGED vars
      PROVE  FALSE
  BY <1>8
     DEF StalePitEvent, RedundantPitEvent, FirstSample, RepeatedSample, RecoveredDropout,
         IgnoredSpike, OverflowingCrossing, IgnoredPitLaneBeacon, UnanchoredIncrement,
         Rest, vars
<1> QED
  BY <1>1, <1>2, <1>3, <1>5, <1>6, <1>7, <1>8 DEF Next

\* No counter increment, re-arm or reset alone puts a parked or stopped car
\* back on the circuit.
THEOREM PitNeedsDeparture == Spec => PitExitNeedsEvidence
<1>1. KindInv /\ KindInv' /\ [Next]_vars => [LeavesPit]_vars
  BY StepLeavesPit
<1>2. Spec => [][LeavesPit]_vars
  BY KindInvariant, <1>1, PTL DEF Spec
<1> QED
  BY <1>2 DEF PitExitNeedsEvidence, LeavesPit

(***************************************************************************)
(* The walk implements the contract.  Two facts more than the kinds: an    *)
(* anchor is strictly earlier than the next sample, so a crossing after it *)
(* closes a flying interval; and while nothing is open in phase initial no *)
(* increment can be a crossing, because its number would overflow too.     *)
(***************************************************************************)
AnchorBefore == phase = "on-track" /\ SamplesLeft => current.start < Sample.at

NothingAnchors ==
    current = NoLap /\ phase = "initial" =>
        highWater = NoCounter \/ highWater + Offset > MaxCounter

ContractInv == KindInv /\ AnchorBefore /\ NothingAnchors

\* In phase on-track, and only there, a crossing opened the interval.
LEMMA AnchorIsCrossing ==
    ASSUME KindInv
    PROVE  /\ phase = "on-track" <=> current.startBoundary = "counter-crossing"
           /\ current = NoLap => phase \in {"initial", "pit", "stopped"}
  BY DEF KindInv, PhaseFits, TileInv, TypeInv, TypeOK, Phases, NoLap

\* A crossing finds an interval open.
LEMMA CrossingFindsOpen ==
    ASSUME ContractInv, Crossing
    PROVE  current # NoLap
<1> SUFFICES ASSUME current = NoLap PROVE FALSE
  OBVIOUS
<1>1. phase = "initial"
  BY CrossingExtends, AnchorIsCrossing DEF ContractInv
<1>2. TakeIncrement
  BY DEF Crossing, CrossingAfter
<1>3. TypeOK /\ SamplesLeft
  BY <1>2 DEF ContractInv, KindInv, TileInv, TypeInv, TakeIncrement, TakeSample
<1>4. /\ Sample.counter \in Nat /\ highWater \in Nat /\ Sample.counter > highWater
      /\ ~(Sample.counter + Offset > MaxCounter)
  BY <1>2, <1>3, SampleType DEF TakeIncrement, Rises, Overflows, TypeOK
<1>5. highWater + Offset > MaxCounter
  BY <1>1, <1>4 DEF ContractInv, NothingAnchors, NoCounter
<1> QED
  BY <1>4, <1>5, BoundAssumption DEF Offset

LEMMA InitContract == Init => ContractInv
<1> SUFFICES ASSUME Init PROVE ContractInv
  OBVIOUS
<1>1. KindInv
  BY InitKind
<1>2. AnchorBefore
  BY <1>1, AnchorIsCrossing DEF Init, AnchorBefore
<1>3. NothingAnchors
  BY DEF Init, NothingAnchors
<1> QED
  BY <1>1, <1>2, <1>3 DEF ContractInv

LEMMA StepAnchorBefore == ContractInv /\ KindInv' /\ [Next]_vars => AnchorBefore'
<1> SUFFICES ASSUME ContractInv, KindInv', [Next]_vars, phase' = "on-track", SamplesLeft'
             PROVE  current'.start < Sample'.at
  BY DEF AnchorBefore
<1>0. /\ TypeOK /\ KindInv /\ AnchorBefore /\ TypeOK' /\ phase \in Phases
      /\ current # NoLap => current \in OpenLaps /\ current.start \in Nat
      /\ phase = "on-track" => current # NoLap
  BY AnchorIsCrossing DEF ContractInv, KindInv, TileInv, TypeInv, TypeOK, OpenLaps, NoLap
<1>1. ASSUME TakeSample, phase = "on-track", current'.start = current.start
      PROVE  current'.start < Sample'.at
  <2>1. Sample.at < Sample'.at /\ Sample.at \in Nat /\ current.start < Sample.at
    BY <1>0, <1>1, TimeAdvances, SampleType DEF TakeSample, AnchorBefore
  <2>2. Sample'.at \in Nat
    <3>1. Sample' = recording.samples[position + 1]
      BY <1>1 DEF TakeSample, Sample
    <3>2. recording.samples \in Seq(Samples) /\ position + 1 \in DOMAIN recording.samples
      BY <1>0, <1>1 DEF TypeOK, TakeSample, SamplesLeft, IsRecording
    <3>3. Sample' \in Samples
      BY <3>1, <3>2
    <3> QED
      BY <3>3 DEF Samples
  <2> QED
    BY <1>0, <1>1, <2>1, <2>2
<1>2. ASSUME TakePitEvent, phase = "on-track", current' = current
      PROVE  current'.start < Sample'.at
  BY <1>0, <1>2 DEF TakePitEvent, AnchorBefore, SamplesLeft, Sample
<1>3. CASE StalePitEvent \/ RedundantPitEvent
  BY <1>2, <1>3 DEF StalePitEvent, RedundantPitEvent
<1>4. CASE GpsPitEntry
  BY <1>0, <1>4, PitEntryExtends
<1>5. CASE GpsPitExit
  BY <1>0, <1>5, PitExitExtends
<1>6. CASE Crossing
  <2>1. TakeSample /\ current'.start = Sample.at
    BY <1>0, <1>6, CrossingExtends DEF Crossing, CrossingAfter, TakeIncrement
  <2> QED
    BY <1>0, <2>1, TimeAdvances
<1>7. CASE FirstSample
  BY <1>0, <1>7 DEF FirstSample, KindInv, TileInv, NothingYet
<1>8. ASSUME NEW event \in ResetEvents, CounterRestarts(event) PROVE FALSE
  <2>1. phase' \in Inactive
    BY <1>0, <1>8, ReducerCloses DEF CounterRestarts
  <2> QED
    BY <2>1 DEF Inactive, Active
<1>9. CASE FoldPitClose \/ CloseAtReset \/ ResetWhileInactive
  BY <1>8, <1>9 DEF FoldPitClose, CloseAtReset, ResetWhileInactive
<1>10. CASE IgnoredRearm
  <2>1. TakeSample /\ phase = "on-track"
    BY <1>0, <1>10, ReducerCloses DEF IgnoredRearm, TakeIncrement
  <2>2. current'.start = current.start
    BY <1>0, <1>10, <2>1 DEF IgnoredRearm, OpenLaps
  <2> QED
    BY <1>1, <2>1, <2>2
<1>11. CASE \/ RepeatedSample \/ RecoveredDropout \/ IgnoredSpike \/ OverflowingCrossing
            \/ IgnoredPitLaneBeacon \/ UnanchoredIncrement
  BY <1>1, <1>11
     DEF RepeatedSample, RecoveredDropout, IgnoredSpike, OverflowingCrossing,
         IgnoredPitLaneBeacon, UnanchoredIncrement, CrossingAfter, TakeIncrement, Rest
<1>12. CASE Finish
  BY <1>12 DEF Finish, SamplesLeft
<1>13. CASE UNCHANGED vars
  BY <1>0, <1>13 DEF vars, AnchorBefore, SamplesLeft, Sample
<1> QED
  BY <1>3, <1>4, <1>5, <1>6, <1>7, <1>9, <1>10, <1>11, <1>12, <1>13 DEF Next

LEMMA StepNothingAnchors == ContractInv /\ KindInv' /\ [Next]_vars => NothingAnchors'
<1> SUFFICES ASSUME ContractInv, KindInv', [Next]_vars, current' = NoLap, phase' = "initial"
             PROVE  highWater' = NoCounter \/ highWater' + Offset' > MaxCounter
  BY DEF NothingAnchors
<1>0. /\ TypeOK /\ KindInv /\ NothingAnchors /\ phase \in Phases
      /\ current # NoLap => current \in OpenLaps
  BY DEF ContractInv, KindInv, TileInv, TypeInv, TypeOK
<1>1. ASSUME UNCHANGED <<recording, phase, current, highWater>>
      PROVE  highWater' = NoCounter \/ highWater' + Offset' > MaxCounter
  BY <1>0, <1>1 DEF NothingAnchors, Offset
<1>2. CASE GpsPitEntry \/ GpsPitExit
  BY <1>0, <1>2, PitEntryExtends, PitExitExtends
<1>3. CASE FirstSample
  <2>1. highWater' = Sample.counter /\ recording' = recording
    BY <1>3 DEF FirstSample, TakeSample
  <2>2. Overflows
    BY <1>3 DEF FirstSample, OpenAt, NoLap
  <2> QED
    BY <2>1, <2>2 DEF Overflows, Offset
<1>4. ASSUME NEW event \in ResetEvents, CounterRestarts(event) PROVE FALSE
  <2>1. phase' \in Inactive
    BY <1>0, <1>4, ReducerCloses DEF CounterRestarts
  <2> QED
    BY <2>1 DEF Inactive, Active
<1>5. CASE FoldPitClose \/ CloseAtReset \/ ResetWhileInactive
  BY <1>4, <1>5 DEF FoldPitClose, CloseAtReset, ResetWhileInactive
<1>6. CASE IgnoredRearm \/ IgnoredPitLaneBeacon \/ UnanchoredIncrement
  <2>1. TakeIncrement /\ phase' = phase
    BY <1>0, <1>6, ReducerCloses
       DEF IgnoredRearm, IgnoredPitLaneBeacon, UnanchoredIncrement, CrossingAfter
  <2>2. current = NoLap
    <3>1. CASE IgnoredRearm
      <4>1. LapNumber \in Nat
        BY <1>0, <2>1, SampleType DEF TakeIncrement, TakeSample
      <4>2. current # NoLap => current' \in OpenLaps
        BY <1>0, <3>1, <4>1 DEF IgnoredRearm, OpenLaps
      <4> QED
        BY <4>2, NoLapNotOpen
    <3>2. CASE IgnoredPitLaneBeacon \/ UnanchoredIncrement
      BY <3>2 DEF IgnoredPitLaneBeacon, UnanchoredIncrement
    <3> QED
      BY <1>6, <3>1, <3>2
  <2>3. highWater \in Nat /\ highWater + Offset > MaxCounter
    BY <1>0, <2>1, <2>2 DEF NothingAnchors, TakeIncrement, Rises, TypeOK
  <2>4. Sample.counter \in Nat /\ Sample.counter > highWater /\ ~Overflows
    BY <1>0, <2>1, SampleType DEF TakeIncrement, TakeSample, Rises
  <2> QED
    BY <2>3, <2>4, BoundAssumption DEF Overflows, Offset
<1>7. CASE Crossing
  BY <1>0, <1>7, CrossingExtends
<1>8. CASE Finish
  <2>1. UNCHANGED <<recording, phase, current, highWater>>
    BY <1>0, <1>8, ReducerCloses DEF Finish
  <2> QED
    BY <1>1, <2>1
<1>9. CASE \/ StalePitEvent \/ RedundantPitEvent \/ RepeatedSample \/ RecoveredDropout
           \/ IgnoredSpike \/ OverflowingCrossing \/ UNCHANGED vars
  BY <1>1, <1>9
     DEF StalePitEvent, RedundantPitEvent, TakePitEvent, RepeatedSample, RecoveredDropout,
         IgnoredSpike, OverflowingCrossing, TakeSample, Rest, vars
<1> QED
  BY <1>2, <1>3, <1>5, <1>6, <1>7, <1>8, <1>9 DEF Next

LEMMA StepContract == ContractInv /\ [Next]_vars => ContractInv'
  BY StepKind, StepAnchorBefore, StepNothingAnchors DEF ContractInv

(***************************************************************************)
(* The step simulation.                                                    *)
(***************************************************************************)
Interval(lap) == [start |-> lap.start, end |-> lap.end, kind |-> lap.kind]

LEMMA IntervalFields ==
    ASSUME NEW lap
    PROVE  /\ Interval(lap).start = lap.start
           /\ Interval(lap).end = lap.end
           /\ Interval(lap).kind = lap.kind
  BY DEF Interval

\* The contract's view of the laps, and of the laps after a step.
LEMMA ActivityView ==
    ASSUME laps \in Seq(Laps), laps' \in Seq(Laps)
    PROVE  /\ Len(Activity) = Len(laps) /\ \A i \in 1 .. Len(laps) : Activity[i] = Interval(laps[i])
           /\ Len(Activity') = Len(laps')
           /\ \A i \in 1 .. Len(laps') : Activity'[i] = Interval(laps'[i])
           /\ (laps' = laps => Activity' = Activity)
           /\ Len(laps) \in Nat /\ Len(laps') \in Nat
<1>1. DOMAIN laps = 1 .. Len(laps) /\ DOMAIN laps' = 1 .. Len(laps')
      /\ Len(laps) \in Nat /\ Len(laps') \in Nat
  OBVIOUS
<1>2. Activity = [i \in 1 .. Len(laps) |-> Interval(laps[i])]
  BY <1>1 DEF Activity, Interval
<1>3. Activity' = [i \in 1 .. Len(laps') |-> Interval(laps'[i])]
  BY <1>1 DEF Activity, Interval
<1>4. Len(Activity) = Len(laps) /\ Len(Activity') = Len(laps')
  BY <1>1, <1>2, <1>3
<1> QED
  BY <1>1, <1>2, <1>3, <1>4

\* The intervals a step appends, in the contract's words.
LEMMA FreshView ==
    ASSUME laps \in Seq(Laps), laps' \in Seq(Laps), Len(laps) <= Len(laps')
    PROVE  /\ Len(Contract!Fresh) = Len(laps') - Len(laps)
           /\ \A i \in 1 .. (Len(laps') - Len(laps)) :
                 Contract!Fresh[i] = Interval(laps'[Len(laps) + i])
           /\ Contract!Fresh = <<>> => Len(laps') = Len(laps)
<1>1. /\ Len(Activity) = Len(laps) /\ Len(Activity') = Len(laps')
      /\ \A i \in 1 .. Len(laps') : Activity'[i] = Interval(laps'[i])
      /\ Len(laps) \in Nat /\ Len(laps') \in Nat
  BY ActivityView
<1> DEFINE more == Activity'
<1>2. Contract!Fresh = SubSeq(more, Len(laps) + 1, Len(laps'))
  BY <1>1 DEF Contract!Fresh
<1> DEFINE S == {more[i] : i \in (Len(laps) + 1) .. Len(laps')}
<1>3. \A i \in (Len(laps) + 1) .. Len(laps') : more[i] \in S
  OBVIOUS
<1>4. \A i \in (Len(laps) + 1) .. Len(laps') : more[i] = Interval(laps'[i])
  BY <1>1
<1> HIDE DEF S, more
<1>5. /\ Len(SubSeq(more, Len(laps) + 1, Len(laps'))) =
            IF Len(laps) + 1 <= Len(laps') THEN Len(laps') - (Len(laps) + 1) + 1 ELSE 0
      /\ \A i \in 1 .. (Len(laps') - (Len(laps) + 1) + 1) :
            SubSeq(more, Len(laps) + 1, Len(laps'))[i] = more[Len(laps) + 1 + i - 1]
  BY <1>1, <1>3, SubSeqProperties
<1>6. Len(Contract!Fresh) = Len(laps') - Len(laps)
  BY <1>1, <1>2, <1>5
<1>7. ASSUME NEW i \in 1 .. (Len(laps') - Len(laps))
      PROVE  Contract!Fresh[i] = Interval(laps'[Len(laps) + i])
  <2>1. Contract!Fresh[i] = more[Len(laps) + i]
    BY <1>1, <1>2, <1>5, <1>7
  <2> QED
    BY <1>1, <1>4, <1>7, <2>1
<1>8. Contract!Fresh = <<>> => Len(laps') = Len(laps)
  BY <1>1, <1>6
<1> QED
  BY <1>6, <1>7, <1>8

\* An extension of a tiling appends, as the contract means it.
LEMMA ExtensionAppends ==
    ASSUME laps \in Seq(Laps), laps' \in Seq(Laps), Tiled(laps'), NEW n \in Nat,
           NEW until, current # NoLap, Extension(laps, laps', n, current.start, until)
    PROVE  /\ Contract!Appends(n, until)
           /\ NoneFlies(laps, laps') => Contract!NoFlying
<1>1. /\ Len(laps) \in Nat /\ Len(laps') \in Nat /\ Len(laps) <= Len(laps')
      /\ Len(laps') <= Len(laps) + n
  BY DEF Extension
<1>2. /\ Len(Activity) = Len(laps) /\ Len(Activity') = Len(laps')
      /\ \A i \in 1 .. Len(laps) : Activity[i] = Interval(laps[i])
      /\ \A i \in 1 .. Len(laps') : Activity'[i] = Interval(laps'[i])
  BY ActivityView
<1>3. /\ Len(Contract!Fresh) = Len(laps') - Len(laps)
      /\ \A i \in 1 .. (Len(laps') - Len(laps)) :
            Contract!Fresh[i] = Interval(laps'[Len(laps) + i])
      /\ Contract!Fresh = <<>> => Len(laps') = Len(laps)
  BY <1>1, FreshView
<1>4. \A i \in 1 .. Len(laps) : Activity'[i] = Activity[i]
  BY <1>1, <1>2 DEF Extension
<1>5. Contract!Fresh = <<>> => until = current.start
  BY <1>3 DEF Extension
<1>6. ASSUME NEW i \in 1 .. Len(Contract!Fresh)
      PROVE  /\ Contract!Fresh[i].start < Contract!Fresh[i].end
             /\ Contract!Fresh[i].start = IF i = 1 THEN current.start
                                          ELSE Contract!Fresh[i - 1].end
             /\ i = Len(Contract!Fresh) => Contract!Fresh[i].end = until
  <2>1. /\ i \in 1 .. (Len(laps') - Len(laps)) /\ Len(laps) + i \in 1 .. Len(laps')
        /\ DOMAIN laps' = 1 .. Len(laps')
    BY <1>1, <1>3, <1>6
  <2>2. /\ Contract!Fresh[i].start = laps'[Len(laps) + i].start
        /\ Contract!Fresh[i].end = laps'[Len(laps) + i].end
    <3>1. Contract!Fresh[i] = Interval(laps'[Len(laps) + i])
      BY <1>3, <2>1
    <3> QED
      BY <3>1, IntervalFields
  <2>3. Contract!Fresh[i].start < Contract!Fresh[i].end
    BY <2>1, <2>2 DEF Tiled
  <2>4. CASE i = 1
    BY <1>1, <1>3, <2>1, <2>2, <2>3, <2>4 DEF Extension
  <2>5. CASE i # 1
    <3>1. /\ i - 1 \in 1 .. (Len(laps') - Len(laps)) /\ Len(laps) + i > 1
          /\ (Len(laps) + i) - 1 = Len(laps) + (i - 1)
      BY <1>1, <2>1, <2>5
    <3>2. Contract!Fresh[i - 1].end = laps'[Len(laps) + (i - 1)].end
      <4>1. Contract!Fresh[i - 1] = Interval(laps'[Len(laps) + (i - 1)])
        BY <1>3, <3>1
      <4> QED
        BY <4>1, IntervalFields
    <3>3. laps'[Len(laps) + i].start = laps'[(Len(laps) + i) - 1].end
      BY <2>1, <3>1 DEF Tiled
    <3>4. i = Len(Contract!Fresh) => Contract!Fresh[i].end = until
      BY <1>1, <1>3, <2>1, <2>2 DEF Extension
    <3> QED
      BY <2>2, <2>3, <2>5, <3>1, <3>2, <3>3, <3>4
  <2> QED
    BY <2>4, <2>5
<1>7. Contract!Appends(n, until)
  BY <1>1, <1>2, <1>4, <1>5, <1>6 DEF Contract!Appends
<1>8. ASSUME NoneFlies(laps, laps') PROVE Contract!NoFlying
  <2>1. ASSUME NEW i \in 1 .. Len(Contract!Fresh) PROVE Contract!Fresh[i].kind # "flying"
    <3>1. i \in 1 .. (Len(laps') - Len(laps)) /\ Len(laps) + i \in (Len(laps) + 1) .. Len(laps')
      BY <1>1, <1>3
    <3>2. Contract!Fresh[i] = Interval(laps'[Len(laps) + i])
      BY <1>3, <3>1
    <3>3. laps'[Len(laps) + i].kind # "flying"
      BY <1>8, <3>1 DEF NoneFlies
    <3> QED
      BY <3>2, <3>3, IntervalFields
  <2> QED
    BY <2>1 DEF Contract!NoFlying
<1> QED
  BY <1>7, <1>8

\* A step during the recording whose anchor is not set afterwards.
LEMMA MapsToClear ==
    ASSUME laps \in Seq(Laps), laps' \in Seq(Laps), Tiled(laps'), NEW until \in Nat,
           NEW n \in 1 .. 2, current # NoLap, current.start \in Nat, current' # NoLap,
           current'.start = until, until >= current.start, ~finished, ~finished',
           Extension(laps, laps', n, current.start, until), NoneFlies(laps, laps'),
           phase' # "on-track"
    PROVE  Contract!ClearAnchor
<1>1. Extension(laps, laps', 2, current.start, until)
  BY DEF Extension
<1>2. Contract!Appends(2, until) /\ Contract!NoFlying
  BY <1>1, ExtensionAppends
<1>3. Contract!Running
  BY DEF Contract!Running, Contract!NoStart, NoTime
<1> QED
  BY <1>2, <1>3 DEF Contract!ClearAnchor

\* A step the contract does not see.
LEMMA MapsToStutter ==
    ASSUME laps' = laps, finished' = finished, phase' = "on-track" <=> phase = "on-track",
           \/ current' = NoLap /\ current = NoLap
           \/ current' # NoLap /\ current # NoLap /\ current'.start = current.start
    PROVE  UNCHANGED Contract!cvars
<1>1. Activity' = Activity
  BY DEF Activity
<1> QED
  BY <1>1 DEF Contract!cvars

LEMMA StepImplements ==
    ContractInv /\ ContractInv' /\ [Next]_vars => [Contract!Next]_(Contract!cvars)
<1> SUFFICES ASSUME ContractInv, ContractInv', [Next]_vars
             PROVE  Contract!Next \/ UNCHANGED Contract!cvars
  OBVIOUS
<1>0. /\ KindInv /\ TypeOK /\ laps \in Seq(Laps) /\ laps' \in Seq(Laps) /\ Tiled(laps')
      /\ phase \in Phases /\ stint \in Nat /\ recording.duration \in Nat
      /\ current # NoLap => current \in OpenLaps /\ current.start \in Nat
  <2>1. KindInv /\ TileInv' /\ TypeOK /\ TypeOK'
    BY DEF ContractInv, KindInv, TileInv, TypeInv
  <2> QED
    BY <2>1 DEF TileInv, Tiled, TypeOK, OpenLaps, IsRecording
<1>1. CASE StalePitEvent \/ RedundantPitEvent \/ RepeatedSample \/ RecoveredDropout
           \/ IgnoredSpike \/ OverflowingCrossing \/ IgnoredPitLaneBeacon
           \/ UnanchoredIncrement \/ UNCHANGED vars
  <2>1. UNCHANGED <<laps, finished, phase, current>>
    BY <1>1 DEF StalePitEvent, RedundantPitEvent, TakePitEvent, RepeatedSample,
       RecoveredDropout, IgnoredSpike, OverflowingCrossing, IgnoredPitLaneBeacon,
       UnanchoredIncrement, CrossingAfter, TakeIncrement, TakeSample, Rest, vars
  <2> QED
    BY <2>1, MapsToStutter
<1>2. CASE FirstSample
  <2>1. UNCHANGED <<laps, finished, phase>> /\ current = NoLap /\ ~finished
    BY <1>0, <1>2 DEF FirstSample, TakeSample, KindInv, TileInv, NothingYet
  <2>2. CASE current' = NoLap
    BY <2>1, <2>2, MapsToStutter
  <2>3. CASE current' # NoLap
    <3>1. current'.start = Sample.at /\ Sample.at \in Nat
      BY <1>0, <1>2, <2>3, SampleType DEF FirstSample, TakeSample, OpenAt
    <3>2. phase' # "on-track"
      BY <1>0, <2>1, AnchorIsCrossing
    <3>3. Activity' = Activity
      BY <2>1 DEF Activity
    <3>4. Contract!Begin
      BY <2>1, <2>3, <3>1, <3>2, <3>3 DEF Contract!Begin, Contract!NoStart, NoTime
    <3> QED
      BY <3>4 DEF Contract!Next
  <2> QED
    BY <2>2, <2>3
<1>3. CASE GpsPitEntry
  <2>1. /\ Extension(laps, laps', 2, current.start, PitAt) /\ NoneFlies(laps, laps')
        /\ current'.start = PitAt /\ current' # NoLap /\ PitAt >= current.start
        /\ phase' \in {"pit", "stopped"}
    BY <1>0, <1>3, PitEntryExtends
  <2>2. current # NoLap /\ ~finished /\ ~finished' /\ PitAt \in Nat
    BY <1>0, <1>3, PitAtType DEF GpsPitEntry, TakePitEvent
  <2>3. Contract!ClearAnchor
    BY <1>0, <2>1, <2>2, MapsToClear
  <2> QED
    BY <2>3 DEF Contract!Next
<1>4. CASE GpsPitExit
  <2>1. /\ Extension(laps, laps', 1, current.start, PitAt) /\ NoneFlies(laps, laps')
        /\ current'.start = PitAt /\ current' # NoLap /\ PitAt >= current.start
        /\ phase' = "out"
    BY <1>0, <1>4, PitExitExtends
  <2>2. current # NoLap /\ ~finished /\ ~finished' /\ PitAt \in Nat
    BY <1>0, <1>4, PitAtType DEF GpsPitExit, TakePitEvent
  <2>3. Contract!ClearAnchor
    BY <1>0, <2>1, <2>2, MapsToClear
  <2> QED
    BY <2>3 DEF Contract!Next
<1>5. CASE FoldPitClose
  <2>1. PICK event \in ResetEvents, slow \in BOOLEAN :
          /\ CounterRestarts(event) /\ NewStintAtReset /\ current # NoLap
          /\ PitCloseIncrement(event, slow) /\ laps' = Folded
    BY <1>5 DEF FoldPitClose
  <2>2. /\ laps # <<>> /\ Len(laps) \in DOMAIN laps /\ Len(laps') = Len(laps)
        /\ Last(laps) = laps[Len(laps)] /\ Last(laps).end = current.start
        /\ laps'[Len(laps)] = FoldedLap
        /\ \A j \in 1 .. (Len(laps) - 1) : laps'[j] = laps[j]
        /\ FoldedLap.start = Last(laps).start /\ FoldedLap.end = Sample.at
        /\ FoldedLap.kind \in {"in", "out-in"}
    BY <1>0, <2>1, FoldReplacesLast
  <2>3. /\ current'.start = Sample.at /\ current' # NoLap /\ finished' = finished
    BY <2>1 DEF NewStintAtReset, OpenAt, NoLap, CounterRestarts, TakeSample
  <2>4. phase = "on-track"
    BY <1>0, <2>1, AnchorIsCrossing DEF PitCloseIncrement
  <2>5. phase' # "on-track"
    BY <1>0, <2>1, ReducerCloses DEF CounterRestarts, Inactive, Active
  <2>6. /\ Len(Activity) = Len(laps) /\ Len(Activity') = Len(laps)
        /\ \A i \in 1 .. (Len(laps) - 1) : Activity'[i] = Activity[i]
        /\ Activity[Len(laps)] = Interval(Last(laps))
        /\ Activity'[Len(laps)] = Interval(FoldedLap)
        /\ Len(laps) > 0
    <3>1. Len(laps) \in 1 .. Len(laps) /\ Len(laps) \in Nat
      BY <1>0, <2>2
    <3> QED
      BY <1>0, <2>2, <3>1, ActivityView
  <2>7. /\ Activity[Len(Activity)].end = current.start
        /\ Activity'[Len(Activity)].start = Activity[Len(Activity)].start
        /\ Activity'[Len(Activity)].end = Sample.at
        /\ Activity'[Len(Activity)].kind # "flying"
        /\ Len(Activity') = Len(Activity) /\ Len(Activity) > 0
        /\ \A i \in 1 .. (Len(Activity) - 1) : Activity'[i] = Activity[i]
    <3>1. FoldedLap.kind # "flying"
      BY <2>2
    <3> QED
      BY <2>2, <2>6, <3>1, IntervalFields
  <2>8. /\ current.start <= Sample.at /\ Sample.at \in Nat /\ ~finished /\ ~finished'
    BY <1>0, <2>1, SampleType
       DEF CounterRestarts, TakeSample, KindInv, TileInv, OpenInTime
  <2>9. Contract!Running
    BY <1>0, <2>1, <2>3, <2>8 DEF Contract!Running, Contract!NoStart, NoTime
  <2>10. Contract!WithdrawAnchor
    BY <2>1, <2>3, <2>4, <2>5, <2>7, <2>9 DEF Contract!WithdrawAnchor
  <2> QED
    BY <2>10 DEF Contract!Next
<1>6. CASE CloseAtReset
  <2>1. /\ current = NoLap => laps' = laps
        /\ current # NoLap =>
              /\ Extension(laps, laps', 1, current.start, Sample.at)
              /\ NoneFlies(laps, laps') /\ Sample.at >= current.start
        /\ current'.start = Sample.at /\ current' # NoLap /\ Sample.at \in Nat
        /\ phase' \in Inactive /\ ~finished /\ ~finished'
    BY <1>0, <1>6, ResetExtends
  <2>2. phase' # "on-track" /\ finished' = finished
    BY <1>6, <2>1 DEF Inactive, Active, CloseAtReset, CounterRestarts, TakeSample
  <2>3. CASE current = NoLap
    <3>1. Activity' = Activity
      BY <2>1, <2>3 DEF Activity
    <3>2. Contract!Begin
      BY <2>1, <2>2, <2>3, <3>1 DEF Contract!Begin, Contract!NoStart, NoTime
    <3> QED
      BY <3>2 DEF Contract!Next
  <2>4. CASE current # NoLap
    <3>1. Contract!ClearAnchor
      BY <1>0, <2>1, <2>2, <2>4, MapsToClear
    <3> QED
      BY <3>1 DEF Contract!Next
  <2> QED
    BY <2>3, <2>4
<1>7. CASE ResetWhileInactive
  <2>1. PICK event \in ResetEvents :
          /\ CounterRestarts(event) /\ phase \in Inactive
          /\ current' = IF current = NoLap THEN NoLap
                        ELSE [current EXCEPT !.stintLap = LapNumber]
          /\ laps' = laps
    BY <1>7 DEF ResetWhileInactive
  <2>2. LapNumber \in Nat /\ finished' = finished
    BY <1>0, <2>1, SampleType DEF CounterRestarts, TakeSample
  <2>3. current # NoLap => current' # NoLap /\ current'.start = current.start
    <3>1. current # NoLap => current' \in OpenLaps /\ current'.start = current.start
      BY <1>0, <2>1, <2>2 DEF OpenLaps
    <3> QED
      BY <3>1, NoLapNotOpen
  <2>4. phase # "on-track" /\ phase' # "on-track"
    BY <1>0, <2>1, ReducerCloses DEF CounterRestarts, Inactive, Active
  <2> QED
    BY <2>1, <2>2, <2>3, <2>4, MapsToStutter
<1>8. CASE IgnoredRearm
  <2>1. laps' = laps /\ phase' = phase /\ finished' = finished
    BY <1>0, <1>8, ReducerCloses DEF IgnoredRearm, TakeIncrement, TakeSample
  <2>2. LapNumber \in Nat
    BY <1>0, <1>8, SampleType DEF IgnoredRearm, TakeIncrement, TakeSample
  <2>3. current # NoLap => current' # NoLap /\ current'.start = current.start
    <3>1. current # NoLap => current' \in OpenLaps /\ current'.start = current.start
      BY <1>0, <1>8, <2>2 DEF OpenLaps, IgnoredRearm
    <3> QED
      BY <3>1, NoLapNotOpen
  <2>4. current = NoLap => current' = NoLap
    BY <1>8 DEF IgnoredRearm
  <2> QED
    BY <2>1, <2>3, <2>4, MapsToStutter
<1>9. CASE Crossing
  <2>1. /\ Extension(laps, laps', 2, current.start, Sample.at)
        /\ phase # "on-track" => NoneFlies(laps, laps')
        /\ phase = "on-track" /\ current.start < Sample.at =>
              /\ Len(laps') = Len(laps) + 1 /\ laps'[Len(laps) + 1].kind = "flying"
        /\ Sample.at >= current.start /\ current # NoLap
        /\ current'.start = Sample.at /\ current' # NoLap /\ Sample.at \in Nat
        /\ phase' = "on-track" /\ ~finished /\ ~finished'
    BY <1>0, <1>9, CrossingExtends, CrossingFindsOpen
  <2>2. Contract!Running
    BY <1>0, <2>1 DEF Contract!Running, Contract!NoStart, NoTime
  <2>3. CASE phase = "on-track"
    <3>1. SamplesLeft
      BY <1>9 DEF Crossing, CrossingAfter, TakeIncrement, TakeSample
    <3>2. Len(laps') = Len(laps) + 1 /\ laps'[Len(laps) + 1].kind = "flying"
      BY <2>1, <2>3, <3>1 DEF ContractInv, AnchorBefore
    <3>3. Len(laps) \in Nat /\ Len(laps') \in Nat
      BY <1>0
    <3>4. Extension(laps, laps', 1, current.start, Sample.at)
      BY <2>1, <3>2, <3>3 DEF Extension
    <3>5. Contract!Appends(1, Sample.at)
      BY <1>0, <2>1, <3>4, ExtensionAppends
    <3>6. Len(Contract!Fresh) = 1 /\ Contract!Fresh[1] = Interval(laps'[Len(laps) + 1])
      BY <1>0, <3>2, <3>3, FreshView
    <3>7. Contract!Fresh[1].kind = "flying"
      BY <3>2, <3>6, IntervalFields
    <3>8. Contract!CompleteLap
      BY <2>1, <2>2, <2>3, <3>5, <3>6, <3>7 DEF Contract!CompleteLap
    <3> QED
      BY <3>8 DEF Contract!Next
  <2>4. CASE phase # "on-track"
    <3>1. Contract!Appends(2, Sample.at) /\ Contract!NoFlying
      BY <1>0, <2>1, <2>4, ExtensionAppends
    <3>2. Contract!EstablishAnchor
      BY <2>1, <2>2, <2>4, <3>1 DEF Contract!EstablishAnchor
    <3> QED
      BY <3>2 DEF Contract!Next
  <2> QED
    BY <2>3, <2>4
<1>10. CASE Finish
  <2>1. /\ ~finished /\ finished' /\ current' = current /\ phase' = phase
    BY <1>0, <1>10, ReducerCloses DEF Finish
  <2>2. CASE current = NoLap
    <3>1. Activity' = Activity
      BY <1>10, <2>2 DEF Finish, Activity
    <3>2. Contract!End
      BY <2>1, <2>2, <3>1 DEF Contract!End, Contract!NoStart, NoTime
    <3> QED
      BY <3>2 DEF Contract!Next
  <2>3. CASE current # NoLap
    <3>1. ClosingKind(phase, "end") \in Kinds /\ ClosingKind(phase, "end") # "flying"
      BY <1>0, ReducerCloses, ReducerAnchor DEF Events
    <3>2. laps' = Closed(laps, current, recording.duration, ClosingKind(phase, "end"),
                         "recording-edge")
      BY <1>10, <2>3 DEF Finish
    <3>3. CASE recording.duration > current.start
      <4>1. /\ Extension(laps, laps', 1, current.start, recording.duration)
            /\ NoneFlies(laps, laps') /\ Len(laps') = Len(laps) + 1
        BY <1>0, <2>3, <3>1, <3>2, <3>3, ClosedExtends DEF Boundaries
      <4>2. Contract!Appends(1, recording.duration) /\ Contract!NoFlying
        BY <1>0, <2>3, <4>1, ExtensionAppends
      <4>3. Activity'[Len(Activity')] = Interval(laps'[Len(laps')])
            /\ laps'[Len(laps')].end = recording.duration
        <5>1. Len(laps') \in 1 .. Len(laps') /\ Len(laps') > Len(laps)
          BY <1>0, <4>1
        <5> QED
          BY <1>0, <4>1, <5>1, ActivityView DEF Extension
      <4>4. Activity'[Len(Activity')].end = recording.duration
        BY <4>3, IntervalFields
      <4>5. Contract!End
        BY <1>0, <2>1, <2>3, <4>2, <4>4 DEF Contract!End, Contract!NoStart, NoTime
      <4> QED
        BY <4>5 DEF Contract!Next
    <3>4. CASE ~(recording.duration > current.start)
      <4>1. laps' = laps
        BY <3>2, <3>4 DEF Closed
      <4>2. Activity' = Activity
        BY <4>1 DEF Activity
      <4>3. Len(Contract!Fresh) = 0
        BY <1>0, <4>1, FreshView
      <4>4. Contract!NoFlying
        BY <4>3 DEF Contract!NoFlying
      <4>5. Contract!End
        BY <1>0, <2>1, <2>3, <4>2, <4>4 DEF Contract!End, Contract!NoStart, NoTime
      <4> QED
        BY <4>5 DEF Contract!Next
    <3> QED
      BY <3>3, <3>4
  <2> QED
    BY <2>2, <2>3
<1> QED
  BY <1>1, <1>2, <1>3, <1>4, <1>5, <1>6, <1>7, <1>8, <1>9, <1>10 DEF Next

LEMMA InitImplements == Init => Contract!Init
<1> SUFFICES ASSUME Init PROVE Contract!Init
  OBVIOUS
<1>1. Activity = <<>>
  BY DEF Init, Activity
<1>2. phase # "on-track"
  BY InitKind, AnchorIsCrossing DEF Init
<1> QED
  BY <1>1, <1>2 DEF Init, Contract!Init, Contract!NoStart, NoTime

\* The counter walk implements the lap contract: a flying interval spans two
\* consecutive crossings, and everything else that ends an interval clears
\* the anchor.
THEOREM WalkImplementsContract == Spec => ImplementsContract
<1>1. Spec => []ContractInv
  BY InitContract, StepContract, PTL DEF Spec
<1> QED
  BY <1>1, InitImplements, StepImplements, PTL DEF Spec, ImplementsContract, Contract!Spec
-----------------------------------------------------------------------------
(***************************************************************************)
(* What every step has in common.                                          *)
(***************************************************************************)
LEMMA RecordingStays ==
    ASSUME [Next]_vars
    PROVE  recording' = recording /\ (finished => UNCHANGED vars)
  BY DEF Next, StalePitEvent, RedundantPitEvent, GpsPitEntry, GpsPitExit, TakePitEvent,
         FirstSample, RepeatedSample, RecoveredDropout, FoldPitClose, CloseAtReset,
         ResetWhileInactive, CounterRestarts, IgnoredSpike, OverflowingCrossing, IgnoredRearm,
         IgnoredPitLaneBeacon, UnanchoredIncrement, Crossing, CrossingAfter, TakeIncrement,
         TakeSample, Finish, vars

\* Nothing that is read lies after the end of the recording.
LEMMA ReadInTime ==
    ASSUME TypeOK
    PROVE  /\ SamplesLeft => Sample.at <= recording.duration
           /\ PitDue => PitAt <= recording.duration
<1>1. SamplesLeft => Sample.at <= recording.duration /\ Sample.at \in Nat
  BY SampleType DEF TypeOK, IsRecording, Sample
<1>2. ASSUME PitDue PROVE PitAt <= recording.duration
  <2>1. PitAt \in Nat /\ recording.duration \in Nat
    BY <1>2, PitAtType DEF TypeOK, IsRecording
  <2> QED
    BY <1>1, <1>2, <2>1 DEF PitDue, PitAt
<1> QED
  BY <1>1, <1>2

\* Steps that close nothing and keep the start of what is open.
Quiet ==
    \/ StalePitEvent \/ RedundantPitEvent \/ RepeatedSample \/ RecoveredDropout
    \/ ResetWhileInactive \/ IgnoredSpike \/ OverflowingCrossing
    \/ IgnoredRearm \/ IgnoredPitLaneBeacon \/ UnanchoredIncrement \/ UNCHANGED vars

LEMMA QuietKeeps ==
    ASSUME TypeOK, Quiet
    PROVE  /\ laps' = laps /\ finished' = finished /\ recording' = recording
           /\ current' = NoLap <=> current = NoLap
           /\ current # NoLap => current'.start = current.start
           /\ highWater' = NoCounter <=> highWater = NoCounter
<1>0. current # NoLap => current \in OpenLaps
  BY DEF TypeOK
<1>1. ASSUME StalePitEvent \/ RedundantPitEvent \/ IgnoredSpike \/ OverflowingCrossing
             \/ RepeatedSample \/ RecoveredDropout \/ UNCHANGED vars
      PROVE  UNCHANGED <<laps, finished, recording, current, highWater>>
  BY <1>1 DEF StalePitEvent, RedundantPitEvent, TakePitEvent, IgnoredSpike,
     OverflowingCrossing, RepeatedSample, RecoveredDropout, TakeSample, Rest, vars
<1>2. ASSUME TakeSample, highWater # NoCounter, highWater' = Sample.counter
      PROVE  highWater' # NoCounter
  BY <1>2, SampleType DEF TakeSample, NoCounter
<1>3. CASE ResetWhileInactive
  <2>1. /\ UNCHANGED <<laps, finished, recording>> /\ TakeSample /\ highWater # NoCounter
        /\ highWater' = Sample.counter
        /\ current' = IF current = NoLap THEN NoLap ELSE [current EXCEPT !.stintLap = LapNumber]
    BY <1>3 DEF ResetWhileInactive, CounterRestarts, TakeSample, Drops
  <2>2. current # NoLap => current'.start = current.start /\ current'.startBoundary = current.startBoundary
    BY <1>0, <2>1 DEF OpenLaps
  <2>3. current # NoLap => current' # NoLap
    BY <1>0, <2>2 DEF OpenLaps, NoLap, Boundaries
  <2> QED
    BY <1>2, <2>1, <2>2, <2>3
<1>4. CASE IgnoredRearm
  <2>1. /\ UNCHANGED <<laps, finished, recording>> /\ TakeSample /\ highWater # NoCounter
        /\ highWater' = Sample.counter
        /\ current' = IF current = NoLap THEN NoLap ELSE [current EXCEPT !.stintLap = LapNumber]
    BY <1>4 DEF IgnoredRearm, TakeIncrement, TakeSample, Rises
  <2>2. current # NoLap => current'.start = current.start /\ current'.startBoundary = current.startBoundary
    BY <1>0, <2>1 DEF OpenLaps
  <2>3. current # NoLap => current' # NoLap
    BY <1>0, <2>2 DEF OpenLaps, NoLap, Boundaries
  <2> QED
    BY <1>2, <2>1, <2>2, <2>3
<1>5. CASE IgnoredPitLaneBeacon \/ UnanchoredIncrement
  <2>1. /\ UNCHANGED <<laps, finished, recording, current>> /\ TakeSample
        /\ highWater # NoCounter /\ highWater' = Sample.counter
    BY <1>5 DEF IgnoredPitLaneBeacon, UnanchoredIncrement, CrossingAfter, TakeIncrement,
       TakeSample, Rises
  <2> QED
    BY <1>2, <2>1
<1> QED
  BY <1>1, <1>3, <1>4, <1>5 DEF Quiet

(***************************************************************************)
(* Cover: the first interval starts at the first sample, and what is open  *)
(* began before the end of the recording.                                  *)
(***************************************************************************)
StartsAt(ls, open, t) == IF ls = <<>> THEN open.start = t ELSE ls[1].start = t

OpenByEnd == current # NoLap => current.start <= recording.duration

FirstIsNext == highWater = NoCounter => position = 1

FromFirst ==
    highWater # NoCounter /\ CounterOf(1) + Offset <= MaxCounter =>
        current # NoLap /\ StartsAt(laps, current, AtOf(1))

ToEnd ==
    finished /\ current # NoLap =>
        /\ EndsAt(laps, recording.duration)
        /\ laps = <<>> => current.start = recording.duration

CoverInv == KindInv /\ OpenByEnd /\ FirstIsNext /\ FromFirst /\ ToEnd

LEMMA ExtensionStarts ==
    ASSUME NEW ls \in Seq(Laps), NEW more \in Seq(Laps), NEW n \in Nat, NEW open, NEW next,
           NEW t, StartsAt(ls, open, t), Extension(ls, more, n, open.start, next.start)
    PROVE  StartsAt(more, next, t)
<1>1. /\ Len(ls) \in Nat /\ Len(more) \in Nat /\ Len(more) >= Len(ls)
      /\ ls = <<>> <=> Len(ls) = 0
      /\ more = <<>> <=> Len(more) = 0
  BY DEF Extension
<1>2. CASE ls = <<>>
  <2>1. open.start = t /\ Len(ls) = 0
    BY <1>1, <1>2 DEF StartsAt
  <2>2. Len(more) = 0 => next.start = t
    BY <2>1 DEF Extension
  <2>3. Len(more) # 0 => more[1].start = t
    BY <1>1, <2>1 DEF Extension
  <2> QED
    BY <1>1, <2>2, <2>3 DEF StartsAt
<1>3. CASE ls # <<>>
  <2>1. 1 \in 1 .. Len(ls) /\ Len(more) # 0
    BY <1>1, <1>3
  <2>2. more[1] = ls[1]
    BY <2>1 DEF Extension
  <2> QED
    BY <1>1, <1>3, <2>1, <2>2 DEF StartsAt
<1> QED
  BY <1>2, <1>3

LEMMA InitCover == Init => CoverInv
<1> SUFFICES ASSUME Init PROVE CoverInv
  OBVIOUS
<1>1. KindInv
  BY InitKind
<1>2. highWater = NoCounter /\ current = NoLap /\ position = 1 /\ ~finished
  BY DEF Init
<1> QED
  BY <1>1, <1>2 DEF CoverInv, OpenByEnd, FirstIsNext, FromFirst, ToEnd

\* A step that extends the list keeps what it starts at.
LEMMA ExtensionCovers ==
    ASSUME CoverInv, KindInv', ~finished', recording' = recording, current # NoLap,
           current' # NoLap, current'.start <= recording.duration, highWater' # NoCounter,
           NEW n \in Nat, Extension(laps, laps', n, current.start, current'.start)
    PROVE  CoverInv'
<1>1. laps \in Seq(Laps) /\ laps' \in Seq(Laps) /\ highWater # NoCounter
  BY DEF CoverInv, KindInv, TileInv, TypeInv, TypeOK, NothingYet
<1>2. FromFirst'
  <2> SUFFICES ASSUME CounterOf(1) + Offset <= MaxCounter
               PROVE  StartsAt(laps', current', AtOf(1))
    BY DEF FromFirst, CounterOf, AtOf, Offset, StartsAt
  <2>1. StartsAt(laps, current, AtOf(1))
    BY <1>1 DEF CoverInv, FromFirst
  <2> QED
    BY <1>1, <2>1, ExtensionStarts
<1> QED
  BY <1>2 DEF CoverInv, OpenByEnd, FirstIsNext, ToEnd

LEMMA StepCover == CoverInv /\ [Next]_vars => CoverInv'
<1> SUFFICES ASSUME CoverInv, [Next]_vars PROVE CoverInv'
  OBVIOUS
<1>0. /\ KindInv /\ KindInv' /\ TypeOK /\ TypeOK' /\ recording' = recording
      /\ laps \in Seq(Laps) /\ laps' \in Seq(Laps) /\ recording.duration \in Nat
      /\ current # NoLap => current \in OpenLaps /\ current.start \in Nat
      /\ highWater = NoCounter => current = NoLap
      /\ ~finished /\ current # NoLap => EndsAt(laps, current.start)
  <2>1. KindInv /\ KindInv' /\ recording' = recording
    BY StepKind, RecordingStays DEF CoverInv
  <2>2. TileInv /\ TypeOK /\ TypeOK'
    BY <2>1 DEF KindInv, TileInv, TypeInv
  <2> QED
    BY <2>1, <2>2 DEF TileInv, TypeOK, IsRecording, OpenLaps, NothingYet
<1>1. CASE Quiet
  <2>1. /\ laps' = laps /\ finished' = finished
        /\ current' = NoLap <=> current = NoLap
        /\ current # NoLap => current'.start = current.start
        /\ highWater' = NoCounter <=> highWater = NoCounter
    BY <1>0, <1>1, QuietKeeps
  <2>2. OpenByEnd'
    BY <1>0, <2>1 DEF CoverInv, OpenByEnd
  <2>3. FirstIsNext'
    <3>1. CASE StalePitEvent \/ RedundantPitEvent \/ UNCHANGED vars
      <4>1. position' = position
        BY <3>1 DEF StalePitEvent, RedundantPitEvent, TakePitEvent, vars
      <4> QED
        BY <2>1, <4>1 DEF CoverInv, FirstIsNext
    <3>2. CASE RepeatedSample
      <4>1. highWater # NoCounter
        BY <1>0, <3>2, SampleType DEF RepeatedSample, TakeSample, NoCounter
      <4> QED
        BY <2>1, <4>1 DEF FirstIsNext
    <3>3. CASE \/ RecoveredDropout \/ ResetWhileInactive \/ IgnoredSpike \/ OverflowingCrossing
               \/ IgnoredRearm \/ IgnoredPitLaneBeacon \/ UnanchoredIncrement
      <4>1. highWater # NoCounter
        BY <3>3 DEF RecoveredDropout, ResetWhileInactive, CounterRestarts, IgnoredSpike, Spike,
           OverflowingCrossing, IgnoredRearm, IgnoredPitLaneBeacon, UnanchoredIncrement,
           CrossingAfter, TakeIncrement, Rises, Drops
      <4> QED
        BY <2>1, <4>1 DEF FirstIsNext
    <3> QED
      BY <1>1, <3>1, <3>2, <3>3 DEF Quiet
  <2>4. FromFirst'
    BY <1>0, <2>1 DEF CoverInv, FromFirst, StartsAt, CounterOf, AtOf, Offset
  <2>5. ToEnd'
    BY <1>0, <2>1 DEF CoverInv, ToEnd, EndsAt
  <2> QED
    BY <1>0, <2>2, <2>3, <2>4, <2>5 DEF CoverInv
<1>2. CASE FirstSample
  <2>1. /\ laps' = laps /\ laps = <<>> /\ ~finished' /\ SamplesLeft
        /\ highWater' = Sample.counter /\ Sample.counter \in Nat
        /\ position = 1 /\ Sample = recording.samples[1]
    BY <1>0, <1>2, SampleType
       DEF FirstSample, TakeSample, CoverInv, FirstIsNext, KindInv, TileInv, NothingYet, Sample
  <2>2. Overflows <=> CounterOf(1) + Offset > MaxCounter
    BY <2>1 DEF Overflows, CounterOf
  <2>3. /\ Overflows => current' = NoLap
        /\ ~Overflows => current' # NoLap /\ current'.start = Sample.at
    BY <1>2 DEF FirstSample, OpenAt, NoLap
  <2>4. Sample.at <= recording.duration /\ Sample.at = AtOf(1)
    BY <1>0, <2>1, ReadInTime DEF AtOf
  <2>5. OpenByEnd'
    BY <1>0, <2>3, <2>4 DEF OpenByEnd
  <2>6. FromFirst'
    <3>1. CounterOf(1) + Offset <= MaxCounter => ~Overflows
      BY <2>1, <2>2, BoundAssumption DEF CounterOf, Offset
    <3> QED
      BY <1>0, <2>1, <2>3, <2>4, <3>1 DEF FromFirst, StartsAt, CounterOf, AtOf, Offset
  <2>7. FirstIsNext' /\ ToEnd'
    BY <2>1 DEF FirstIsNext, ToEnd, NoCounter
  <2> QED
    BY <1>0, <2>5, <2>6, <2>7 DEF CoverInv
<1>3. ASSUME TakePitEvent, current # NoLap, current' # NoLap, current'.start = PitAt,
             NEW n \in Nat, Extension(laps, laps', n, current.start, PitAt)
      PROVE  CoverInv'
  <2>1. PitAt <= recording.duration /\ ~finished' /\ highWater' # NoCounter
    BY <1>0, <1>3, ReadInTime DEF TakePitEvent
  <2> QED
    BY <1>0, <1>3, <2>1, ExtensionCovers
<1>4. CASE GpsPitEntry
  BY <1>3, <1>4, PitEntryExtends DEF GpsPitEntry, CoverInv
<1>5. CASE GpsPitExit
  BY <1>3, <1>5, PitExitExtends DEF GpsPitExit, CoverInv
<1>6. ASSUME TakeSample, highWater # NoCounter, highWater' = Sample.counter,
             current' # NoLap, current'.start = Sample.at,
             NEW n \in Nat,
             current # NoLap => Extension(laps, laps', n, current.start, Sample.at)
      PROVE  CoverInv'
  <2>1. /\ Sample.at <= recording.duration /\ ~finished' /\ highWater' # NoCounter
    BY <1>0, <1>6, ReadInTime, SampleType DEF TakeSample, NoCounter
  <2>2. CASE current # NoLap
    BY <1>0, <1>6, <2>1, <2>2, ExtensionCovers
  <2>3. CASE current = NoLap
    <3>1. ~(CounterOf(1) + Offset <= MaxCounter)
      BY <1>6, <2>3 DEF CoverInv, FromFirst
    <3>2. FromFirst'
      BY <1>0, <3>1 DEF FromFirst, CounterOf, Offset
    <3> QED
      BY <1>0, <1>6, <2>1, <3>2 DEF CoverInv, OpenByEnd, FirstIsNext, ToEnd
  <2> QED
    BY <2>2, <2>3
<1>7. CASE CloseAtReset
  <2>1. TakeSample /\ highWater # NoCounter /\ highWater' = Sample.counter
    BY <1>7 DEF CloseAtReset, CounterRestarts, Drops
  <2> QED
    BY <1>0, <1>6, <1>7, <2>1, ResetExtends
<1>8. CASE Crossing
  <2>1. TakeSample /\ highWater # NoCounter /\ highWater' = Sample.counter
    BY <1>8 DEF Crossing, CrossingAfter, TakeIncrement, Rises
  <2> QED
    BY <1>0, <1>6, <1>8, <2>1, CrossingExtends
<1>9. CASE FoldPitClose
  <2>1. PICK event \in ResetEvents, slow \in BOOLEAN :
          /\ CounterRestarts(event) /\ NewStintAtReset /\ current # NoLap
          /\ PitCloseIncrement(event, slow) /\ laps' = Folded
    BY <1>9 DEF FoldPitClose
  <2>2. /\ laps # <<>> /\ Len(laps) \in DOMAIN laps /\ Len(laps') = Len(laps)
        /\ Last(laps) = laps[Len(laps)]
        /\ laps'[Len(laps)] = FoldedLap /\ FoldedLap.start = Last(laps).start
        /\ \A j \in 1 .. (Len(laps) - 1) : laps'[j] = laps[j]
    BY <1>0, <2>1, FoldReplacesLast
  <2>3. laps' # <<>> /\ laps'[1].start = laps[1].start
    BY <1>0, <2>2
  <2>4. /\ TakeSample /\ highWater # NoCounter /\ highWater' = Sample.counter
        /\ current' # NoLap /\ current'.start = Sample.at
    BY <2>1 DEF CounterRestarts, Drops, NewStintAtReset, OpenAt, NoLap
  <2>5. Sample.at <= recording.duration /\ ~finished' /\ highWater' # NoCounter
    BY <1>0, <2>4, ReadInTime, SampleType DEF TakeSample, NoCounter
  <2>6. FromFirst'
    BY <1>0, <2>2, <2>3, <2>4 DEF CoverInv, FromFirst, StartsAt, CounterOf, AtOf, Offset
  <2> QED
    BY <1>0, <2>4, <2>5, <2>6 DEF CoverInv, OpenByEnd, FirstIsNext, ToEnd
<1>10. CASE Finish
  <2>1. /\ ~finished /\ finished' /\ UNCHANGED <<current, highWater, position>>
        /\ laps' = IF current = NoLap THEN laps
                   ELSE Closed(laps, current, recording.duration, ClosingKind(phase, "end"),
                               "recording-edge")
    BY <1>10 DEF Finish
  <2>2. CASE current = NoLap
    BY <1>0, <2>1, <2>2 DEF CoverInv, OpenByEnd, FirstIsNext, FromFirst, ToEnd, CounterOf, Offset
  <2>3. CASE current # NoLap
    <3> DEFINE lap == LapOf(current, recording.duration, ClosingKind(phase, "end"), "recording-edge")
    <3>1. lap.start = current.start /\ lap.end = recording.duration
      BY DEF LapOf
    <3> HIDE DEF lap
    <3>2. current.start <= recording.duration /\ EndsAt(laps, current.start)
      BY <1>0, <2>1, <2>3 DEF CoverInv, OpenByEnd
    <3>3. CASE current.start < recording.duration
      <4>1. laps' = Append(laps, lap)
        BY <1>0, <2>1, <2>3, <3>3 DEF Closed, lap
      <4>2. /\ Len(laps') = Len(laps) + 1 /\ laps'[Len(laps) + 1] = lap /\ Len(laps) \in Nat
            /\ laps' # <<>> /\ laps # <<>> => laps'[1] = laps[1]
            /\ laps = <<>> => laps'[1] = lap
        BY <1>0, <4>1
      <4>3. EndsAt(laps', recording.duration)
        BY <3>1, <4>2 DEF EndsAt, Last
      <4>4. FromFirst'
        BY <1>0, <2>1, <3>1, <4>2 DEF CoverInv, FromFirst, StartsAt, CounterOf, AtOf, Offset
      <4> QED
        BY <1>0, <2>1, <3>2, <4>2, <4>3, <4>4 DEF CoverInv, OpenByEnd, FirstIsNext, ToEnd
    <3>4. CASE current.start = recording.duration
      <4>1. laps' = laps
        BY <1>0, <2>1, <2>3, <3>4 DEF Closed
      <4>2. FromFirst'
        BY <1>0, <2>1, <4>1 DEF CoverInv, FromFirst, StartsAt, CounterOf, AtOf, Offset
      <4> QED
        BY <1>0, <2>1, <3>2, <3>4, <4>1, <4>2 DEF CoverInv, OpenByEnd, FirstIsNext, ToEnd, EndsAt
    <3> QED
      BY <1>0, <2>3, <3>2, <3>3, <3>4
  <2> QED
    BY <2>2, <2>3
<1> QED
  BY <1>1, <1>2, <1>4, <1>5, <1>7, <1>8, <1>9, <1>10 DEF Next, Quiet

\* When the walk ends, every instant from the first sample to the end of the
\* recording lies in one interval.
THEOREM WholeIsCovered == Spec => []CoversRecording
<1>1. CoverInv => CoversRecording
  <2> SUFFICES ASSUME CoverInv, finished, current # NoLap, AtOf(1) < recording.duration,
                      CounterOf(1) + Offset <= MaxCounter
               PROVE  /\ laps # <<>> /\ laps[1].start = AtOf(1)
                      /\ Last(laps).end = recording.duration
    BY DEF CoversRecording
  <2>1. highWater # NoCounter /\ current.start \in Nat /\ recording.duration \in Nat
    BY DEF CoverInv, KindInv, TileInv, TypeInv, TypeOK, IsRecording, OpenLaps, NothingYet
  <2>2. StartsAt(laps, current, AtOf(1))
    BY <2>1 DEF CoverInv, FromFirst
  <2>3. laps # <<>>
    BY <2>1, <2>2 DEF CoverInv, ToEnd, StartsAt
  <2> QED
    BY <2>2, <2>3 DEF CoverInv, ToEnd, StartsAt, EndsAt
<1>2. Spec => []CoverInv
  BY InitCover, StepCover, PTL DEF Spec
<1> QED
  BY <1>1, <1>2, PTL

(***************************************************************************)
(* Timing: while the car is on track the crossing that opened the interval *)
(* stands, and every drop below its counter since then recovered in time.  *)
(***************************************************************************)
RecoversTo(i, s) ==
    \E j \in DOMAIN recording.samples :
        /\ j > i /\ CounterOf(j) >= CounterOf(s)
        /\ AtOf(j) - AtOf(i) <= ConfirmWindow

HeldUntil(s, n) ==
    \A i \in (s + 1) .. (n - 1) : CounterOf(i) < CounterOf(s) => RecoversTo(i, s)

Anchor(s) ==
    /\ s \in 1 .. (position - 1)
    /\ AtOf(s) = current.start
    /\ CounterOf(s) <= highWater
    /\ HeldUntil(s, position)

AnchorHolds == phase = "on-track" /\ ~finished => \E s \in Nat : Anchor(s)

Timed(lap) ==
    /\ <<lap.startBoundary, lap.endBoundary>> = <<"counter-crossing", "counter-crossing">>
    /\ \E s, e \in DOMAIN recording.samples :
          /\ AtOf(s) = lap.start /\ AtOf(e) = lap.end
          /\ CounterOf(s) < CounterOf(e)
          /\ HeldUntil(s, e)

FlyersTimed(ls) == \A l \in DOMAIN ls : ls[l].kind = "flying" => Timed(ls[l])

TimingInv == ContractInv /\ AnchorHolds /\ FlyersTimed(laps)

LEMMA SameTimes ==
    ASSUME recording' = recording
    PROVE  /\ \A s, n : HeldUntil(s, n) <=> HeldUntil(s, n)'
           /\ \A lap : Timed(lap) <=> Timed(lap)'
           /\ \A i : CounterOf(i)' = CounterOf(i) /\ AtOf(i)' = AtOf(i)
<1>1. \A i : CounterOf(i)' = CounterOf(i) /\ AtOf(i)' = AtOf(i)
  BY DEF CounterOf, AtOf
<1>2. \A i, s : RecoversTo(i, s) <=> RecoversTo(i, s)'
  BY <1>1 DEF RecoversTo
<1>3. \A s, n : HeldUntil(s, n) <=> HeldUntil(s, n)'
  BY <1>1, <1>2 DEF HeldUntil
<1> QED
  BY <1>1, <1>3 DEF Timed

\* Samples are numbers.
LEMMA TakenTypes ==
    ASSUME TypeOK
    PROVE  /\ Len(recording.samples) \in Nat /\ DOMAIN recording.samples = 1 .. Len(recording.samples)
           /\ \A i \in DOMAIN recording.samples : CounterOf(i) \in Nat /\ AtOf(i) \in Nat
           /\ position \in Nat /\ position - 1 \in 0 .. Len(recording.samples)
           /\ SamplesLeft => position \in DOMAIN recording.samples
           /\ Sample = recording.samples[position]
           /\ Sample.counter = CounterOf(position) /\ Sample.at = AtOf(position)
<1>1. recording.samples \in Seq(Samples)
  BY DEF TypeOK, IsRecording
<1>2. \A i \in DOMAIN recording.samples : recording.samples[i] \in Samples
  BY <1>1
<1>3. \A i \in DOMAIN recording.samples : CounterOf(i) \in Nat /\ AtOf(i) \in Nat
  BY <1>2 DEF Samples, CounterOf, AtOf
<1> QED
  BY <1>1, <1>3 DEF TypeOK, SamplesLeft, Sample, CounterOf, AtOf

\* A sample that is not below what is held, or recovers to it, keeps an anchor.
LEMMA AnchorKept ==
    ASSUME TypeOK, TypeOK', TakeSample, current'.start = current.start,
           highWater \in Nat, highWater' \in Nat, highWater' >= highWater,
           \/ Sample.counter >= highWater
           \/ \E stationary \in BOOLEAN : Recovers(stationary),
           NEW s \in Nat, Anchor(s)
    PROVE  Anchor(s)'
<1>1. /\ s \in 1 .. (position - 1) /\ CounterOf(s) <= highWater /\ HeldUntil(s, position)
      /\ AtOf(s) = current.start
  BY DEF Anchor
<1>2. position' = position + 1 /\ recording' = recording /\ SamplesLeft
  BY DEF TakeSample
<1>3. /\ CounterOf(s) \in Nat /\ CounterOf(position) \in Nat /\ position \in DOMAIN recording.samples
      /\ Sample.counter = CounterOf(position) /\ Sample.at = AtOf(position)
      /\ \A i \in DOMAIN recording.samples : CounterOf(i) \in Nat
      /\ position \in Nat
  <2>1. /\ DOMAIN recording.samples = 1 .. Len(recording.samples) /\ Len(recording.samples) \in Nat
        /\ position \in DOMAIN recording.samples /\ position \in Nat
        /\ \A i \in DOMAIN recording.samples : CounterOf(i) \in Nat
        /\ Sample.counter = CounterOf(position) /\ Sample.at = AtOf(position)
    BY <1>2, TakenTypes
  <2>2. s \in DOMAIN recording.samples
    BY <1>1, <2>1
  <2> QED
    BY <2>1, <2>2, Zenon
<1>4. CounterOf(position) < CounterOf(s) => RecoversTo(position, s)
  <2>1. CASE Sample.counter >= highWater
    BY <1>1, <1>3, <2>1
  <2>2. CASE \E stationary \in BOOLEAN : Recovers(stationary)
    <3>1. PICK j \in Later : AtOf(j) - Sample.at <= ConfirmWindow /\ CounterOf(j) >= highWater
      BY <2>2 DEF Recovers
    <3>2. j \in DOMAIN recording.samples /\ j > position /\ CounterOf(j) >= CounterOf(s)
      BY <1>1, <1>3, <3>1 DEF Later
    <3> QED
      BY <1>3, <3>1, <3>2 DEF RecoversTo
  <2> QED
    BY <2>1, <2>2
<1>5. PICK n \in Nat : n = position + 1
  BY <1>3
<1>6. HeldUntil(s, n)
  BY <1>1, <1>3, <1>4, <1>5 DEF HeldUntil
<1>7. HeldUntil(s, n)' /\ position' = n
  BY <1>2, <1>6, <1>5, SameTimes
<1>8. CounterOf(s)' = CounterOf(s) /\ AtOf(s)' = AtOf(s)
  BY <1>2, SameTimes
<1>9. s \in 1 .. (n - 1) /\ CounterOf(s) <= highWater'
  BY <1>1, <1>3, <1>5
<1> QED
  BY <1>1, <1>7, <1>8, <1>9 DEF Anchor

\* Growing a list by what does not fly keeps its flying laps timed.
LEMMA ExtensionTimed ==
    ASSUME NEW ls \in Seq(Laps), NEW more \in Seq(Laps), NEW n \in Nat, NEW t, NEW u,
           Extension(ls, more, n, t, u), NoneFlies(ls, more), FlyersTimed(ls)
    PROVE  FlyersTimed(more)
<1> SUFFICES ASSUME NEW l \in DOMAIN more, more[l].kind = "flying" PROVE Timed(more[l])
  BY DEF FlyersTimed
<1>1. l \in 1 .. Len(ls)
  BY DEF Extension, NoneFlies
<1> QED
  BY <1>1 DEF Extension, FlyersTimed

\* The lap a crossing on track closes.
LEMMA CrossingCloses ==
    ASSUME ContractInv, Crossing, phase = "on-track"
    PROVE  laps' = Append(laps, LapOf(current, Sample.at, "flying", "counter-crossing"))
<1>1. PICK left \in Departures :
          LET d == Departed(left)
          IN  /\ CrossingAfter(left)
              /\ laps' = IF d.open = NoLap THEN d.laps
                         ELSE Closed(d.laps, d.open, Sample.at,
                                     ClosingKind(d.phase, "crossing"), "counter-crossing")
  BY DEF Crossing
<1>2. Departed(left).laps = laps /\ Departed(left).open = current /\ Departed(left).phase = phase
  BY DEF Departed, Inactive, Active
<1>3. ClosingKind("on-track", "crossing") = "flying"
  BY DEF ClosingKind, CrossedKind
<1>4. current # NoLap /\ current.start < Sample.at /\ Sample.at \in Nat /\ current.start \in Nat
  <2>1. current # NoLap /\ Sample.at \in Nat
    BY CrossingFindsOpen, CrossingExtends DEF ContractInv
  <2>2. SamplesLeft
    BY <1>1 DEF CrossingAfter, TakeIncrement, TakeSample
  <2> QED
    BY <2>1, <2>2 DEF ContractInv, AnchorBefore, KindInv, TileInv, TypeInv, TypeOK, OpenLaps
<1> QED
  BY <1>1, <1>2, <1>3, <1>4 DEF Closed

LEMMA InitTiming == Init => TimingInv
<1> SUFFICES ASSUME Init PROVE TimingInv
  OBVIOUS
<1>1. ContractInv
  BY InitContract
<1>2. phase # "on-track" /\ laps = <<>>
  BY <1>1, AnchorIsCrossing DEF Init, ContractInv
<1> QED
  BY <1>1, <1>2 DEF TimingInv, AnchorHolds, FlyersTimed

LEMMA StepAnchor == TimingInv /\ ContractInv' /\ [Next]_vars => AnchorHolds'
<1> SUFFICES ASSUME TimingInv, ContractInv', [Next]_vars, phase' = "on-track", ~finished'
             PROVE  \E s \in Nat : Anchor(s)'
  BY DEF AnchorHolds
<1>0. /\ ContractInv /\ KindInv /\ TypeOK /\ TypeOK' /\ recording' = recording
      /\ phase \in Phases /\ highWater \in Nat \cup {NoCounter}
      /\ current # NoLap => current \in OpenLaps
      /\ highWater = NoCounter => current = NoLap
  <2>1. ContractInv /\ KindInv /\ TypeOK /\ TypeOK' /\ recording' = recording
    BY RecordingStays DEF TimingInv, ContractInv, KindInv, TileInv, TypeInv
  <2> QED
    BY <2>1 DEF TypeOK, KindInv, TileInv, NothingYet
<1>1. phase = "on-track" => current # NoLap /\ highWater \in Nat
  BY <1>0, AnchorIsCrossing
<1>2. ASSUME TakeSample, phase = "on-track", current'.start = current.start,
             highWater' \in Nat, highWater' >= highWater,
             \/ Sample.counter >= highWater
             \/ \E stationary \in BOOLEAN : Recovers(stationary)
      PROVE  \E s \in Nat : Anchor(s)'
  <2>1. PICK s \in Nat : Anchor(s)
    BY <1>2 DEF TimingInv, AnchorHolds, TakeSample
  <2> QED
    BY <1>0, <1>1, <1>2, <2>1, AnchorKept
<1>3. ASSUME UNCHANGED <<recording, current, highWater, position, finished>>, phase = "on-track"
      PROVE  \E s \in Nat : Anchor(s)'
  <2>1. PICK s \in Nat : Anchor(s)
    BY <1>3 DEF TimingInv, AnchorHolds
  <2>2. Anchor(s)'
    BY <1>3, <2>1, SameTimes DEF Anchor
  <2> QED
    BY <2>2
<1>4. CASE StalePitEvent \/ RedundantPitEvent \/ UNCHANGED vars
  BY <1>3, <1>4 DEF StalePitEvent, RedundantPitEvent, TakePitEvent, vars
<1>5. CASE GpsPitEntry
  BY <1>0, <1>5, PitEntryExtends
<1>6. CASE GpsPitExit
  BY <1>0, <1>6, PitExitExtends
<1>7. CASE FirstSample
  <2>1. phase = "on-track" /\ highWater = NoCounter
    BY <1>7 DEF FirstSample
  <2> QED
    BY <1>1, <2>1 DEF NoCounter
<1>8. CASE RepeatedSample \/ IgnoredSpike \/ OverflowingCrossing
  <2>1. /\ TakeSample /\ phase = "on-track" /\ UNCHANGED <<current, highWater>>
    BY <1>8 DEF RepeatedSample, IgnoredSpike, OverflowingCrossing, Rest
  <2>2. Sample.counter = highWater \/ Sample.counter > highWater
    BY <1>8 DEF RepeatedSample, IgnoredSpike, Spike, OverflowingCrossing, Rises
  <2>3. Sample.counter \in Nat /\ highWater \in Nat
    BY <1>0, <1>1, <2>1, SampleType DEF TakeSample
  <2> QED
    BY <1>2, <2>1, <2>2, <2>3
<1>9. CASE RecoveredDropout
  <2>1. /\ TakeSample /\ phase = "on-track" /\ UNCHANGED <<current, highWater>>
        /\ \E stationary \in BOOLEAN : Recovers(stationary)
    BY <1>9 DEF RecoveredDropout, Rest
  <2> QED
    BY <1>1, <1>2, <2>1
<1>10. ASSUME NEW event \in ResetEvents, CounterRestarts(event) PROVE FALSE
  <2>1. phase' \in Inactive
    BY <1>0, <1>10, ReducerCloses DEF CounterRestarts
  <2> QED
    BY <2>1 DEF Inactive, Active
<1>11. CASE FoldPitClose \/ CloseAtReset \/ ResetWhileInactive
  BY <1>10, <1>11 DEF FoldPitClose, CloseAtReset, ResetWhileInactive
<1>12. CASE IgnoredRearm \/ IgnoredPitLaneBeacon \/ UnanchoredIncrement
  <2>1. TakeSample /\ phase = "on-track" /\ highWater' = Sample.counter /\ Sample.counter > highWater
    BY <1>0, <1>12, ReducerCloses
       DEF IgnoredRearm, IgnoredPitLaneBeacon, UnanchoredIncrement, CrossingAfter,
           TakeIncrement, Rises
  <2>2. current'.start = current.start
    BY <1>0, <1>1, <1>12, <2>1
       DEF IgnoredRearm, IgnoredPitLaneBeacon, UnanchoredIncrement, OpenLaps
  <2>3. Sample.counter \in Nat /\ highWater \in Nat
    BY <1>0, <1>1, <2>1, SampleType DEF TakeSample
  <2> QED
    BY <1>2, <2>1, <2>2, <2>3
<1>13. CASE Crossing
  <2>1. /\ TakeSample /\ highWater' = Sample.counter /\ current'.start = Sample.at
    BY <1>0, <1>13, CrossingExtends DEF Crossing, CrossingAfter, TakeIncrement
  <2>2. /\ position \in Nat \ {0} /\ Sample.counter = CounterOf(position)
        /\ Sample.at = AtOf(position) /\ Sample.counter \in Nat
        /\ position' = position + 1
    <3>1. SamplesLeft /\ position' = position + 1
      BY <2>1 DEF TakeSample
    <3>2. Sample.counter \in Nat
      BY <1>0, <3>1, SampleType
    <3>3. position \in DOMAIN recording.samples /\ DOMAIN recording.samples = 1 .. Len(recording.samples)
          /\ Len(recording.samples) \in Nat
      BY <1>0, <3>1, TakenTypes
    <3>4. position \in Nat \ {0}
      BY <3>3
    <3>5. Sample.counter = CounterOf(position) /\ Sample.at = AtOf(position)
      BY <1>0, TakenTypes
    <3> QED
      BY <3>1, <3>2, <3>4, <3>5, Zenon
  <2>3. PICK s \in Nat : s = position
    BY <2>2
  <2>4. PICK n \in Nat : n = s + 1
    OBVIOUS
  <2>5. HeldUntil(s, n)
    BY <2>4 DEF HeldUntil
  <2>6. /\ HeldUntil(s, n)' /\ position' = n
        /\ CounterOf(s)' = CounterOf(s) /\ AtOf(s)' = AtOf(s)
    BY <1>0, <2>2, <2>3, <2>4, <2>5, SameTimes
  <2>7. s \in 1 .. (n - 1)
    BY <2>2, <2>3, <2>4
  <2>8. Anchor(s)'
    BY <2>1, <2>2, <2>3, <2>6, <2>7 DEF Anchor
  <2> QED
    BY <2>8
<1>14. CASE Finish
  BY <1>14 DEF Finish
<1> QED
  BY <1>4, <1>5, <1>6, <1>7, <1>8, <1>9, <1>11, <1>12, <1>13, <1>14 DEF Next

LEMMA StepTimed == TimingInv /\ ContractInv' /\ [Next]_vars => FlyersTimed(laps)'
<1> SUFFICES ASSUME TimingInv, ContractInv', [Next]_vars PROVE FlyersTimed(laps)'
  OBVIOUS
<1>0. /\ ContractInv /\ KindInv /\ TypeOK /\ recording' = recording /\ FlyersTimed(laps)
      /\ laps \in Seq(Laps) /\ laps' \in Seq(Laps) /\ phase \in Phases
  BY RecordingStays DEF TimingInv, ContractInv, KindInv, TileInv, TypeInv, TypeOK
<1>1. SUFFICES FlyersTimed(laps')
  BY <1>0, SameTimes DEF FlyersTimed
<1>2. CASE Quiet \/ FirstSample
  BY <1>0, <1>2, QuietKeeps DEF FirstSample
<1>3. CASE GpsPitEntry
  BY <1>0, <1>3, PitEntryExtends, ExtensionTimed
<1>4. CASE GpsPitExit
  BY <1>0, <1>4, PitExitExtends, ExtensionTimed
<1>5. CASE CloseAtReset
  BY <1>0, <1>5, ResetExtends, ExtensionTimed
<1>6. CASE FoldPitClose
  <2>1. PICK event \in ResetEvents, slow \in BOOLEAN :
          CounterRestarts(event) /\ PitCloseIncrement(event, slow) /\ laps' = Folded
    BY <1>6 DEF FoldPitClose
  <2>2. /\ Len(laps') = Len(laps) /\ laps'[Len(laps)] = FoldedLap
        /\ \A j \in 1 .. (Len(laps) - 1) : laps'[j] = laps[j]
        /\ FoldedLap.kind \in {"in", "out-in"}
    BY <1>0, <2>1, FoldReplacesLast
  <2> QED
    BY <1>0, <2>2 DEF FlyersTimed
<1>7. CASE Crossing
  <2>1. CASE current = NoLap
    BY <1>0, <1>7, <2>1, CrossingFindsOpen
  <2>2. CASE current # NoLap /\ phase # "on-track"
    BY <1>0, <1>7, <2>2, CrossingExtends, ExtensionTimed
  <2>3. CASE phase = "on-track"
    <3> DEFINE lap == LapOf(current, Sample.at, "flying", "counter-crossing")
    <3>1. laps' = Append(laps, lap)
      BY <1>0, <1>7, <2>3, CrossingCloses
    <3>2. /\ lap.startBoundary = "counter-crossing" /\ lap.endBoundary = "counter-crossing"
          /\ lap.start = current.start /\ lap.end = Sample.at
      BY <1>0, <2>3, AnchorIsCrossing DEF LapOf
    <3> HIDE DEF lap
    <3>3. ~finished /\ SamplesLeft /\ highWater # NoCounter /\ Sample.counter > highWater
      BY <1>7 DEF Crossing, CrossingAfter, TakeIncrement, TakeSample, Rises
    <3>4. PICK s \in Nat : Anchor(s)
      BY <2>3, <3>3 DEF TimingInv, AnchorHolds
    <3>5. /\ position \in DOMAIN recording.samples /\ s \in DOMAIN recording.samples
          /\ AtOf(position) = Sample.at /\ CounterOf(position) = Sample.counter
          /\ CounterOf(s) \in Nat /\ Sample.counter \in Nat /\ highWater \in Nat
      <4>1. /\ Len(recording.samples) \in Nat /\ DOMAIN recording.samples = 1 .. Len(recording.samples)
            /\ \A i \in DOMAIN recording.samples : CounterOf(i) \in Nat /\ AtOf(i) \in Nat
            /\ position \in DOMAIN recording.samples
            /\ Sample.counter = CounterOf(position) /\ Sample.at = AtOf(position)
        BY <1>0, <3>3, TakenTypes
      <4>2. s \in 1 .. (position - 1)
        BY <3>4 DEF Anchor
      <4>3. s \in DOMAIN recording.samples
        <5>1. PICK n \in Nat, k \in Nat : n = Len(recording.samples) /\ k = position /\ k <= n
          BY <4>1
        <5>2. s \in 1 .. n
          BY <4>2, <5>1
        <5> QED
          BY <4>1, <5>1, <5>2, Zenon
      <4>4. highWater \in Nat
        <5>1. highWater \in Nat \cup {NoCounter}
          BY <1>0, Zenon DEF TypeOK
        <5>2. highWater # NoCounter
          BY <3>3, Zenon
        <5> QED
          BY <5>1, <5>2
      <4> QED
        BY <4>1, <4>3, <4>4, Zenon
    <3>6. CounterOf(s) < CounterOf(position) /\ HeldUntil(s, position) /\ AtOf(s) = lap.start
      BY <3>2, <3>3, <3>4, <3>5 DEF Anchor
    <3>7. Timed(lap)
      BY <3>2, <3>5, <3>6 DEF Timed
    <3>8. \A l \in DOMAIN laps' : laps'[l] = lap \/ (l \in DOMAIN laps /\ laps'[l] = laps[l])
      BY <1>0, <3>1
    <3> QED
      BY <1>0, <3>7, <3>8 DEF FlyersTimed
  <2> QED
    BY <2>1, <2>2, <2>3
<1>8. CASE Finish
  <2> DEFINE lap == LapOf(current, recording.duration, ClosingKind(phase, "end"), "recording-edge")
  <2>1. laps' = laps \/ laps' = Append(laps, lap)
    BY <1>8 DEF Finish, Closed
  <2>2. lap.kind # "flying"
    BY <1>0, ReducerAnchor DEF LapOf, Events
  <2> HIDE DEF lap
  <2>3. \A l \in DOMAIN laps' : laps'[l] = lap \/ (l \in DOMAIN laps /\ laps'[l] = laps[l])
    BY <1>0, <2>1
  <2> QED
    BY <1>0, <2>2, <2>3 DEF FlyersTimed
<1> QED
  BY <1>2, <1>3, <1>4, <1>5, <1>6, <1>7, <1>8 DEF Next, Quiet

\* A flying lap runs from crossing to crossing, with a higher counter at its
\* end, and every drop in between recovered within the window.
THEOREM FlyingLapsTimed == Spec => []FlyingIsTimed
<1>1. TimingInv => FlyingIsTimed
  BY DEF TimingInv, FlyersTimed, Timed, HeldUntil, RecoversTo, FlyingIsTimed, Boundary
<1>2. TimingInv /\ [Next]_vars => TimingInv'
  BY StepContract, StepAnchor, StepTimed DEF TimingInv
<1>3. Spec => []TimingInv
  BY InitTiming, <1>2, PTL DEF Spec
<1> QED
  BY <1>1, <1>3, PTL

(***************************************************************************)
(* Publication: how the intervals of a walk hang together.                 *)
(***************************************************************************)
\* The ends of a stint, and the ends at which the next interval starts with
\* evidence of the same kind.
EndsStint == {"counter-reset", "gps-pit-entry"}
Carries == EndsStint \cup {"motion-departure"}

\* How a lap that begins with the car standing in the pits may end.
StandEnds == {"motion-departure", "gps-pit-exit", "recording-edge", "counter-reset"}

\* Standing, for the resets rs.
Stands(lap, rs) ==
    \/ lap.startBoundary = "gps-pit-entry"
    \/ lap.startBoundary = "counter-reset" /\ \E r \in rs : r.at = lap.start /\ r.event # "reset-moving"

\* What holds of every lap, when n is the stint being recorded.
Sound(lap, n, rs) ==
    /\ lap.complete <=> lap.kind = "flying"
    /\ 1 <= lap.stint /\ lap.stint <= n
    /\ lap.endBoundary \in EndsStint => lap.stint < n
    /\ Stands(lap, rs) => lap.endBoundary \in StandEnds

\* What holds of two laps, one after the other.
Joint(a, b) ==
    /\ a.endBoundary \in Carries => b.startBoundary = a.endBoundary
    /\ a.stint <= b.stint
    /\ a.endBoundary \in EndsStint => a.stint < b.stint
    /\ a.endBoundary # "recording-edge" /\ b.startBoundary # "recording-edge"

Chain(ls, n, rs) ==
    /\ \A i \in DOMAIN ls : Sound(ls[i], n, rs)
    /\ \A i \in DOMAIN ls : i > 1 => Joint(ls[i - 1], ls[i])

\* The open interval, which starts at the boundary `starts`, follows the last lap.
Follows(ls, starts) ==
    ls # <<>> => /\ Last(ls).endBoundary # "recording-edge" /\ starts # "recording-edge"
                 /\ Last(ls).endBoundary \in Carries => starts = Last(ls).endBoundary

\* A reset was confirmed at an earlier sample.
ResetsPast == SamplesLeft => \A r \in resets : r.at < Sample.at

\* What is open after a reset began before the next sample; and a step that
\* finds a departure goes on to close the interval it opens.
OpenedByEvent ==
    /\ current.startBoundary = "counter-reset" /\ SamplesLeft => current.start < Sample.at
    /\ current.startBoundary # "motion-departure"

LinkInv ==
    /\ KindInv
    /\ Chain(laps, stint, resets)
    /\ ~finished => Follows(laps, current.startBoundary)
    /\ ResetsPast
    /\ OpenedByEvent
    /\ current # NoLap /\ Stands(current, resets) => phase \in {"pit", "stopped"}

(***************************************************************************)
(* Closing an interval.                                                    *)
(***************************************************************************)
LEMMA ClosedEnds ==
    ASSUME NEW ls \in Seq(Laps), NEW open \in OpenLaps, NEW until \in Nat, NEW kind \in Kinds,
           NEW boundary \in Boundaries, stint \in Nat
    PROVE  LET more == Closed(ls, open, until, kind, boundary)
           IN  IF until > open.start
               THEN /\ more # <<>> /\ Len(more) = Len(ls) + 1
                    /\ Last(more) = LapOf(open, until, kind, boundary)
                    /\ more[Len(ls) + 1] = LapOf(open, until, kind, boundary)
                    /\ \A i \in 1 .. Len(ls) : more[i] = ls[i]
               ELSE more = ls
<1>1. CASE until > open.start
    <2> DEFINE lap == LapOf(open, until, kind, boundary)
    <2>1. Closed(ls, open, until, kind, boundary) = Append(ls, lap)
        BY <1>1 DEF Closed
    <2>2. lap \in Laps
        BY DEF LapOf, Laps, OpenLaps
    <2> HIDE DEF lap
    <2>3. /\ Len(Append(ls, lap)) = Len(ls) + 1
          /\ Append(ls, lap)[Len(ls) + 1] = lap
          /\ \A i \in 1 .. Len(ls) : Append(ls, lap)[i] = ls[i]
        BY <2>2
    <2>5. Append(ls, lap) # <<>>
        BY <2>2, AppendProperties
    <2>4. Last(Append(ls, lap)) = lap
        BY <2>3 DEF Last
    <2> QED
        BY <1>1, <2>1, <2>3, <2>4, <2>5 DEF lap
<1>2. CASE ~(until > open.start)
    BY <1>2 DEF Closed
<1> QED
    BY <1>1, <1>2

\* Closing an interval keeps the chain, and the interval that opens where it
\* ends follows it: unless nothing is closed where the next boundary matters.
LEMMA ClosedLinks ==
    ASSUME NEW ls \in Seq(Laps), NEW open \in OpenLaps, NEW until \in Nat, NEW kind \in Kinds,
           NEW boundary \in Boundaries, stint \in Nat \ {0}, NEW m \in Nat, NEW rs,
           Chain(ls, stint, rs), Follows(ls, open.startBoundary),
           stint <= m, boundary \in EndsStint => stint < m,
           Stands(open, rs) => boundary \in StandEnds
    PROVE  Chain(Closed(ls, open, until, kind, boundary), m, rs)
<1> DEFINE more == Closed(ls, open, until, kind, boundary)
           lap == LapOf(open, until, kind, boundary)
<1>1. /\ lap.complete <=> lap.kind = "flying"
      /\ lap.stint = stint /\ lap.endBoundary = boundary
      /\ lap.startBoundary = open.startBoundary /\ lap.start = open.start
    BY DEF LapOf, OpenLaps
<1>2. Sound(lap, m, rs)
    BY <1>1 DEF Sound, Stands
<1>3. Len(ls) \in Nat /\ DOMAIN ls = 1 .. Len(ls)
    OBVIOUS
<1>4. ASSUME NEW i \in 1 .. Len(ls) PROVE Sound(ls[i], m, rs) /\ ls[i].stint <= stint
    <2>1. Sound(ls[i], stint, rs)
        BY <1>3 DEF Chain
    <2>2. ls[i] \in Laps
        BY <1>3
    <2>3. ls[i].stint \in Nat
        BY <2>2 DEF Laps
    <2> QED
        BY <2>1, <2>3 DEF Sound
<1>5. CASE until > open.start
    <2>1. /\ more # <<>> /\ Len(more) = Len(ls) + 1
          /\ more[Len(ls) + 1] = lap
          /\ \A i \in 1 .. Len(ls) : more[i] = ls[i]
          /\ more \in Seq(Laps)
        BY <1>5, ClosedEnds, ClosedType
    <2> HIDE DEF more, lap
    <2>2. DOMAIN more = 1 .. (Len(ls) + 1)
        BY <1>3, <2>1
    <2>3. ASSUME NEW i \in DOMAIN more PROVE Sound(more[i], m, rs)
        <3>1. i \in 1 .. Len(ls) \/ i = Len(ls) + 1
            BY <1>3, <2>2
        <3> QED
            BY <1>2, <1>4, <2>1, <3>1
    <2>4. ASSUME NEW i \in DOMAIN more, i > 1 PROVE Joint(more[i - 1], more[i])
        <3>1. CASE i \in 1 .. Len(ls)
            <4>1. i - 1 \in 1 .. Len(ls) /\ i \in DOMAIN ls
                BY <1>3, <2>4, <3>1
            <4>2. Joint(ls[i - 1], ls[i])
                BY <2>4, <4>1 DEF Chain
            <4> QED
                BY <2>1, <3>1, <4>1, <4>2
        <3>2. CASE i = Len(ls) + 1
            <4>1. Len(ls) \in 1 .. Len(ls) /\ ls # <<>> /\ i - 1 = Len(ls)
                BY <1>3, <2>4, <3>2
            <4>2. Last(ls) = ls[Len(ls)] /\ ls[Len(ls)] \in Laps
                BY <1>3, <4>1 DEF Last
            <4>3. /\ Last(ls).endBoundary # "recording-edge" /\ open.startBoundary # "recording-edge"
                  /\ Last(ls).endBoundary \in Carries => open.startBoundary = Last(ls).endBoundary
                BY <4>1 DEF Follows
            <4>4. Sound(ls[Len(ls)], stint, rs)
                BY <1>3, <4>1 DEF Chain
            <4>5. Joint(ls[Len(ls)], lap)
                BY <1>1, <4>2, <4>3, <4>4 DEF Joint, Sound
            <4> QED
                BY <2>1, <3>2, <4>1, <4>5
        <3> QED
            BY <1>3, <2>2, <3>1, <3>2
    <2>5. Chain(more, m, rs)
        BY <2>3, <2>4 DEF Chain
    <2> QED
        BY <2>5 DEF more
<1>6. CASE ~(until > open.start)
    <2>1. more = ls
        BY <1>6 DEF Closed
    <2> HIDE DEF more
    <2>2. Chain(ls, m, rs)
        BY <1>3, <1>4 DEF Chain
    <2> QED
        BY <2>1, <2>2 DEF more
<1> QED
    BY <1>5, <1>6

LEMMA ClosedFollows ==
    ASSUME NEW ls \in Seq(Laps), NEW open \in OpenLaps, NEW until \in Nat, NEW kind \in Kinds,
           NEW boundary \in Boundaries \ {"recording-edge"}, stint \in Nat,
           Follows(ls, open.startBoundary),
           until <= open.start /\ ls # <<>> => Last(ls).endBoundary \notin Carries
    PROVE  Follows(Closed(ls, open, until, kind, boundary), boundary)
<1> DEFINE more == Closed(ls, open, until, kind, boundary)
<1>1. open.start \in Nat
    BY DEF OpenLaps
<1>2. CASE until > open.start
    <2>1. Last(more) = LapOf(open, until, kind, boundary)
        BY <1>2, ClosedEnds
    <2>2. Last(more).endBoundary = boundary
        BY <2>1 DEF LapOf
    <2> QED
        BY <2>2 DEF Follows
<1>3. CASE ~(until > open.start)
    <2>1. more = ls
        BY <1>3 DEF Closed
    <2>2. until <= open.start
        BY <1>1, <1>3
    <2> QED
        BY <2>1, <2>2 DEF Follows
<1> QED
    BY <1>2, <1>3

LEMMA LinkTypes ==
    ASSUME LinkInv
    PROVE  /\ TileInv /\ TypeInv /\ TypeOK /\ IsRecording(recording)
           /\ phase \in Phases /\ laps \in Seq(Laps) /\ stint \in Nat \ {0}
           /\ current \in OpenLaps \cup {NoLap}
           /\ current # NoLap => /\ current \in OpenLaps /\ current.start \in Nat
                                 /\ current.startBoundary \in Boundaries
BY DEF LinkInv, KindInv, TileInv, TypeInv, TypeOK, OpenLaps

\* A departure closes what stood still, and the interval it opens follows.
LEMMA DepartedLinks ==
    ASSUME LinkInv, ~finished, current # NoLap, NEW t \in Nat,
           NEW left \in DepartureIn(current.start, t)
    PROVE  LET d == Departed(left)
           IN  /\ Chain(d.laps, stint, resets)
               /\ Follows(d.laps, d.open.startBoundary)
               /\ \/ /\ d.phase = "out" /\ d.open.start < t
                     /\ d.open.startBoundary = "motion-departure"
                  \/ d.laps = laps /\ d.open = current /\ d.phase = phase
<1>1. /\ phase \in Phases /\ laps \in Seq(Laps) /\ stint \in Nat \ {0} /\ current \in OpenLaps
      /\ current.start \in Nat
    BY LinkTypes
<1>2. CASE phase \in Inactive /\ left # NoTime
    <2>1. left \in Nat /\ left < t /\ left > current.start
        BY <1>1, <1>2 DEF DepartureIn, NoTime
    <2>2. ClosingKind(phase, "departure") \in Kinds /\ NextPhase(phase, "departure") = "out"
        BY <1>1, <1>2, ReducerCloses
    <2> DEFINE more == Closed(laps, current, left, ClosingKind(phase, "departure"),
                              "motion-departure")
    <2>3. Chain(more, stint, resets)
        <3>1. "motion-departure" \in StandEnds /\ "motion-departure" \in Boundaries
              /\ "motion-departure" \notin EndsStint
            BY DEF StandEnds, Boundaries, EndsStint
        <3> QED
            BY <1>1, <2>1, <2>2, <3>1, ClosedLinks DEF LinkInv
    <2>4. Follows(more, "motion-departure")
        <3>1. "motion-departure" \in Boundaries \ {"recording-edge"}
            BY DEF Boundaries
        <3> QED
            BY <1>1, <2>1, <2>2, <3>1, ClosedFollows DEF LinkInv
    <2>5. /\ Departed(left).laps = more /\ Departed(left).phase = "out"
          /\ Departed(left).open = OpenAt(current.stintLap, left, "motion-departure")
        BY <1>2, <2>2 DEF Departed
    <2> HIDE DEF more
    <2> QED
        BY <2>1, <2>3, <2>4, <2>5 DEF OpenAt
<1>3. CASE ~(phase \in Inactive /\ left # NoTime)
    <2>1. Departed(left).laps = laps /\ Departed(left).open = current /\ Departed(left).phase = phase
        BY <1>3 DEF Departed
    <2> QED
        BY <2>1 DEF LinkInv
<1> QED
    BY <1>2, <1>3

\* A fold ends the last lap at the reset that ends the stint.
LEMMA FoldedLinks ==
    ASSUME LinkInv, laps # <<>>, Sample.at \in Nat, NEW rs, Chain(laps, stint, rs)
    PROVE  Chain(Folded, stint + 1, rs) /\ Follows(Folded, "counter-reset")
<1>1. laps \in Seq(Laps) /\ stint \in Nat \ {0}
    BY LinkTypes
<1>2. /\ Len(laps) \in DOMAIN laps /\ Last(laps) \in Laps /\ Last(laps) = laps[Len(laps)]
      /\ DOMAIN laps = 1 .. Len(laps) /\ Len(laps) \in Nat
    BY <1>1 DEF Last
<1>3. /\ FoldedLap \in Laps /\ FoldedLap.endBoundary = "counter-reset" /\ ~FoldedLap.complete
      /\ FoldedLap.kind # "flying"
      /\ FoldedLap.stint = Last(laps).stint /\ FoldedLap.start = Last(laps).start
      /\ FoldedLap.startBoundary = Last(laps).startBoundary
    BY <1>2 DEF FoldedLap, Laps, Kinds, Boundaries
<1>4. /\ Folded \in Seq(Laps) /\ Len(Folded) = Len(laps) /\ Folded[Len(laps)] = FoldedLap
      /\ \A j \in DOMAIN laps : j # Len(laps) => Folded[j] = laps[j]
    BY <1>1, <1>2, <1>3, ReplaceType DEF Folded
<1>5. DOMAIN Folded = DOMAIN laps
    BY <1>2, <1>4
<1>6. ASSUME NEW i \in DOMAIN laps
      PROVE  Sound(laps[i], stint + 1, rs) /\ laps[i].stint < stint + 1 /\ laps[i].stint \in Nat
    <2>1. Sound(laps[i], stint, rs)
        BY DEF Chain
    <2>2. laps[i] \in Laps
        BY <1>1
    <2>3. laps[i].stint \in Nat
        BY <2>2 DEF Laps
    <2> QED
        BY <1>1, <2>1, <2>3 DEF Sound
<1>7. Sound(FoldedLap, stint + 1, rs)
    <2>1. Sound(Last(laps), stint + 1, rs) /\ Last(laps).stint < stint + 1
        BY <1>2, <1>6
    <2> QED
        BY <1>3, <2>1 DEF Sound, StandEnds, Stands
<1>8. ASSUME NEW i \in DOMAIN Folded, i > 1 PROVE Joint(Folded[i - 1], Folded[i])
    <2>1. i - 1 \in DOMAIN laps /\ i \in DOMAIN laps /\ i - 1 # Len(laps)
        BY <1>2, <1>5, <1>8
    <2>2. Joint(laps[i - 1], laps[i])
        BY <1>8, <2>1 DEF Chain
    <2>3. Folded[i - 1] = laps[i - 1]
        BY <1>4, <2>1
    <2>4. CASE i = Len(laps)
        BY <1>2, <1>3, <1>4, <2>2, <2>3, <2>4 DEF Joint
    <2>5. CASE i # Len(laps)
        BY <1>4, <2>1, <2>2, <2>3, <2>5
    <2> QED
        BY <2>4, <2>5
<1>9. Chain(Folded, stint + 1, rs)
    <2>1. ASSUME NEW i \in DOMAIN Folded PROVE Sound(Folded[i], stint + 1, rs)
        BY <1>4, <1>5, <1>6, <1>7
    <2> QED
        BY <1>8, <2>1 DEF Chain
<1>10. Last(Folded) = FoldedLap
    BY <1>4 DEF Last
<1> QED
    BY <1>3, <1>9, <1>10 DEF Follows

LEMMA InitLink == Init => LinkInv
<1> SUFFICES ASSUME Init PROVE LinkInv
    OBVIOUS
<1>1. KindInv
    BY InitKind
<1>2. laps = <<>> /\ current = NoLap /\ resets = {}
    BY DEF Init
<1>3. Chain(laps, stint, resets) /\ Follows(laps, current.startBoundary) /\ ResetsPast
    BY <1>2 DEF Chain, Follows, ResetsPast
<1>4. OpenedByEvent
    BY <1>2 DEF OpenedByEvent, NoLap
<1> QED
    BY <1>1, <1>2, <1>3, <1>4 DEF LinkInv

(***************************************************************************)
(* Time and resets.                                                        *)
(***************************************************************************)
\* Before a sample is taken every closed lap, and what is open, began before
\* it or at it.
LEMMA TiledAscends ==
    ASSUME NEW ls, NEW n \in Nat, DOMAIN ls = 1 .. n, Tiled(ls),
           \A i \in 1 .. n : ls[i].start \in Nat /\ ls[i].end \in Nat
    PROVE  \A i, j \in 1 .. n : i < j => ls[i].end <= ls[j].start
<1> DEFINE P == {m \in Nat : \A i \in 1 .. n : i + m + 1 \in 1 .. n =>
                                 ls[i].end <= ls[i + m + 1].start}
<1>1. 0 \in P
    <2>1. ASSUME NEW i \in 1 .. n, i + 0 + 1 \in 1 .. n PROVE ls[i].end <= ls[i + 0 + 1].start
        <3>1. i + 1 \in DOMAIN ls /\ i + 1 > 1 /\ (i + 1) - 1 = i /\ i + 0 + 1 = i + 1
            BY <2>1
        <3>2. ls[i + 1].start = ls[(i + 1) - 1].end
            BY <3>1 DEF Tiled
        <3> QED
            BY <3>1, <3>2
    <2> QED
        BY <2>1
<1>2. ASSUME NEW m \in Nat, m \in P PROVE m + 1 \in P
    <2>1. ASSUME NEW i \in 1 .. n, i + (m + 1) + 1 \in 1 .. n
          PROVE  ls[i].end <= ls[i + (m + 1) + 1].start
        <3> DEFINE k == i + m + 1
        <3>1. k \in 1 .. n /\ k + 1 \in 1 .. n /\ k + 1 > 1 /\ (k + 1) - 1 = k
              /\ i + (m + 1) + 1 = k + 1
            BY <2>1
        <3>2. ls[i].end <= ls[k].start
            BY <1>2, <3>1
        <3> HIDE DEF k
        <3>3. ls[k].start < ls[k].end /\ ls[k + 1].start = ls[(k + 1) - 1].end
            BY <3>1 DEF Tiled
        <3>4. ls[k + 1].start = ls[k].end
            BY <3>1, <3>3
        <3>5. ls[i].end <= ls[k + 1].start
            BY <3>1, <3>2, <3>3, <3>4
        <3> QED
            BY <3>1, <3>5
    <2> QED
        BY <2>1
<1> HIDE DEF P
<1>3. Nat \subseteq P
    BY <1>1, <1>2, NaturalInduction
<1>4. ASSUME NEW i \in 1 .. n, NEW j \in 1 .. n, i < j PROVE ls[i].end <= ls[j].start
    <2>1. (j - i) - 1 \in Nat /\ i + ((j - i) - 1) + 1 = j
        BY <1>4
    <2>2. (j - i) - 1 \in P
        BY <1>3, <2>1
    <2> QED
        BY <2>1, <2>2 DEF P
<1> QED
    BY <1>4

LEMMA LapsEarlier ==
    ASSUME LinkInv, ~finished, SamplesLeft
    PROVE  /\ \A i \in DOMAIN laps : laps[i].start < Sample.at
           /\ current # NoLap => current.start <= Sample.at
           /\ Sample.at \in Nat
<1>1. TileInv /\ TypeOK /\ laps \in Seq(Laps) /\ Sample.at \in Nat
    BY LinkTypes, SampleType
<1>2. current # NoLap => current.start <= Sample.at
    BY <1>1 DEF TileInv, OpenInTime
<1>3. ASSUME NEW i \in DOMAIN laps PROVE laps[i].start < Sample.at
    <2>1. Len(laps) \in Nat /\ DOMAIN laps = 1 .. Len(laps) /\ laps # <<>> /\ Len(laps) \in DOMAIN laps
        BY <1>1, <1>3
    <2>2. \A j \in DOMAIN laps : laps[j].start \in Nat /\ laps[j].end \in Nat
        <3>1. \A j \in DOMAIN laps : laps[j] \in Laps
            BY <1>1
        <3> QED
            BY <3>1 DEF Laps
    <2>3. Tiled(laps) /\ current # NoLap /\ current.start \in Nat
        BY <1>1, <2>1, LinkTypes DEF TileInv, NothingYet
    <2>4. laps[Len(laps)].end = current.start
        BY <1>1, <2>1, <2>3 DEF TileInv, EndsAt, Last
    <2>5. laps[i].start < laps[i].end
        BY <1>3, <2>3 DEF Tiled
    <2>6. i < Len(laps) => laps[i].end <= laps[Len(laps)].start
        BY <1>3, <2>1, <2>2, <2>3, TiledAscends
    <2>7. laps[Len(laps)].start < laps[Len(laps)].end
        BY <2>1, <2>3 DEF Tiled
    <2> QED
        BY <1>1, <1>2, <1>3, <2>1, <2>2, <2>3, <2>4, <2>5, <2>6, <2>7
<1> QED
    BY <1>1, <1>2, <1>3

\* A reset confirmed now makes no earlier interval a standing one.
LEMMA StandsStill ==
    ASSUME NEW lap, NEW rs, NEW t, NEW e, lap.start # t
    PROVE  Stands(lap, rs \cup {[at |-> t, event |-> e]}) <=> Stands(lap, rs)
BY DEF Stands

LEMMA ChainKept ==
    ASSUME NEW ls, NEW n, NEW rs, NEW t, NEW e, Chain(ls, n, rs),
           \A i \in DOMAIN ls : ls[i].start # t
    PROVE  Chain(ls, n, rs \cup {[at |-> t, event |-> e]})
<1> DEFINE more == rs \cup {[at |-> t, event |-> e]}
<1>1. ASSUME NEW i \in DOMAIN ls PROVE Sound(ls[i], n, more)
    <2>1. Sound(ls[i], n, rs) /\ (Stands(ls[i], more) <=> Stands(ls[i], rs))
        BY StandsStill DEF Chain
    <2> HIDE DEF more
    <2> QED
        BY <2>1 DEF Sound
<1> HIDE DEF more
<1>2. Chain(ls, n, more)
    BY <1>1 DEF Chain
<1> QED
    BY <1>2 DEF more

(***************************************************************************)
(* The invariant is inductive.                                             *)
(***************************************************************************)
\* What a step does to time: it takes a sample, and may confirm a reset at
\* it, or it reads no sample.
Timely ==
    \/ UNCHANGED <<recording, position, resets>>
    \/ TakeSample /\ resets' = resets
    \/ /\ TakeSample
       /\ \E e \in ResetEvents : resets' = resets \cup {[at |-> Sample.at, event |-> e]}

LEMMA StepTimely == [Next]_vars => Timely
<1> SUFFICES ASSUME [Next]_vars PROVE Timely
    OBVIOUS
<1>1. CASE FoldPitClose \/ CloseAtReset \/ ResetWhileInactive
    BY <1>1 DEF Timely, FoldPitClose, CloseAtReset, ResetWhileInactive, CounterRestarts
<1>2. CASE \/ StalePitEvent \/ RedundantPitEvent \/ GpsPitEntry \/ GpsPitExit \/ Finish
           \/ UNCHANGED vars
    BY <1>2 DEF Timely, StalePitEvent, RedundantPitEvent, GpsPitEntry, GpsPitExit,
       TakePitEvent, Finish, vars
<1>3. CASE \/ FirstSample \/ RepeatedSample \/ RecoveredDropout \/ IgnoredSpike
           \/ OverflowingCrossing \/ IgnoredRearm \/ IgnoredPitLaneBeacon
           \/ UnanchoredIncrement \/ Crossing
    BY <1>3 DEF Timely, FirstSample, RepeatedSample, RecoveredDropout, IgnoredSpike,
       OverflowingCrossing, IgnoredRearm, IgnoredPitLaneBeacon, UnanchoredIncrement, Crossing,
       CrossingAfter, TakeIncrement, Rest
<1> QED
    BY <1>1, <1>2, <1>3 DEF Next

LEMMA SampleStays ==
    ASSUME UNCHANGED <<recording, position>>
    PROVE  /\ SamplesLeft' <=> SamplesLeft
           /\ Sample' = Sample
BY DEF SamplesLeft, Sample

LEMMA NextSample ==
    ASSUME LinkInv, TakeSample, SamplesLeft'
    PROVE  SamplesLeft /\ Sample.at \in Nat /\ Sample'.at \in Nat /\ Sample.at < Sample'.at
<1>1. TypeOK
    BY LinkTypes
<1>2. SamplesLeft /\ Sample.at \in Nat /\ Sample.at < Sample'.at
    BY <1>1, SampleType, TimeAdvances DEF TakeSample
<1>3. Sample' = recording.samples[position + 1]
    BY DEF TakeSample, Sample
<1>4. recording.samples \in Seq(Samples) /\ position + 1 \in DOMAIN recording.samples
    BY <1>1 DEF TypeOK, TakeSample, SamplesLeft, IsRecording
<1>5. Sample' \in Samples
    BY <1>3, <1>4
<1> QED
    BY <1>2, <1>5 DEF Samples

LEMMA StepResetsPast == LinkInv /\ [Next]_vars => ResetsPast'
<1> SUFFICES ASSUME LinkInv, [Next]_vars, SamplesLeft', NEW r \in resets'
             PROVE  r.at < Sample'.at
    BY DEF ResetsPast
<1>1. resets \subseteq [at : Nat, event : ResetEvents]
    BY LinkTypes DEF TypeOK
<1>2. CASE UNCHANGED <<recording, position, resets>>
    BY <1>2, SampleStays DEF LinkInv, ResetsPast
<1>3. CASE TakeSample /\ (r \in resets \/ r.at = Sample.at)
    <2>1. SamplesLeft /\ Sample.at \in Nat /\ Sample'.at \in Nat /\ Sample.at < Sample'.at
        BY <1>3, NextSample
    <2>2. CASE r \in resets
        <3>1. r.at < Sample.at /\ r.at \in Nat
            BY <1>1, <2>1, <2>2 DEF LinkInv, ResetsPast
        <3> QED
            BY <2>1, <3>1
    <2> QED
        BY <1>3, <2>1, <2>2
<1>4. ASSUME NEW e, r = [at |-> Sample.at, event |-> e] PROVE r.at = Sample.at
    BY <1>4
<1> QED
    BY <1>2, <1>3, <1>4, StepTimely DEF Timely

\* What a step does to the open interval.
Reopens ==
    \/ UNCHANGED <<current, position, recording>>
    \/ TakeSample /\ current' = NoLap
    \/ /\ TakeSample /\ current # NoLap
       /\ current'.start = current.start /\ current'.startBoundary = current.startBoundary
    \/ TakeSample /\ current'.start = Sample.at
       /\ current'.startBoundary \in {"recording-edge", "counter-reset", "counter-crossing"}
    \/ UNCHANGED <<position, recording>>
       /\ current'.startBoundary \in {"gps-pit-entry", "gps-pit-exit"}

LEMMA StepReopens == LinkInv /\ [Next]_vars => Reopens
<1> SUFFICES ASSUME LinkInv, [Next]_vars PROVE Reopens
    OBVIOUS
<1>1. current \in OpenLaps \cup {NoLap}
    BY LinkTypes
<1>2. CASE FoldPitClose \/ CloseAtReset
    BY <1>2 DEF Reopens, FoldPitClose, CloseAtReset, CounterRestarts, NewStintAtReset, OpenAt
<1>3. CASE \/ StalePitEvent \/ RedundantPitEvent \/ Finish \/ UNCHANGED vars
    BY <1>3 DEF Reopens, StalePitEvent, RedundantPitEvent, TakePitEvent, Finish, vars
<1>4. CASE GpsPitEntry
    BY <1>4 DEF Reopens, GpsPitEntry, TakePitEvent, OpenAt
<1>5. CASE GpsPitExit
    BY <1>5 DEF Reopens, GpsPitExit, TakePitEvent, OpenAt
<1>6. CASE \/ RepeatedSample \/ RecoveredDropout \/ IgnoredSpike \/ OverflowingCrossing
           \/ IgnoredPitLaneBeacon \/ UnanchoredIncrement
    <2>1. TakeSample /\ current' = current
        BY <1>6 DEF RepeatedSample, RecoveredDropout, IgnoredSpike, OverflowingCrossing,
           IgnoredPitLaneBeacon, UnanchoredIncrement, CrossingAfter, TakeIncrement, Rest
    <2> QED
        BY <2>1 DEF Reopens
<1>7. CASE ResetWhileInactive \/ IgnoredRearm
    <2>1. /\ TakeSample
          /\ current' = IF current = NoLap THEN NoLap ELSE [current EXCEPT !.stintLap = LapNumber]
        BY <1>7 DEF ResetWhileInactive, IgnoredRearm, CounterRestarts, TakeIncrement
    <2>2. CASE current # NoLap
        BY <1>1, <2>1, <2>2 DEF Reopens, OpenLaps
    <2> QED
        BY <2>1, <2>2 DEF Reopens
<1>8. CASE FirstSample
    BY <1>8 DEF Reopens, FirstSample, OpenAt
<1>9. CASE Crossing
    BY <1>9 DEF Reopens, Crossing, CrossingAfter, TakeIncrement, OpenAt
<1> QED
    BY <1>2, <1>3, <1>4, <1>5, <1>6, <1>7, <1>8, <1>9 DEF Next

LEMMA StepOpened == LinkInv /\ [Next]_vars => OpenedByEvent'
<1> SUFFICES ASSUME LinkInv, [Next]_vars PROVE OpenedByEvent'
    OBVIOUS
<1>1. OpenedByEvent /\ OpenInTime /\ TypeOK /\ (current # NoLap => current.start \in Nat)
    BY LinkTypes DEF LinkInv, TileInv
<1>2. CASE UNCHANGED <<current, position, recording>>
    BY <1>1, <1>2, SampleStays DEF OpenedByEvent
<1>3. CASE TakeSample /\ current' = NoLap
    BY <1>3 DEF OpenedByEvent, NoLap
<1>4. CASE /\ TakeSample /\ current # NoLap
           /\ current'.start = current.start /\ current'.startBoundary = current.startBoundary
    <2>1. ASSUME SamplesLeft' PROVE current'.start < Sample'.at
        <3>1. SamplesLeft /\ Sample.at \in Nat /\ Sample'.at \in Nat /\ Sample.at < Sample'.at
            BY <1>4, <2>1, NextSample
        <3>2. current.start <= Sample.at
            BY <1>1, <1>4, <3>1 DEF OpenInTime
        <3> QED
            BY <1>1, <1>4, <3>1, <3>2
    <2> QED
        BY <1>1, <1>4, <2>1 DEF OpenedByEvent
<1>5. CASE /\ TakeSample /\ current'.start = Sample.at
           /\ current'.startBoundary \in {"recording-edge", "counter-reset", "counter-crossing"}
    BY <1>5, NextSample DEF OpenedByEvent
<1>6. CASE current'.startBoundary \in {"gps-pit-entry", "gps-pit-exit"}
    BY <1>6 DEF OpenedByEvent
<1> QED
    BY <1>2, <1>3, <1>4, <1>5, <1>6, StepReopens DEF Reopens

\* Only a departure ends time in the pits.
LEMMA StepStands ==
    ASSUME LinkInv, [Next]_vars, ~finished, current' # NoLap, Stands(current', resets')
    PROVE  phase' \in {"pit", "stopped"}
<1>1. /\ phase \in Phases /\ current \in OpenLaps \cup {NoLap}
      /\ current # NoLap /\ Stands(current, resets) => phase \in {"pit", "stopped"}
    BY LinkTypes DEF LinkInv
<1>2. ASSUME current' = current, phase' = phase, resets' = resets
      PROVE  phase' \in {"pit", "stopped"}
    BY <1>1, <1>2
<1>3. CASE GpsPitEntry
    <2>1. PICK left \in DepartureIn(current.start, PitAt) :
            phase' = NextPhase(Departed(left).phase, "pit-entry")
        BY <1>3 DEF GpsPitEntry
    <2>2. current # NoLap /\ PitAt \in Nat
        BY <1>3, LinkTypes, PitAtType DEF GpsPitEntry, TakePitEvent
    <2>3. Departed(left).phase \in Phases
        BY <2>2, LinkTypes, DepartedType
    <2> QED
        BY <2>1, <2>3, ReducerCloses
<1>4. CASE GpsPitExit
    BY <1>4 DEF Stands, GpsPitExit, OpenAt
<1>5. CASE FirstSample
    BY <1>5 DEF Stands, FirstSample, OpenAt
<1>6. CASE FoldPitClose \/ CloseAtReset
    <2>1. PICK event \in ResetEvents :
            /\ phase' = NextPhase(phase, event) /\ TakeSample
            /\ resets' = resets \cup {[at |-> Sample.at, event |-> event]}
            /\ current'.startBoundary = "counter-reset" /\ current'.start = Sample.at
            /\ phase \in Active
        BY <1>6 DEF FoldPitClose, CloseAtReset, CounterRestarts, NewStintAtReset, OpenAt
    <2>2. PICK r \in resets' : r.at = Sample.at /\ r.event # "reset-moving"
        BY <2>1 DEF Stands
    <2>3. r \notin resets
        <3>1. SamplesLeft /\ Sample.at \in Nat
            BY <2>1, LinkTypes, SampleType DEF TakeSample
        <3> QED
            BY <2>2, <3>1 DEF LinkInv, ResetsPast
    <2>4. event # "reset-moving"
        BY <2>1, <2>2, <2>3
    <2> QED
        BY <2>1, <2>4 DEF ResetEvents, NextPhase
<1>7. CASE ResetWhileInactive
    <2>1. PICK event \in ResetEvents :
            /\ phase' = NextPhase(phase, event) /\ TakeSample
            /\ resets' = resets \cup {[at |-> Sample.at, event |-> event]}
            /\ current' = IF current = NoLap THEN NoLap ELSE [current EXCEPT !.stintLap = LapNumber]
        BY <1>7 DEF ResetWhileInactive, CounterRestarts
    <2>2. /\ current # NoLap /\ current'.start = current.start
          /\ current'.startBoundary = current.startBoundary
        BY <1>1, <2>1 DEF OpenLaps
    <2>3. Stands(current, resets)
        <3>1. ASSUME current.startBoundary = "counter-reset",
                     NEW r \in resets', r.at = current.start, r.event # "reset-moving"
              PROVE  r \in resets
            <4>1. SamplesLeft /\ Sample.at \in Nat /\ current.start < Sample.at
                BY <2>1, <3>1, LinkTypes, SampleType DEF TakeSample, LinkInv, OpenedByEvent
            <4>2. r.at # Sample.at
                BY <2>2, <3>1, <4>1, LinkTypes
            <4> QED
                BY <2>1, <3>1, <4>2
        <3> QED
            BY <2>2, <3>1 DEF Stands
    <2> QED
        BY <1>1, <2>1, <2>2, <2>3 DEF ResetEvents, NextPhase
<1>8. CASE IgnoredRearm
    <2>1. /\ phase' = phase /\ resets' = resets
          /\ current' = IF current = NoLap THEN NoLap ELSE [current EXCEPT !.stintLap = LapNumber]
        BY <1>1, <1>8, ReducerCloses DEF IgnoredRearm, TakeIncrement
    <2>2. /\ current # NoLap /\ current'.start = current.start
          /\ current'.startBoundary = current.startBoundary
        BY <1>1, <2>1 DEF OpenLaps
    <2> QED
        BY <1>1, <2>1, <2>2 DEF Stands
<1>9. CASE Crossing
    BY <1>9 DEF Stands, Crossing, OpenAt
<1>10. CASE Finish
    BY <1>1, <1>2, <1>10, ReducerCloses DEF Finish
<1>11. CASE \/ StalePitEvent \/ RedundantPitEvent \/ RepeatedSample \/ RecoveredDropout
            \/ IgnoredSpike \/ OverflowingCrossing \/ IgnoredPitLaneBeacon
            \/ UnanchoredIncrement \/ UNCHANGED vars
    BY <1>2, <1>11
       DEF StalePitEvent, RedundantPitEvent, TakePitEvent, RepeatedSample, RecoveredDropout,
           IgnoredSpike, OverflowingCrossing, IgnoredPitLaneBeacon, UnanchoredIncrement,
           CrossingAfter, TakeIncrement, Rest, vars
<1> QED
    BY <1>3, <1>4, <1>5, <1>6, <1>7, <1>8, <1>9, <1>10, <1>11 DEF Next

\* Every step keeps the chain: it closes nothing, or one interval more that
\* follows the last, after a departure's, or it folds.
LEMMA StepChain ==
    ASSUME LinkInv, [Next]_vars, ~finished
    PROVE  /\ Chain(laps', stint', resets')
           /\ ~finished' => Follows(laps', current'.startBoundary)
<1>1. /\ TypeOK /\ phase \in Phases /\ laps \in Seq(Laps) /\ stint \in Nat \ {0}
      /\ stint + 1 \in Nat /\ stint <= stint + 1 /\ stint < stint + 1 /\ stint <= stint
      /\ stint \in Nat
      /\ current \in OpenLaps \cup {NoLap}
      /\ current # NoLap => /\ current \in OpenLaps /\ current.start \in Nat
                            /\ current.startBoundary \in Boundaries
      /\ Chain(laps, stint, resets) /\ Follows(laps, current.startBoundary)
      /\ current = NoLap => laps = <<>>
    BY LinkTypes DEF LinkInv, TileInv, NothingYet
<1>2. ASSUME UNCHANGED <<laps, stint, resets>>, current'.startBoundary = current.startBoundary
      PROVE  Chain(laps', stint', resets') /\ Follows(laps', current'.startBoundary)
    BY <1>1, <1>2
<1>3. /\ "gps-pit-entry" \in Boundaries \ {"recording-edge"} /\ "gps-pit-entry" \in EndsStint
      /\ "gps-pit-exit" \in Boundaries \ {"recording-edge"} /\ "gps-pit-exit" \notin EndsStint
      /\ "gps-pit-exit" \in StandEnds
      /\ "counter-reset" \in Boundaries \ {"recording-edge"} /\ "counter-reset" \in StandEnds
      /\ "counter-crossing" \in Boundaries \ {"recording-edge"} /\ "counter-crossing" \notin EndsStint
      /\ "recording-edge" \in Boundaries /\ "recording-edge" \notin EndsStint
      /\ "recording-edge" \in StandEnds
    BY DEF Boundaries, EndsStint, StandEnds
<1>4. CASE GpsPitEntry
    <2>1. PICK left \in DepartureIn(current.start, PitAt) :
            LET d == Departed(left)
                kind == ClosingKind(d.phase, "pit-entry")
            IN  /\ kind # NoKind
                /\ laps' = Closed(d.laps, d.open, PitAt, kind, "gps-pit-entry")
                /\ current' = OpenAt(d.open.stintLap, PitAt, "gps-pit-entry")
        BY <1>4 DEF GpsPitEntry
    <2>2. /\ current # NoLap /\ PitAt \in Nat /\ PitAt > current.start
          /\ stint' = stint + 1 /\ resets' = resets
        BY <1>1, <1>4, PitAtType DEF GpsPitEntry, TakePitEvent
    <2> DEFINE d == Departed(left)
               kind == ClosingKind(d.phase, "pit-entry")
    <2>3. d.phase \in Phases /\ d.laps \in Seq(Laps) /\ d.open \in OpenLaps
        BY <1>1, <2>2, DepartedType
    <2>4. /\ Chain(d.laps, stint, resets) /\ Follows(d.laps, d.open.startBoundary)
          /\ \/ d.phase = "out" /\ d.open.start < PitAt /\ d.open.startBoundary = "motion-departure"
             \/ d.laps = laps /\ d.open = current /\ d.phase = phase
        BY <2>2, DepartedLinks
    <2>5. kind \in Kinds /\ d.phase \notin {"pit", "stopped"}
        <3>1. kind \in Kinds
            BY <2>1, <2>3, ReducerType DEF Events
        <3> QED
            BY <2>1, <2>3, <3>1 DEF ClosingKind, NoKind
    <2>6. PitAt > d.open.start /\ d.open.start \in Nat
        BY <1>1, <2>2, <2>3, <2>4 DEF OpenLaps
    <2>7. ~Stands(d.open, resets)
        <3>1. CASE d.open.startBoundary = "motion-departure"
            BY <3>1 DEF Stands
        <3>2. CASE d.open = current /\ d.phase = phase
            BY <2>2, <2>5, <3>2 DEF LinkInv
        <3> QED
            BY <2>4, <3>1, <3>2
    <2>8. laps' = Closed(d.laps, d.open, PitAt, kind, "gps-pit-entry")
          /\ current'.startBoundary = "gps-pit-entry"
        BY <2>1 DEF OpenAt
    <2> HIDE DEF d, kind
    <2>9. Chain(laps', stint + 1, resets)
        BY <1>1, <1>3, <2>2, <2>3, <2>4, <2>5, <2>7, <2>8, ClosedLinks
    <2>10. Follows(laps', "gps-pit-entry")
        <3>1. ~(PitAt <= d.open.start)
            BY <2>2, <2>6
        <3> QED
            BY <1>1, <1>3, <2>2, <2>3, <2>4, <2>5, <2>8, <3>1, ClosedFollows
    <2> QED
        BY <2>2, <2>8, <2>9, <2>10
<1>5. CASE GpsPitExit
    <2>1. /\ current # NoLap /\ PitAt \in Nat /\ PitAt > current.start /\ phase \in Inactive
          /\ stint' = stint /\ resets' = resets
          /\ laps' = Closed(laps, current, PitAt, ClosingKind(phase, "departure"), "gps-pit-exit")
          /\ current'.startBoundary = "gps-pit-exit"
        BY <1>1, <1>5, PitAtType DEF GpsPitExit, TakePitEvent, OpenAt
    <2>2. ClosingKind(phase, "departure") \in Kinds /\ ~(PitAt <= current.start)
        BY <1>1, <2>1, ReducerCloses
    <2>3. Chain(laps', stint, resets)
        BY <1>1, <1>3, <2>1, <2>2, ClosedLinks
    <2>4. Follows(laps', "gps-pit-exit")
        BY <1>1, <1>3, <2>1, <2>2, ClosedFollows
    <2> QED
        BY <2>1, <2>3, <2>4
<1>6. CASE FirstSample
    <2>1. laps = <<>> /\ laps' = laps /\ stint' = stint /\ resets' = resets
        BY <1>1, <1>6 DEF FirstSample, LinkInv, KindInv, TileInv, NothingYet
    <2> QED
        BY <1>1, <2>1 DEF Follows
<1>7. ASSUME NEW event \in ResetEvents, CounterRestarts(event)
      PROVE  /\ Chain(laps, stint, resets') /\ Sample.at \in Nat /\ SamplesLeft
             /\ current # NoLap => current.start <= Sample.at
             /\ current.startBoundary = "counter-reset" => current.start < Sample.at
    <2>1. SamplesLeft /\ resets' = resets \cup {[at |-> Sample.at, event |-> event]}
        BY <1>7 DEF CounterRestarts, TakeSample
    <2>2. /\ \A i \in DOMAIN laps : laps[i].start < Sample.at
          /\ current # NoLap => current.start <= Sample.at
          /\ Sample.at \in Nat
        BY <2>1, LapsEarlier
    <2>3. \A i \in DOMAIN laps : laps[i].start # Sample.at
        <3>1. \A i \in DOMAIN laps : laps[i] \in Laps
            BY <1>1
        <3>2. \A i \in DOMAIN laps : laps[i].start \in Nat
            BY <3>1 DEF Laps
        <3> QED
            BY <2>2, <3>2
    <2>4. Chain(laps, stint, resets')
        BY <1>1, <2>1, <2>3, ChainKept
    <2> QED
        BY <2>1, <2>2, <2>4 DEF LinkInv, OpenedByEvent
<1>8. CASE FoldPitClose
    <2>1. PICK event \in ResetEvents, slow \in BOOLEAN :
            /\ CounterRestarts(event) /\ NewStintAtReset
            /\ PitCloseIncrement(event, slow) /\ laps' = Folded
        BY <1>8 DEF FoldPitClose
    <2>2. laps # <<>> /\ stint' = stint + 1 /\ current'.startBoundary = "counter-reset"
        BY <2>1 DEF PitCloseIncrement, NewStintAtReset, OpenAt
    <2>3. Chain(laps, stint, resets') /\ Sample.at \in Nat
        BY <1>7, <2>1
    <2>4. Chain(Folded, stint + 1, resets') /\ Follows(Folded, "counter-reset")
        <3>1. PICK rs : rs = resets'
            OBVIOUS
        <3>2. Chain(laps, stint, rs)
            BY <2>3, <3>1
        <3>3. Chain(Folded, stint + 1, rs) /\ Follows(Folded, "counter-reset")
            BY <2>2, <2>3, <3>2, FoldedLinks
        <3> QED
            BY <3>1, <3>3
    <2> QED
        BY <2>1, <2>2, <2>4
<1>9. CASE CloseAtReset
    <2>1. PICK event \in ResetEvents :
            /\ CounterRestarts(event) /\ NewStintAtReset
            /\ laps' = IF current = NoLap THEN laps
                       ELSE Closed(laps, current, Sample.at, ClosingKind(phase, event),
                                   "counter-reset")
        BY <1>9 DEF CloseAtReset
    <2>2. stint' = stint + 1 /\ current'.startBoundary = "counter-reset" /\ phase \in Active
        BY <2>1 DEF NewStintAtReset, OpenAt
    <2>3. PICK rs : rs = resets'
        OBVIOUS
    <2>4. /\ Chain(laps, stint, rs) /\ Sample.at \in Nat
          /\ current # NoLap => current.start <= Sample.at
          /\ current.startBoundary = "counter-reset" => current.start < Sample.at
        BY <1>7, <2>1, <2>3
    <2>5. CASE current = NoLap
        <3>1. laps' = <<>>
            BY <1>1, <2>1, <2>5
        <3> QED
            BY <3>1 DEF Chain, Follows
    <2>6. CASE current # NoLap
        <3>1. ClosingKind(phase, event) \in Kinds
            BY <1>1, <2>2, ReducerCloses
        <3> DEFINE more == Closed(laps, current, Sample.at, ClosingKind(phase, event),
                                  "counter-reset")
        <3>2. Chain(more, stint + 1, rs)
            BY <1>1, <1>3, <2>4, <2>6, <3>1, ClosedLinks
        <3>3. Follows(more, "counter-reset")
            <4>1. ASSUME Sample.at <= current.start, laps # <<>>
                  PROVE  Last(laps).endBoundary \notin Carries
                <5>1. current.startBoundary # "counter-reset"
                    BY <1>1, <2>4, <2>6, <4>1
                <5>2. current.startBoundary # "gps-pit-entry"
                    BY <2>2, <2>6 DEF LinkInv, Stands, Active
                <5>3. current.startBoundary # "motion-departure"
                    BY DEF LinkInv, OpenedByEvent
                <5> QED
                    BY <1>1, <4>1, <5>1, <5>2, <5>3 DEF Follows, Carries, EndsStint
            <4> QED
                BY <1>1, <1>3, <2>4, <2>6, <3>1, <4>1, ClosedFollows
        <3>4. laps' = more
            BY <2>1, <2>6
        <3> HIDE DEF more
        <3> QED
            BY <2>2, <2>3, <3>2, <3>3, <3>4
    <2> QED
        BY <2>5, <2>6
<1>10. CASE ResetWhileInactive
    <2>1. PICK event \in ResetEvents :
            /\ CounterRestarts(event) /\ laps' = laps /\ stint' = stint
            /\ current' = IF current = NoLap THEN NoLap ELSE [current EXCEPT !.stintLap = LapNumber]
        BY <1>10 DEF ResetWhileInactive
    <2>2. current'.startBoundary = current.startBoundary
        BY <1>1, <2>1 DEF OpenLaps
    <2> QED
        BY <1>1, <1>7, <2>1, <2>2
<1>11. CASE IgnoredRearm
    <2>1. /\ laps' = laps /\ stint' = stint /\ resets' = resets
          /\ current' = IF current = NoLap THEN NoLap ELSE [current EXCEPT !.stintLap = LapNumber]
        BY <1>11 DEF IgnoredRearm, TakeIncrement
    <2>2. current'.startBoundary = current.startBoundary
        BY <1>1, <2>1 DEF OpenLaps
    <2> QED
        BY <1>2, <2>1, <2>2
<1>12. CASE Crossing
    <2>1. PICK left \in Departures :
            LET d == Departed(left)
            IN  /\ CrossingAfter(left)
                /\ d.phase \notin {"pit", "stopped"}
                /\ laps' = IF d.open = NoLap THEN d.laps
                           ELSE Closed(d.laps, d.open, Sample.at,
                                       ClosingKind(d.phase, "crossing"), "counter-crossing")
                /\ current' = OpenAt(LapNumber, Sample.at, "counter-crossing")
                /\ stint' = stint
        BY <1>12 DEF Crossing
    <2> DEFINE d == Departed(left)
    <2>2. /\ SamplesLeft /\ resets' = resets
          /\ current'.startBoundary = "counter-crossing"
        BY <2>1 DEF CrossingAfter, TakeIncrement, TakeSample, OpenAt
    <2>3. Sample.at \in Nat /\ (current # NoLap => current.start <= Sample.at)
        BY <2>2, LapsEarlier
    <2>4. CASE current = NoLap
        <3>1. d.laps = laps /\ d.open = NoLap
            BY <2>4 DEF Departed
        <3>2. laps' = <<>>
            BY <1>1, <2>1, <2>4, <3>1
        <3> QED
            BY <3>2 DEF Chain, Follows
    <2>5. CASE current # NoLap
        <3>1. left \in DepartureIn(current.start, Sample.at)
            BY <2>1, <2>2, <2>5 DEF Departures
        <3>2. d.phase \in Phases /\ d.laps \in Seq(Laps) /\ d.open \in OpenLaps
            BY <1>1, <2>3, <2>5, <3>1, DepartedType
        <3>3. /\ Chain(d.laps, stint, resets) /\ Follows(d.laps, d.open.startBoundary)
              /\ \/ d.phase = "out" /\ d.open.start < Sample.at
                    /\ d.open.startBoundary = "motion-departure"
                 \/ d.laps = laps /\ d.open = current /\ d.phase = phase
            BY <2>3, <2>5, <3>1, DepartedLinks
        <3>4. /\ laps' = Closed(d.laps, d.open, Sample.at, ClosingKind(d.phase, "crossing"),
                                "counter-crossing")
              /\ d.phase \notin {"pit", "stopped"} /\ ClosingKind(d.phase, "crossing") \in Kinds
            <4>1. d.open # NoLap
                BY <3>2, NoLapNotOpen
            <4> QED
                BY <2>1, <3>2, <4>1, ReducerCloses
        <3>5. ~Stands(d.open, resets)
            <4>1. CASE d.open.startBoundary = "motion-departure"
                BY <4>1 DEF Stands
            <4>2. CASE d.open = current /\ d.phase = phase
                BY <2>5, <3>4, <4>2 DEF LinkInv
            <4> QED
                BY <3>3, <4>1, <4>2
        <3>6. ASSUME Sample.at <= d.open.start, d.laps # <<>>
              PROVE  Last(d.laps).endBoundary \notin Carries
            <4>1. d.open.start \in Nat
                BY <3>2 DEF OpenLaps
            <4>2. d.laps = laps /\ d.open = current /\ d.phase = phase
                BY <2>3, <3>3, <3>6, <4>1
            <4>3. current.startBoundary # "counter-reset"
                BY <2>2, <2>3, <3>6, <4>1, <4>2 DEF LinkInv, OpenedByEvent
            <4>4. current.startBoundary # "gps-pit-entry"
                BY <3>5, <4>2 DEF Stands
            <4>5. current.startBoundary # "motion-departure"
                BY DEF LinkInv, OpenedByEvent
            <4> QED
                BY <1>1, <3>6, <4>2, <4>3, <4>4, <4>5 DEF Follows, Carries, EndsStint
        <3> HIDE DEF d
        <3>7. Chain(laps', stint, resets)
            BY <1>1, <1>3, <2>3, <3>2, <3>3, <3>4, <3>5, ClosedLinks
        <3>8. Follows(laps', "counter-crossing")
            BY <1>1, <1>3, <2>3, <3>2, <3>3, <3>4, <3>6, ClosedFollows
        <3> QED
            BY <2>1, <2>2, <3>7, <3>8
    <2> QED
        BY <2>4, <2>5
<1>13. CASE Finish
    <2>1. /\ finished' /\ stint' = stint /\ resets' = resets
          /\ laps' = IF current = NoLap THEN laps
                     ELSE Closed(laps, current, recording.duration, ClosingKind(phase, "end"),
                                 "recording-edge")
        BY <1>13 DEF Finish
    <2>2. ClosingKind(phase, "end") \in Kinds /\ recording.duration \in Nat
        BY <1>1, ReducerCloses DEF TypeOK, IsRecording
    <2>3. Chain(laps', stint, resets)
        BY <1>1, <1>3, <2>1, <2>2, ClosedLinks
    <2> QED
        BY <2>1, <2>3
<1>14. CASE \/ StalePitEvent \/ RedundantPitEvent \/ RepeatedSample \/ RecoveredDropout
            \/ IgnoredSpike \/ OverflowingCrossing \/ IgnoredPitLaneBeacon
            \/ UnanchoredIncrement \/ UNCHANGED vars
    BY <1>2, <1>14
       DEF StalePitEvent, RedundantPitEvent, TakePitEvent, RepeatedSample, RecoveredDropout,
           IgnoredSpike, OverflowingCrossing, IgnoredPitLaneBeacon, UnanchoredIncrement,
           CrossingAfter, TakeIncrement, Rest, vars
<1> QED
    BY <1>4, <1>5, <1>6, <1>8, <1>9, <1>10, <1>11, <1>12, <1>13, <1>14 DEF Next

LEMMA StepLink == LinkInv /\ [Next]_vars => LinkInv'
<1> SUFFICES ASSUME LinkInv, [Next]_vars PROVE LinkInv'
    OBVIOUS
<1>1. KindInv' /\ ResetsPast' /\ OpenedByEvent'
    BY StepKind, StepResetsPast, StepOpened DEF LinkInv
<1>2. CASE finished
    <2>1. UNCHANGED vars
        BY <1>2, RecordingStays
    <2>2. UNCHANGED <<laps, stint, resets, current, phase, finished>>
        BY <2>1 DEF vars
    <2> QED
        BY <1>1, <1>2, <2>2 DEF LinkInv, Chain, Sound, Stands
<1>3. CASE ~finished
    <2>1. Chain(laps', stint', resets') /\ (~finished' => Follows(laps', current'.startBoundary))
        BY <1>3, StepChain
    <2>2. current' # NoLap /\ Stands(current', resets') => phase' \in {"pit", "stopped"}
        BY <1>3, StepStands
    <2> QED
        BY <1>1, <2>1, <2>2 DEF LinkInv
<1> QED
    BY <1>2, <1>3

\* The intervals of every walk hang together.
LEMMA LinkInvariant == Spec => []LinkInv
BY InitLink, StepLink, PTL DEF Spec


(***************************************************************************)
(* The walk, as one of the steps of publication.                           *)
(***************************************************************************)
LEMMA PublicationWalks == PSpec => Spec
<1>1. PInit => Init
    BY DEF PInit
<1>2. [PNext]_allVars => [Next]_vars
    BY DEF PNext, Walk, Pick, ValidateLap, Validated, Classify, allVars, pvars
<1> QED
    BY <1>1, <1>2, PTL DEF PSpec, Spec

(***************************************************************************)
(* Lists of laps.                                                          *)
(***************************************************************************)
\* What holds of every lap of a list that recovery returns.
Honest(lap) ==
    /\ lap.start < lap.end
    /\ lap.kind # "unknown" => (lap.complete <=> lap.kind = "flying")
    /\ lap.complete => lap.startBoundary \in TrackAnchors /\ lap.endBoundary \in TrackAnchors
    /\ lap.startBoundary # "rejected-crossing" /\ lap.endBoundary # "rejected-crossing"

\* What holds of any two of them, in their order.
InTurn(a, b) ==
    /\ a.end <= b.start
    /\ a.stint <= b.stint
    /\ a.endBoundary \in EndsStint => a.stint < b.stint
    /\ a.endBoundary # "recording-edge"

\* All laps have a stint, or none closes one.
Numbered(ls) ==
    \/ \A i \in DOMAIN ls : ls[i].stint # 0
    \/ \A i \in DOMAIN ls : ls[i].endBoundary \notin EndsStint

\* A lap that starts where the car stops or leaves follows the lap that ends so.
HandsOver(a, b) == a.endBoundary \in Carries => b.startBoundary = a.endBoundary /\ b.start = a.end

\* The pits are left by a departure, or the recording ends.
LeavesPits(lap) ==
    Standing(lap) => lap.endBoundary \in {"motion-departure", "gps-pit-exit", "recording-edge"}

Ascending(ls) == \A i, j \in DOMAIN ls : i < j => InTurn(ls[i], ls[j])

Recovered(ls) ==
    /\ ls \in Seq(AllLaps)
    /\ \A i \in DOMAIN ls : Honest(ls[i]) /\ (StopsStand => LeavesPits(ls[i]))
    /\ Ascending(ls)
    /\ Numbered(ls)
    /\ \A i \in DOMAIN ls : i > 1 => HandsOver(ls[i - 1], ls[i])

LEMMA StandingStands == \A lap : Standing(lap) <=> Stands(lap, resets)
BY DEF Standing, Stands, StationaryAt

LEMMA LapsAreLaps == Laps \subseteq AllLaps
BY DEF Laps, AllLaps, AllKinds, AllBoundaries

\* The laps of the walk.
LEMMA WalkRecovers ==
    ASSUME LinkInv, FlyingIsTimed
    PROVE  Recovered(laps)
<1>1. laps \in Seq(Laps) /\ TileInv
    BY LinkTypes
<1>2. Len(laps) \in Nat /\ DOMAIN laps = 1 .. Len(laps) /\ \A i \in DOMAIN laps : laps[i] \in Laps
    BY <1>1
<1>3. laps \in Seq(AllLaps)
    BY <1>1, LapsAreLaps
<1>4. \A i \in DOMAIN laps : laps[i].start \in Nat /\ laps[i].end \in Nat /\ laps[i].stint \in Nat
    BY <1>2 DEF Laps
<1>5. Tiled(laps)
    BY <1>1 DEF TileInv
<1>6. ASSUME NEW i \in DOMAIN laps PROVE Sound(laps[i], stint, resets)
    BY DEF LinkInv, Chain
<1>7. ASSUME NEW i \in DOMAIN laps, i > 1 PROVE Joint(laps[i - 1], laps[i])
    BY <1>7 DEF LinkInv, Chain
<1>8. ASSUME NEW i \in DOMAIN laps PROVE Honest(laps[i])
    <2>1. laps[i].start < laps[i].end
        BY <1>5 DEF Tiled
    <2>2. laps[i].complete <=> laps[i].kind = "flying"
        BY <1>6 DEF Sound
    <2>3. laps[i].kind = "flying" =>
            laps[i].startBoundary = "counter-crossing" /\ laps[i].endBoundary = "counter-crossing"
        BY DEF FlyingIsTimed, Boundary
    <2>4. laps[i].startBoundary \in Boundaries /\ laps[i].endBoundary \in Boundaries
        BY <1>2 DEF Laps
    <2> QED
        BY <2>1, <2>2, <2>3, <2>4 DEF Honest, TrackAnchors, Boundaries
<1>9. ASSUME StopsStand, NEW i \in DOMAIN laps PROVE LeavesPits(laps[i])
    <2>1. Sound(laps[i], stint, resets)
        BY <1>6
    <2> QED
        BY <1>9, <2>1, StandingStands DEF StopsStand, LeavesPits, Sound, StandEnds
<1>10. \A i, j \in 1 .. Len(laps) : i < j => laps[i].end <= laps[j].start
    BY <1>2, <1>4, <1>5, TiledAscends
<1>11. \A i, j \in 1 .. Len(laps) : i <= j => laps[i].stint <= laps[j].stint
    <2> DEFINE x == [i \in 1 .. Len(laps) |-> laps[i].stint]
    <2>1. x \in [1 .. Len(laps) -> Nat]
        BY <1>2, <1>4
    <2>2. ASSUME NEW i \in 2 .. Len(laps) PROVE x[i - 1] <= x[i]
        <3>1. i \in DOMAIN laps /\ i > 1 /\ i - 1 \in DOMAIN laps
            BY <1>2
        <3>2. Joint(laps[i - 1], laps[i])
            BY <1>7, <3>1
        <3> QED
            BY <1>2, <3>1, <3>2 DEF Joint
    <2> HIDE DEF x
    <2>3. \A i, j \in 1 .. Len(laps) : i <= j => x[i] <= x[j]
        BY <1>2, <2>1, <2>2, StepsAscend
    <2> QED
        BY <2>3 DEF x
<1>12. ASSUME NEW i \in DOMAIN laps, NEW j \in DOMAIN laps, i < j PROVE InTurn(laps[i], laps[j])
    <2>1. i + 1 \in DOMAIN laps /\ i + 1 > 1 /\ (i + 1) - 1 = i /\ i + 1 <= j /\ i <= j
        BY <1>2, <1>12
    <2>2. Joint(laps[i], laps[i + 1])
        BY <1>7, <2>1
    <2>3. laps[i].stint <= laps[j].stint /\ laps[i + 1].stint <= laps[j].stint
        BY <1>2, <1>11, <2>1
    <2>4. laps[i].end <= laps[j].start
        BY <1>2, <1>10, <1>12
    <2>5. laps[i].stint \in Nat /\ laps[j].stint \in Nat /\ laps[i + 1].stint \in Nat
        BY <1>4, <2>1
    <2>6. laps[i].endBoundary \in EndsStint => laps[i].stint < laps[j].stint
        BY <2>2, <2>3, <2>5 DEF Joint
    <2> QED
        BY <2>2, <2>3, <2>4, <2>6 DEF InTurn, Joint
<1>13. Numbered(laps)
    <2>1. ASSUME NEW i \in DOMAIN laps PROVE laps[i].stint # 0
        BY <1>4, <1>6 DEF Sound
    <2> QED
        BY <2>1 DEF Numbered
<1>14. ASSUME NEW i \in DOMAIN laps, i > 1 PROVE HandsOver(laps[i - 1], laps[i])
    <2>1. Joint(laps[i - 1], laps[i]) /\ laps[i].start = laps[i - 1].end
        BY <1>5, <1>7, <1>14 DEF Tiled
    <2> QED
        BY <2>1 DEF Joint, HandsOver
<1> QED
    BY <1>3, <1>8, <1>9, <1>12, <1>13, <1>14 DEF Recovered, Ascending

(***************************************************************************)
(* Laps from timer resets.                                                 *)
(***************************************************************************)
LEMMA GreatestMember ==
    ASSUME NEW n \in Nat, NEW S \in SUBSET (0 .. n), S # {}
    PROVE  Max(S) \in S /\ \A y \in S : Max(S) >= y
<1> DEFINE far == {n - x : x \in S}
<1>1. far \in SUBSET Nat /\ far # {}
    <2>1. ASSUME NEW x \in S PROVE n - x \in Nat
        OBVIOUS
    <2>2. far \in SUBSET Nat
        BY <2>1
    <2>3. far # {}
        OBVIOUS
    <2> QED
        BY <2>2, <2>3
<1>2. PICK d \in far : \A e \in far : d <= e
    <2> HIDE DEF far
    <2> QED
        BY <1>1, LeastNatural
<1>3. PICK x \in S : d = n - x
    BY <1>2
<1>4. \A y \in S : x >= y
    <2> TAKE y \in S
    <2>1. n - x <= n - y
        BY <1>2, <1>3
    <2> QED
        BY <2>1
<1> QED
    BY <1>3, <1>4 DEF Max

LEMMA CountedType ==
    ASSUME TypeOK, NEW t \in Nat, NEW i \in Nat
    PROVE  CountedAt(t, i) \in Nat
<1> DEFINE held == {k \in DOMAIN recording.samples : AtOf(k) <= t}
<1>1. recording.samples \in Seq(Samples) /\ recording.completed \in BOOLEAN
    BY DEF TypeOK, IsRecording
<1>2. Offset \in Nat
    BY DEF Offset
<1>3. CASE held = {}
    BY <1>3 DEF CountedAt
<1>4. CASE held # {}
    <2>1. held \in SUBSET (0 .. Len(recording.samples)) /\ Len(recording.samples) \in Nat
        BY <1>1
    <2>2. Max(held) \in held
        <3> HIDE DEF held
        <3> QED
            BY <1>4, <2>1, GreatestMember
    <2>3. recording.samples[Max(held)] \in Samples
        <3>1. PICK k : k = Max(held)
            OBVIOUS
        <3>2. k \in DOMAIN recording.samples
            BY <2>2, <3>1
        <3>3. recording.samples[k] \in Samples
            BY <1>1, <3>2
        <3> QED
            BY <3>1, <3>3
    <2>4. CounterOf(Max(held)) \in Nat
        BY <2>3 DEF Samples, CounterOf
    <2>5. CountedAt(t, i) = CounterOf(Max(held)) + Offset
        BY <1>4 DEF CountedAt
    <2> QED
        BY <1>2, <2>4, <2>5
<1> QED
    BY <1>3, <1>4

\* Edges of timed laps: the recording's, and the resets inside it.
EdgeList(edges) ==
    /\ edges \in Seq(Nat) /\ Len(edges) > 0
    /\ \A i, j \in 1 .. Len(edges) : i < j => edges[i] < edges[j]

LEMMA EdgesAscend ==
    ASSUME TypeOK, NEW timer \in SUBSET Nat
    PROVE  EdgeList(Edges(timer))
<1> DEFINE S == {0, recording.duration} \cup {t \in timer : t > 0 /\ t < recording.duration}
           R == {e \in S \X S : e[1] < e[2]}
<1>1. recording.duration \in Nat
    BY DEF TypeOK, IsRecording
<1>2. S \in SUBSET (0 .. recording.duration) /\ 0 \in S
    <2>1. ASSUME NEW x \in S PROVE x \in 0 .. recording.duration
        <3>1. x \in {0, recording.duration} \/ (x \in timer /\ x > 0 /\ x < recording.duration)
            OBVIOUS
        <3>2. x \in timer => x \in Nat
            OBVIOUS
        <3> QED
            BY <1>1, <3>1, <3>2
    <2> QED
        BY <2>1
<1>3. IsFiniteSet(S)
    <2>1. IsFiniteSet(0 .. recording.duration)
        BY <1>1, FS_Interval
    <2> HIDE DEF S
    <2> QED
        BY <1>2, <2>1, FS_Subset
<1>4. S \in SUBSET Nat
    BY <1>2
<1> HIDE DEF S
<1>5. StrictOrder(S, R)
    <2>1. \A x, y \in S : <<x, y>> \in R <=> x < y
        OBVIOUS
    <2>2. \A x \in S : x \in Nat
        BY <1>4
    <2> HIDE DEF R
    <2> QED
        BY <2>1, <2>2 DEF StrictOrder
<1>6. Arranged(S, R, Sorted(S, R))
    <2> HIDE DEF R
    <2> QED
        BY <1>3, <1>5, SortedArranges
<1>7. Edges(timer) = Sorted(S, R)
    BY DEF Edges, S
<1>8. Cardinality(S) \in Nat
    BY <1>3, FS_CardinalityType
<1> PICK edges : edges = Edges(timer)
    OBVIOUS
<1>9. /\ edges \in [1 .. Cardinality(S) -> S]
      /\ \A j, k \in 1 .. Cardinality(S) : j < k => edges[j] < edges[k]
      /\ \E k \in 1 .. Cardinality(S) : edges[k] = 0
    BY <1>2, <1>6, <1>7 DEF Arranged
<1>10. edges \in [1 .. Cardinality(S) -> Nat]
    BY <1>4, <1>9
<1>11. edges \in Seq(Nat) /\ Len(edges) = Cardinality(S)
    BY <1>8, <1>10
<1>12. Len(edges) > 0
    BY <1>8, <1>9, <1>11
<1> QED
    BY <1>9, <1>11, <1>12 DEF EdgeList

LEMMA NumbersType ==
    ASSUME TypeOK, NEW edges, EdgeList(edges)
    PROVE  \A i \in 1 .. Len(edges) - 1 : TimerNumbers(edges)[i] \in Nat
<1> DEFINE n == Len(edges) - 1
           counted(i) == CountedAt(edges[i], i)
           G == [p \in (1 .. n) \X Nat |-> IF counted(p[1]) <= p[2] THEN p[2] + 1 ELSE counted(p[1])]
           Body(f) == [i \in 1 .. n |->
                          IF i > 1 /\ counted(i) <= f[i - 1] THEN f[i - 1] + 1 ELSE counted(i)]
           number == CHOOSE f : f = Body(f)
<1>1. n \in Nat
    BY DEF EdgeList
<1>2. TimerNumbers(edges) = number
    BY Zenon DEF TimerNumbers
<1>3. ASSUME NEW i \in 1 .. n PROVE counted(i) \in Nat
    <2>1. edges[i] \in Nat /\ i \in Nat
        BY <1>1, <1>3 DEF EdgeList
    <2> QED
        BY <2>1, CountedType
<1> HIDE DEF counted
<1>4. G \in [(1 .. n) \X Nat -> Nat]
    <2>1. ASSUME NEW p \in (1 .. n) \X Nat
          PROVE  (IF counted(p[1]) <= p[2] THEN p[2] + 1 ELSE counted(p[1])) \in Nat
        <3>1. p[1] \in 1 .. n /\ p[2] \in Nat
            OBVIOUS
        <3> QED
            BY <1>3, <3>1
    <2> HIDE DEF n
    <2> QED
        BY <2>1
<1>5. CASE n = 0
    <2> HIDE DEF n
    <2>1. \A i \in 1 .. n : FALSE
        BY <1>5
    <2> QED
        BY <2>1, Zenon DEF n
<1>6. CASE n > 0
    <2>1. PICK base \in Nat : base = counted(1)
        BY <1>1, <1>3, <1>6
    <2>2. PICK f : Recurs(f, n, Nat, base, G)
        <3> HIDE DEF G, n
        <3> QED
            BY <1>1, <1>4, RecursionExists
    <2>3. ASSUME NEW i \in 1 .. n
          PROVE  f[i] = IF i > 1 /\ counted(i) <= f[i - 1] THEN f[i - 1] + 1 ELSE counted(i)
        <3>1. f[i] = IF i = 1 THEN base ELSE G[<<i, f[i - 1]>>]
            BY <2>2 DEF Recurs
        <3>2. CASE i = 1
            BY <2>1, <3>1, <3>2
        <3>3. CASE i # 1
            <4>1. i - 1 \in 1 .. n /\ i > 1
                BY <1>1, <3>3
            <4>2. f[i - 1] \in Nat
                BY <2>2, <4>1 DEF Recurs
            <4>3. <<i, f[i - 1]>> \in (1 .. n) \X Nat
                BY <4>2
            <4>4. G[<<i, f[i - 1]>>] =
                    IF counted(i) <= f[i - 1] THEN f[i - 1] + 1 ELSE counted(i)
                BY <4>3
            <4> HIDE DEF G
            <4> QED
                BY <3>1, <3>3, <4>1, <4>4
        <3> QED
            BY <3>2, <3>3
    <2>4. f = Body(f)
        <3>1. f = [i \in 1 .. n |-> f[i]]
            BY <2>2 DEF Recurs
        <3> QED
            BY <2>3, <3>1
    <2> HIDE DEF Body
    <2>5. number = Body(number)
        BY <2>4
    <2> HIDE DEF number
    <2>6. ASSUME NEW i \in 1 .. n
          PROVE  number[i] = IF i > 1 /\ counted(i) <= number[i - 1] THEN number[i - 1] + 1
                             ELSE counted(i)
        <3>1. Body(number)[i] = IF i > 1 /\ counted(i) <= number[i - 1] THEN number[i - 1] + 1
                                ELSE counted(i)
            BY DEF Body
        <3> QED
            BY <2>5, <3>1
    <2> DEFINE P == {m \in Nat : m + 1 \in 1 .. n => number[m + 1] \in Nat}
    <2>7. 0 \in P
        BY <1>3, <2>6
    <2>8. ASSUME NEW m \in Nat, m \in P PROVE m + 1 \in P
        <3> SUFFICES ASSUME (m + 1) + 1 \in 1 .. n PROVE number[(m + 1) + 1] \in Nat
            OBVIOUS
        <3> PICK k : k = m + 1
            OBVIOUS
        <3>1. k \in 1 .. n /\ k + 1 \in 1 .. n /\ (k + 1) - 1 = k
            BY <1>1
        <3>2. number[k] \in Nat /\ counted(k + 1) \in Nat
            BY <1>3, <2>8, <3>1
        <3>3. number[k + 1] = IF k + 1 > 1 /\ counted(k + 1) <= number[k] THEN number[k] + 1
                              ELSE counted(k + 1)
            BY <2>6, <3>1
        <3>4. number[k + 1] \in Nat
            BY <3>2, <3>3
        <3> QED
            BY <3>4
    <2> HIDE DEF P
    <2>9. Nat \subseteq P
        BY <2>7, <2>8, NaturalInduction
    <2>10. ASSUME NEW i \in 1 .. n PROVE number[i] \in Nat
        <3>1. i - 1 \in P /\ (i - 1) + 1 = i
            BY <1>1, <2>9
        <3> QED
            BY <3>1 DEF P
    <2> QED
        BY <1>2, <2>10
<1> QED
    BY <1>1, <1>5, <1>6

\* A lap between timer resets.
Plain(lap) ==
    /\ Honest(lap)
    /\ lap.startBoundary \in {"recording-edge", "timer-crossing"}
    /\ lap.endBoundary \in {"recording-edge", "timer-crossing"}

LEMMA PlainRecovers ==
    ASSUME NEW ls \in Seq(AllLaps), \A i \in 1 .. Len(ls) : Plain(ls[i]),
           \A i, j \in 1 .. Len(ls) : i < j => InTurn(ls[i], ls[j])
    PROVE  Recovered(ls)
<1>1. DOMAIN ls = 1 .. Len(ls) /\ Len(ls) \in Nat
    OBVIOUS
<1>2. ASSUME NEW i \in DOMAIN ls
      PROVE  /\ Honest(ls[i]) /\ LeavesPits(ls[i])
             /\ ls[i].endBoundary \notin Carries /\ ls[i].endBoundary \notin EndsStint
    <2>1. Plain(ls[i])
        BY <1>1
    <2> QED
        BY <2>1 DEF Plain, LeavesPits, Standing, Carries, EndsStint
<1>3. ASSUME NEW i \in DOMAIN ls, i > 1 PROVE HandsOver(ls[i - 1], ls[i])
    <2>1. i - 1 \in DOMAIN ls
        BY <1>1, <1>3
    <2> QED
        BY <1>2, <2>1 DEF HandsOver
<1> QED
    BY <1>1, <1>2, <1>3 DEF Recovered, Ascending, Numbered

LEMMA TimerRecovers ==
    ASSUME TypeOK, NEW timer \in SUBSET Nat
    PROVE  Recovered(TimerLaps(timer))
<1> DEFINE edges == Edges(timer)
           count == Len(edges) - 1
           number == TimerNumbers(edges)
           lap(i) == [start |-> edges[i], end |-> edges[i + 1],
                      complete |-> i > 1 /\ i < count, stint |-> 0, stintLap |-> number[i],
                      kind |-> "unknown",
                      startBoundary |-> IF i = 1 THEN "recording-edge" ELSE "timer-crossing",
                      endBoundary |-> IF i = count THEN "recording-edge" ELSE "timer-crossing"]
           full == [i \in 1 .. count |-> lap(i)]
           S == {lap(i) : i \in {j \in 1 .. count : number[j] > 0}}
<1>1. EdgeList(edges)
    BY EdgesAscend
<1>2. \A i \in 1 .. count : number[i] \in Nat
    BY <1>1, NumbersType
<1>3. TimerLaps(timer) = IF count <= 1 THEN <<>> ELSE Only(full, S)
    BY Zenon DEF TimerLaps
<1> HIDE DEF edges, number
<1>4. count \in Nat /\ edges \in Seq(Nat) /\ Len(edges) = count + 1
    BY <1>1 DEF EdgeList
<1> HIDE DEF count
<1>5. ASSUME NEW i \in 1 .. count
      PROVE  lap(i) \in AllLaps /\ Plain(lap(i)) /\ (i # count => lap(i).endBoundary # "recording-edge")
    <2>1. edges[i] \in Nat /\ edges[i + 1] \in Nat /\ edges[i] < edges[i + 1]
        <3>1. i \in 1 .. Len(edges) /\ i + 1 \in 1 .. Len(edges) /\ i < i + 1
            BY <1>4
        <3> QED
            BY <1>1, <1>4, <3>1 DEF EdgeList
    <2>2. number[i] \in Nat
        BY <1>2
    <2>3. lap(i) \in AllLaps
        BY <2>1, <2>2 DEF AllLaps, AllKinds, AllBoundaries, Boundaries
    <2>4. /\ lap(i).start = edges[i] /\ lap(i).end = edges[i + 1] /\ lap(i).kind = "unknown"
          /\ lap(i).complete => i > 1 /\ i < count
          /\ lap(i).startBoundary = IF i = 1 THEN "recording-edge" ELSE "timer-crossing"
          /\ lap(i).endBoundary = IF i = count THEN "recording-edge" ELSE "timer-crossing"
        OBVIOUS
    <2> HIDE DEF lap
    <2>5. lap(i).complete => i # 1 /\ i # count
        BY <1>4, <2>4
    <2>6. Honest(lap(i))
        BY <2>1, <2>4, <2>5 DEF Honest, TrackAnchors
    <2>7. Plain(lap(i))
        BY <2>4, <2>6 DEF Plain
    <2> QED
        BY <2>3, <2>4, <2>7
<1>6. ASSUME NEW i \in 1 .. count, NEW j \in 1 .. count, i < j PROVE InTurn(lap(i), lap(j))
    <2>1. edges[i + 1] <= edges[j]
        <3>1. i + 1 \in 1 .. Len(edges) /\ j \in 1 .. Len(edges) /\ (i + 1 = j \/ i + 1 < j)
            BY <1>4, <1>6
        <3>2. edges[j] \in Nat
            BY <1>4, <3>1
        <3>3. i + 1 < j => edges[i + 1] < edges[j]
            BY <1>1, <3>1 DEF EdgeList
        <3> QED
            BY <1>4, <3>1, <3>2, <3>3
    <2> QED
        BY <1>4, <1>6, <2>1 DEF InTurn, EndsStint
<1>7. \A i \in 1 .. count : full[i] = lap(i)
    OBVIOUS
<1> HIDE DEF lap
<1>8. full \in Seq(AllLaps) /\ Len(full) = count
    <2>1. full \in [1 .. count -> AllLaps]
        BY <1>5
    <2> HIDE DEF full
    <2> QED
        BY <1>4, <2>1
<1> HIDE DEF full, S
<1>9. Only(full, S) \in Seq(AllLaps)
    <2>1. Only(full, S) \in Seq(AllLaps \cap S)
        BY <1>8, OnlyTyped
    <2>2. AllLaps \cap S \subseteq AllLaps
        OBVIOUS
    <2> QED
        BY <2>1, <2>2
<1> DEFINE kept == Only(full, S)
<1>10. \A i \in 1 .. Len(kept) : Plain(kept[i])
    <2>1. \A i \in 1 .. Len(kept) : \E k \in 1 .. Len(full) : kept[i] = full[k]
        BY <1>8, OnlyMembers
    <2> QED
        BY <1>5, <1>7, <1>8, <2>1
<1>11. \A i, j \in 1 .. Len(kept) : i < j => InTurn(kept[i], kept[j])
    <2> DEFINE R == {p \in AllLaps \X AllLaps : InTurn(p[1], p[2])}
    <2>1. \A a, b \in AllLaps : <<a, b>> \in R <=> InTurn(a, b)
        OBVIOUS
    <2> HIDE DEF R
    <2>2. \A i, j \in 1 .. Len(full) : i < j => <<full[i], full[j]>> \in R
        BY <1>5, <1>6, <1>7, <1>8, <2>1
    <2>3. \A i, j \in 1 .. Len(kept) : i < j => <<kept[i], kept[j]>> \in R
        BY <1>8, <2>2, OnlyPairs
    <2>4. \A i \in 1 .. Len(kept) : kept[i] \in AllLaps
        BY <1>9
    <2> QED
        BY <2>1, <2>3, <2>4
<1> HIDE DEF kept
<1>12. Recovered(kept)
    <2>1. kept \in Seq(AllLaps)
        BY <1>9 DEF kept
    <2> QED
        BY <1>10, <1>11, <2>1, PlainRecovers
<1>13. Recovered(<<>>)
    <2>1. <<>> \in Seq(AllLaps) /\ DOMAIN <<>> = {}
        BY EmptySeq
    <2> QED
        BY <2>1 DEF Recovered, Ascending, Numbered
<1> QED
    BY <1>3, <1>12, <1>13 DEF kept

(***************************************************************************)
(* Moving boundaries onto timer resets.                                    *)
(***************************************************************************)
\* What Snap chooses: a usable reset that no other usable one is nearer than,
\* or the boundary itself.
LEMMA SnapChooses ==
    ASSUME NEW timer \in SUBSET Nat, NEW barriers \in SUBSET Nat, NEW at \in Nat
    PROVE  LET s == Snap(at, timer, barriers)
               usable == Usable(at, timer, barriers)
           IN  IF usable = {} THEN s = at ELSE s \in Nearest(at, usable)
<1> DEFINE usable == Usable(at, timer, barriers)
<1>1. CASE usable = {}
    BY <1>1 DEF Snap
<1>2. CASE usable # {}
    <2>1. ASSUME NEW r \in usable, NEW q \in usable, r # q, r <= q
          PROVE  r < at /\ q >= at /\ \A p \in usable : p = r \/ p = q
        <3>1. \A p \in usable : p \in timer /\ p \in Nat
            BY DEF Usable, Adjacent
        <3>2. \A p \in usable : \/ p < at /\ \A o \in timer : o < at => o <= p
                                \/ p >= at /\ \A o \in timer : o >= at => p <= o
            BY DEF Usable, Adjacent
        <3> HIDE DEF usable
        <3>3. \A p, o \in usable : p < at /\ o < at => p = o
            BY <3>1, <3>2
        <3>4. \A p, o \in usable : p >= at /\ o >= at => p = o
            BY <3>1, <3>2
        <3> QED
            BY <2>1, <3>1, <3>3, <3>4
    <2>2. \A p \in usable : p \in Nat
        BY DEF Usable, Adjacent
    <2> HIDE DEF usable
    <2>3. PICK r \in usable : TRUE
        BY <1>2
    <2>4. Nearest(at, usable) # {}
        <3>1. CASE \E q \in usable : q # r
            <4>1. PICK low \in usable, high \in usable :
                     /\ low < at /\ high >= at /\ \A p \in usable : p = low \/ p = high
                <5>1. PICK q \in usable : q # r
                    BY <3>1
                <5>2. q <= r \/ r <= q
                    BY <2>2
                <5> QED
                    BY <2>1, <5>1, <5>2
            <4>2. CASE at - low <= high - at
                <5>1. low \in Nearest(at, usable)
                    BY <2>2, <4>1, <4>2 DEF Nearest, Distance
                <5> QED
                    BY <5>1
            <4>3. CASE ~(at - low <= high - at)
                <5>1. high \in Nearest(at, usable)
                    BY <2>2, <4>1, <4>3 DEF Nearest, Distance
                <5> QED
                    BY <5>1
            <4> QED
                BY <4>2, <4>3
        <3>2. CASE \A q \in usable : q = r
            <4>1. r \in Nearest(at, usable)
                BY <2>2, <3>2 DEF Nearest
            <4> QED
                BY <4>1
        <3> QED
            BY <3>1, <3>2
    <2> QED
        BY <1>2, <2>4 DEF Snap, usable
<1> QED
    BY <1>1, <1>2

\* A boundary stays on its side of every barrier, and on it if it is one.
LEMMA SnapKeepsSides ==
    ASSUME NEW timer \in SUBSET Nat, NEW barriers \in SUBSET Nat, NEW at \in Nat
    PROVE  LET s == Snap(at, timer, barriers)
           IN  /\ s \in Nat
               /\ \A b \in barriers : (at < b => s < b) /\ (b < at => b < s) /\ (at = b => s = b)
<1> PICK s : s = Snap(at, timer, barriers)
    OBVIOUS
<1>1. s = at \/ s \in Usable(at, timer, barriers)
    BY SnapChooses DEF Nearest
<1>2. s \in Nat
    BY <1>1 DEF Usable, Adjacent
<1>3. ASSUME s # at, NEW b \in barriers PROVE ~Between(b, at, s)
    BY <1>1, <1>3 DEF Usable
<1>4. ASSUME NEW b \in barriers
      PROVE  (at < b => s < b) /\ (b < at => b < s) /\ (at = b => s = b)
    <2>1. b \in Nat
        OBVIOUS
    <2>2. s = at \/ ~Between(b, at, s)
        BY <1>3
    <2> QED
        BY <1>2, <2>1, <2>2 DEF Between
<1> QED
    BY <1>2, <1>4

\* Boundaries keep their order.
LEMMA SnapKeepsOrder ==
    ASSUME NEW timer \in SUBSET Nat, NEW barriers \in SUBSET Nat, NEW a \in Nat, NEW b \in Nat,
           a <= b
    PROVE  Snap(a, timer, barriers) <= Snap(b, timer, barriers)
<1> PICK s : s = Snap(a, timer, barriers)
    OBVIOUS
<1> PICK t : t = Snap(b, timer, barriers)
    OBVIOUS
<1> DEFINE U(x) == Usable(x, timer, barriers)
<1>1. s \in Nat /\ t \in Nat
    BY SnapKeepsSides
<1>2. ASSUME NEW x \in Nat, NEW r \in U(x)
      PROVE  /\ r \in timer /\ Distance(r, x) <= SnapWindow /\ \A c \in barriers : ~Between(c, x, r)
             /\ \/ r < x /\ \A q \in timer : q < x => q <= r
                \/ r >= x /\ \A q \in timer : q >= x => r <= q
    BY <1>2 DEF Usable, Adjacent
<1>3. ASSUME NEW x \in Nat, NEW r \in timer, r < x, \A q \in timer : q < x => q <= r,
             Distance(r, x) <= SnapWindow, \A c \in barriers : ~Between(c, x, r)
      PROVE  r \in U(x)
    BY <1>3 DEF Usable, Adjacent
<1>4. ASSUME NEW x \in Nat, NEW r \in timer, r >= x, \A q \in timer : q >= x => r <= q,
             Distance(r, x) <= SnapWindow, \A c \in barriers : ~Between(c, x, r)
      PROVE  r \in U(x)
    BY <1>4 DEF Usable, Adjacent
<1>5. (U(a) = {} /\ s = a) \/ (s \in U(a) /\ \A q \in U(a) : Distance(s, a) < Distance(q, a)
                                               \/ (Distance(s, a) = Distance(q, a) /\ s <= q))
    BY SnapChooses DEF Nearest
<1>6. (U(b) = {} /\ t = b) \/ (t \in U(b) /\ \A q \in U(b) : Distance(t, b) < Distance(q, b)
                                               \/ (Distance(t, b) = Distance(q, b) /\ t <= q))
    BY SnapChooses DEF Nearest
<1> HIDE DEF U
<1>7. \A r \in timer : r \in Nat
    OBVIOUS
<1>8. \A c \in barriers : c \in Nat
    OBVIOUS
<1>9. SnapWindow \in Nat
    BY PublicationAssumption
\* A reset between the boundaries is nearer to each than one beyond the other.
<1>10. ASSUME NEW r \in timer, r < a, r \in U(b) PROVE r \in U(a)
    <2>1. \A q \in timer : q < a => q <= r
        BY <1>2, <1>7, <1>10
    <2>2. Distance(r, a) <= SnapWindow
        BY <1>2, <1>7, <1>9, <1>10 DEF Distance
    <2>3. ASSUME NEW c \in barriers PROVE ~Between(c, a, r)
        <3>1. ~Between(c, b, r)
            BY <1>2, <1>10
        <3> QED
            BY <1>7, <1>8, <1>10, <3>1 DEF Between
    <2> QED
        BY <1>3, <1>10, <2>1, <2>2, <2>3
<1>11. ASSUME NEW r \in timer, r >= b, r \in U(a) PROVE r \in U(b)
    <2>1. \A q \in timer : q >= b => r <= q
        BY <1>2, <1>7, <1>11
    <2>2. Distance(r, b) <= SnapWindow
        BY <1>2, <1>7, <1>9, <1>11 DEF Distance
    <2>3. ASSUME NEW c \in barriers PROVE ~Between(c, b, r)
        <3>1. ~Between(c, a, r)
            BY <1>2, <1>11
        <3> QED
            BY <1>7, <1>8, <1>11, <3>1 DEF Between
    <2> QED
        BY <1>4, <1>11, <2>1, <2>2, <2>3
<1> SUFFICES ASSUME s > t PROVE FALSE
    BY <1>1
<1>12. a # b
    BY <1>1
<1>13. CASE s <= a
    <2>1. t \in U(b) /\ t \in timer /\ t < a /\ \A q \in timer : q < b => q <= t
        BY <1>1, <1>2, <1>6, <1>7, <1>13
    <2>2. t \in U(a)
        BY <1>10, <2>1
    <2>3. s \in U(a) /\ s \in timer
        BY <1>2, <1>5, <2>2
    <2>4. s <= t
        BY <1>1, <1>12, <1>13, <2>1, <2>3
    <2> QED
        BY <1>1, <2>4
<1>14. CASE s > a
    <2>1. s \in U(a) /\ s \in timer /\ \A q \in timer : q >= a => s <= q
        BY <1>1, <1>2, <1>5, <1>7, <1>14
    <2>2. CASE t = b /\ U(b) = {}
        <3>1. s >= b
            BY <1>1, <2>2
        <3> QED
            BY <1>11, <2>1, <2>2, <3>1
    <2>3. CASE t \in U(b)
        <3>1. t \in timer /\ t < a
            BY <1>1, <1>2, <2>1, <2>3
        <3>2. t \in U(a)
            BY <1>10, <2>3, <3>1
        <3>3. \A q \in timer : q < b => q <= t
            BY <1>1, <1>2, <2>3, <3>1
        <3>4. s >= b
            BY <1>1, <2>1, <3>3
        <3>5. s \in U(b)
            BY <1>11, <2>1, <3>4
        <3>6. s - a < a - t
            BY <1>1, <1>5, <1>14, <3>1, <3>2 DEF Distance
        <3>7. b - t <= s - b
            BY <1>1, <1>6, <3>1, <3>4, <3>5 DEF Distance
        <3> QED
            BY <1>1, <1>12, <3>6, <3>7
    <2> QED
        BY <1>6, <2>2, <2>3
<1> QED
    BY <1>1, <1>13, <1>14

\* The laps that the walk returns start at the recording's edge only first.
Walked(ls) ==
    /\ Recovered(ls)
    /\ ls \in Seq(Laps)
    /\ \A i \in DOMAIN ls : i > 1 => ls[i].startBoundary # "recording-edge"

\* Lap b is lap a with its boundaries on timer resets, at the instants from and until.
MovedTo(a, b, from, until) ==
    /\ b \in AllLaps /\ b.start = from /\ b.end = until
    /\ b.stint = a.stint /\ b.kind = a.kind /\ b.complete = a.complete
    /\ b.startBoundary = IF from # a.start THEN "timer-crossing" ELSE a.startBoundary
    /\ b.endBoundary = IF until # a.end THEN "timer-crossing" ELSE a.endBoundary
    /\ from # a.start => a.startBoundary = "counter-crossing"
    /\ until # a.end => a.endBoundary = "counter-crossing"

LEMMA SnappedMoves ==
    ASSUME NEW ls, Walked(ls), NEW timer \in SUBSET Nat
    PROVE  LET to == Snapped(ls, timer)
               at(t) == Snap(t, timer, Barriers(ls))
           IN  /\ to \in Seq(AllLaps) /\ Len(to) = Len(ls)
               /\ \A i \in 1 .. Len(ls) :
                     /\ MovedTo(ls[i], to[i], to[i].start, to[i].end)
                     /\ to[i].start = at(ls[i].start) \/ (i = 1 /\ to[i].start = ls[i].start)
                     /\ to[i].end = at(ls[i].end) \/ (i = Len(ls) /\ to[i].end = ls[i].end)
<1> DEFINE bars == Barriers(ls)
           at(t) == Snap(t, timer, bars)
           start(i) == IF (i = 1 /\ ~ls[i].complete) \/ ~Moves(ls[i].startBoundary)
                       THEN ls[i].start ELSE at(ls[i].start)
           end(i) == IF (i = Len(ls) /\ ~ls[i].complete) \/ ~Moves(ls[i].endBoundary)
                     THEN ls[i].end ELSE at(ls[i].end)
           moved(i) == [ls[i] EXCEPT !.start = start(i), !.end = end(i),
                           !.startBoundary = IF start(i) # ls[i].start THEN "timer-crossing" ELSE @,
                           !.endBoundary = IF end(i) # ls[i].end THEN "timer-crossing" ELSE @]
           to == [i \in DOMAIN ls |-> moved(i)]
<1>1. Snapped(ls, timer) = to
    BY Zenon DEF Snapped
<1>2. ls \in Seq(Laps) /\ Len(ls) \in Nat /\ DOMAIN ls = 1 .. Len(ls) /\ \A i \in DOMAIN ls : ls[i] \in Laps
    BY DEF Walked
<1>3. bars \in SUBSET Nat
    <2>1. ASSUME NEW i \in DOMAIN ls PROVE ls[i].start \in Nat /\ ls[i].end \in Nat
        BY <1>2 DEF Laps
    <2> QED
        BY <2>1 DEF Barriers
<1>4. \A t \in Nat : at(t) \in Nat /\ (t \in bars => at(t) = t)
    BY <1>3, SnapKeepsSides
<1>5. ASSUME NEW i \in DOMAIN ls
      PROVE  /\ IsBarrier(ls[i].startBoundary) => ls[i].start \in bars
             /\ IsBarrier(ls[i].endBoundary) => ls[i].end \in bars
    BY DEF Barriers
<1> HIDE DEF bars, at
<1>6. ASSUME NEW i \in DOMAIN ls
      PROVE  /\ ls[i].start \in Nat /\ ls[i].end \in Nat
             /\ ls[i].startBoundary \in Boundaries /\ ls[i].endBoundary \in Boundaries
             /\ i > 1 => ls[i].startBoundary # "recording-edge"
             /\ i < Len(ls) => ls[i].endBoundary # "recording-edge"
    <2>1. ls[i] \in Laps
        BY <1>2
    <2>2. i < Len(ls) => ls[i].endBoundary # "recording-edge"
        <3>1. ASSUME i < Len(ls) PROVE i + 1 \in DOMAIN ls /\ i < i + 1
            BY <1>2, <3>1
        <3> QED
            BY <3>1 DEF Walked, Recovered, Ascending, InTurn
    <2> QED
        BY <2>1, <2>2 DEF Walked, Laps
<1>7. ASSUME NEW i \in DOMAIN ls
      PROVE  /\ start(i) \in Nat
             /\ start(i) # ls[i].start => ls[i].startBoundary = "counter-crossing"
             /\ start(i) = at(ls[i].start) \/ (i = 1 /\ start(i) = ls[i].start)
    <2>1. Moves(ls[i].startBoundary) <=> ls[i].startBoundary = "counter-crossing"
        BY <1>6 DEF Moves, Boundaries
    <2>2. CASE i = 1
        BY <1>4, <1>6, <2>1, <2>2
    <2>3. CASE i # 1
        <3>1. ~Moves(ls[i].startBoundary) => IsBarrier(ls[i].startBoundary)
            BY <1>2, <1>6, <2>1, <2>3 DEF Boundaries, IsBarrier
        <3>2. ~Moves(ls[i].startBoundary) => at(ls[i].start) = ls[i].start
            BY <1>4, <1>5, <1>6, <3>1
        <3> QED
            BY <1>4, <1>6, <2>1, <2>3, <3>2
    <2> QED
        BY <2>2, <2>3
<1>8. ASSUME NEW i \in DOMAIN ls
      PROVE  /\ end(i) \in Nat
             /\ end(i) # ls[i].end => ls[i].endBoundary = "counter-crossing"
             /\ end(i) = at(ls[i].end) \/ (i = Len(ls) /\ end(i) = ls[i].end)
    <2>1. Moves(ls[i].endBoundary) <=> ls[i].endBoundary = "counter-crossing"
        BY <1>6 DEF Moves, Boundaries
    <2>2. CASE i = Len(ls)
        BY <1>4, <1>6, <2>1, <2>2
    <2>3. CASE i # Len(ls)
        <3>1. ~Moves(ls[i].endBoundary) => IsBarrier(ls[i].endBoundary)
            BY <1>2, <1>6, <2>1, <2>3 DEF Boundaries, IsBarrier
        <3>2. ~Moves(ls[i].endBoundary) => at(ls[i].end) = ls[i].end
            BY <1>4, <1>5, <1>6, <3>1
        <3> QED
            BY <1>4, <1>6, <2>1, <2>3, <3>2
    <2> QED
        BY <2>2, <2>3
<1> HIDE DEF start, end
<1>9. ASSUME NEW i \in DOMAIN ls
      PROVE  MovedTo(ls[i], moved(i), start(i), end(i)) /\ moved(i).start = start(i) /\ moved(i).end = end(i)
    <2>1. PICK from \in Nat : from = start(i)
        BY <1>7
    <2>2. PICK until \in Nat : until = end(i)
        BY <1>8
    <2>3. PICK lap \in Laps : lap = ls[i]
        BY <1>2
    <2> DEFINE new == [lap EXCEPT !.start = from, !.end = until,
                           !.startBoundary = IF from # lap.start THEN "timer-crossing" ELSE @,
                           !.endBoundary = IF until # lap.end THEN "timer-crossing" ELSE @]
    <2>4. moved(i) = new
        BY <2>1, <2>2, <2>3
    <2>5. new \in AllLaps
        BY DEF Laps, AllLaps, AllKinds, AllBoundaries
    <2>6. /\ new.start = from /\ new.end = until
          /\ new.stint = lap.stint /\ new.kind = lap.kind /\ new.complete = lap.complete
          /\ new.startBoundary = IF from # lap.start THEN "timer-crossing" ELSE lap.startBoundary
          /\ new.endBoundary = IF until # lap.end THEN "timer-crossing" ELSE lap.endBoundary
        BY DEF Laps
    <2>7. /\ from # lap.start => lap.startBoundary = "counter-crossing"
          /\ until # lap.end => lap.endBoundary = "counter-crossing"
        BY <1>7, <1>8, <2>1, <2>2, <2>3
    <2> HIDE DEF new, moved
    <2>8. MovedTo(lap, new, from, until)
        BY <2>5, <2>6, <2>7 DEF MovedTo
    <2> QED
        BY <2>1, <2>2, <2>3, <2>4, <2>6, <2>8
<1> HIDE DEF moved
<1>10. to \in Seq(AllLaps) /\ Len(to) = Len(ls)
    <2>1. to \in [1 .. Len(ls) -> AllLaps]
        BY <1>2, <1>9 DEF MovedTo
    <2> HIDE DEF to
    <2> QED
        BY <1>2, <2>1
<1>11. \A i \in 1 .. Len(ls) : to[i] = moved(i)
    BY <1>2
<1> HIDE DEF to
<1>12. ASSUME NEW i \in 1 .. Len(ls)
       PROVE  /\ MovedTo(ls[i], to[i], to[i].start, to[i].end)
              /\ to[i].start = at(ls[i].start) \/ (i = 1 /\ to[i].start = ls[i].start)
              /\ to[i].end = at(ls[i].end) \/ (i = Len(ls) /\ to[i].end = ls[i].end)
    <2>1. i \in DOMAIN ls /\ to[i] = moved(i)
        BY <1>2, <1>11
    <2>2. to[i].start = start(i) /\ to[i].end = end(i) /\ MovedTo(ls[i], to[i], start(i), end(i))
        BY <1>9, <2>1
    <2> QED
        BY <1>7, <1>8, <2>1, <2>2
<1> QED
    BY <1>1, <1>10, <1>12 DEF at, bars

\* Two laps stay in turn, and so does what joins them.
LEMMA MovedInTurn ==
    ASSUME NEW a \in Laps, NEW b \in Laps, InTurn(a, b), NEW c, NEW d,
           MovedTo(a, c, c.start, c.end), MovedTo(b, d, d.start, d.end), c.end <= d.start
    PROVE  InTurn(c, d)
BY DEF InTurn, MovedTo, EndsStint

LEMMA MovedHonest ==
    ASSUME NEW a \in Laps, Honest(a), StopsStand => LeavesPits(a), NEW c,
           MovedTo(a, c, c.start, c.end), c.start < c.end
    PROVE  Honest(c) /\ (StopsStand => LeavesPits(c))
<1>1. Honest(c)
    BY DEF Honest, MovedTo, TrackAnchors
<1>2. Standing(c) => Standing(a)
    BY DEF Standing, MovedTo
<1>3. a.endBoundary \in {"motion-departure", "gps-pit-exit", "recording-edge"} =>
        c.endBoundary = a.endBoundary
    BY DEF MovedTo
<1> QED
    BY <1>1, <1>2, <1>3 DEF LeavesPits

LEMMA RefinedRecovers ==
    ASSUME NEW ls, Walked(ls), NEW timerLaps \in Seq(AllLaps)
    PROVE  Recovered(Refined(ls, timerLaps))
<1>a. PICK timer \in SUBSET Nat :
       timer = {timerLaps[i].start : i \in {j \in DOMAIN timerLaps :
                                        timerLaps[j].complete \/ timerLaps[j].start > 0}}
    <2>1. ASSUME NEW i \in DOMAIN timerLaps PROVE timerLaps[i].start \in Nat
        <3>1. timerLaps[i] \in AllLaps
            OBVIOUS
        <3> QED
            BY <3>1 DEF AllLaps
    <2> QED
        BY <2>1
<1> PICK to : to = Snapped(ls, timer)
    OBVIOUS
<1> DEFINE S == {to[i] : i \in {j \in DOMAIN ls : to[j].end > to[j].start}}
           at(t) == Snap(t, timer, Barriers(ls))
<1>1. CASE timerLaps = <<>>
    BY <1>1 DEF Refined, Walked
<1>2. CASE timerLaps # <<>>
    <2>1. Refined(ls, timerLaps) = Only(to, S)
        BY <1>a, <1>2, Zenon DEF Refined
    <2>2. ls \in Seq(Laps) /\ Len(ls) \in Nat /\ DOMAIN ls = 1 .. Len(ls)
          /\ \A i \in 1 .. Len(ls) : ls[i] \in Laps
        BY DEF Walked
    <2>3. /\ to \in Seq(AllLaps) /\ Len(to) = Len(ls)
          /\ \A i \in 1 .. Len(ls) :
                /\ MovedTo(ls[i], to[i], to[i].start, to[i].end)
                /\ to[i].start = at(ls[i].start) \/ (i = 1 /\ to[i].start = ls[i].start)
                /\ to[i].end = at(ls[i].end) \/ (i = Len(ls) /\ to[i].end = ls[i].end)
        <3> HIDE DEF S
        <3> QED
            BY SnappedMoves, Zenon
    <2>4. Barriers(ls) \in SUBSET Nat
        <3>1. ASSUME NEW i \in DOMAIN ls PROVE ls[i].start \in Nat /\ ls[i].end \in Nat
            BY <2>2 DEF Laps
        <3> QED
            BY <3>1 DEF Barriers
    <2>5. ASSUME NEW t \in Nat PROVE at(t) \in Nat
        BY <2>4, SnapKeepsSides
    <2>6. ASSUME NEW t \in Nat, NEW u \in Nat, t <= u PROVE at(t) <= at(u)
        BY <2>4, <2>6, SnapKeepsOrder
    <2>7. ASSUME NEW t \in Nat, NEW b \in Barriers(ls)
          PROVE  (b < t => b < at(t)) /\ at(b) = b
        <3>1. b \in Nat
            BY <2>4
        <3>2. b < t => b < at(t)
            BY <2>4, SnapKeepsSides
        <3>3. at(b) = b
            BY <2>4, <3>1, SnapKeepsSides
        <3> QED
            BY <3>2, <3>3
    <2> HIDE DEF at, S
    <2>8. ASSUME NEW i \in 1 .. Len(ls)
          PROVE  /\ ls[i].start \in Nat /\ ls[i].end \in Nat /\ ls[i].start < ls[i].end
                 /\ Honest(ls[i]) /\ (StopsStand => LeavesPits(ls[i]))
        <3>1. ls[i] \in Laps /\ Honest(ls[i]) /\ (StopsStand => LeavesPits(ls[i]))
            BY <2>2 DEF Walked, Recovered
        <3> QED
            BY <3>1 DEF Laps, Honest
    <2>9. ASSUME NEW i \in 1 .. Len(ls), NEW j \in 1 .. Len(ls), i < j PROVE InTurn(to[i], to[j])
        <3>1. InTurn(ls[i], ls[j])
            BY <2>2, <2>9 DEF Walked, Recovered, Ascending
        <3>2. to[i].end = at(ls[i].end) /\ to[j].start = at(ls[j].start)
            <4>1. Len(ls) \in Nat
                BY <2>2, Zenon
            <4>2. i # Len(ls) /\ j # 1
                BY <2>9, <4>1
            <4> QED
                BY <2>3, <4>2, Zenon
        <3>3. to[i].end <= to[j].start
            BY <2>6, <2>8, <3>1, <3>2 DEF InTurn
        <3>4. ls[i] \in Laps /\ ls[j] \in Laps
            BY <2>2
        <3>5. MovedTo(ls[i], to[i], to[i].start, to[i].end) /\ MovedTo(ls[j], to[j], to[j].start, to[j].end)
            BY <2>3
        <3> QED
            BY <3>1, <3>3, <3>4, <3>5, MovedInTurn
    <2>10. ASSUME NEW i \in 1 .. Len(ls) PROVE to[i] \in S <=> to[i].start < to[i].end
        <3>1. to[i] \in AllLaps
            <4>1. MovedTo(ls[i], to[i], to[i].start, to[i].end)
                BY <2>3, Zenon
            <4> QED
                BY <4>1, Zenon DEF MovedTo
        <3>2. to[i].start \in Nat /\ to[i].end \in Nat
            BY <3>1 DEF AllLaps
        <3>3. to[i] \in S => to[i].end > to[i].start
            BY DEF S
        <3>4. to[i].end > to[i].start => to[i] \in S
            BY <2>2 DEF S
        <3> QED
            BY <3>2, <3>3, <3>4
    \* A lap that starts at a change of activity is never left empty.
    <2>11. ASSUME NEW i \in 1 .. Len(ls), IsBarrier(ls[i].startBoundary) PROVE to[i] \in S
        <3>1. ls[i].start \in Barriers(ls)
            BY <2>2, <2>11 DEF Barriers
        <3>2. to[i].start = ls[i].start
            BY <2>3, <2>7, <2>8, <3>1
        <3>3. ls[i].start < to[i].end
            BY <2>3, <2>7, <2>8, <3>1
        <3> QED
            BY <2>10, <3>2, <3>3
    <2> PICK kept : kept = Only(to, S)
        OBVIOUS
    <2>12. PICK f : Places(to, S, kept, f)
        BY <2>3, OnlyEmbeds
    <2>13. kept \in Seq(AllLaps)
        <3>1. Only(to, S) \in Seq(AllLaps \cap S)
            BY <2>3, OnlyTyped
        <3>2. AllLaps \cap S \subseteq AllLaps
            OBVIOUS
        <3> QED
            BY <3>1, <3>2
    <2>14. Len(kept) \in Nat /\ DOMAIN kept = 1 .. Len(kept)
        BY <2>13
    <2>15. ASSUME NEW k \in 1 .. Len(kept)
           PROVE  f[k] \in 1 .. Len(ls) /\ kept[k] = to[f[k]] /\ to[f[k]] \in S
        BY <2>3, <2>12 DEF Places
    <2>16. ASSUME NEW j \in 1 .. Len(kept), NEW k \in 1 .. Len(kept), j < k PROVE f[j] < f[k]
        BY <2>12, <2>16 DEF Places
    <2>17. ASSUME NEW k \in 1 .. Len(kept) PROVE Honest(kept[k]) /\ (StopsStand => LeavesPits(kept[k]))
        <3> PICK i : i = f[k]
            OBVIOUS
        <3>1. i \in 1 .. Len(ls) /\ kept[k] = to[i] /\ to[i] \in S
            BY <2>15
        <3>2. ls[i] \in Laps /\ to[i].start < to[i].end
            BY <2>2, <2>10, <3>1
        <3>3. MovedTo(ls[i], to[i], to[i].start, to[i].end)
            BY <2>3, <3>1
        <3> QED
            BY <2>8, <3>1, <3>2, <3>3, MovedHonest
    <2>18. Ascending(kept)
        <3>1. ASSUME NEW j \in DOMAIN kept, NEW k \in DOMAIN kept, j < k PROVE InTurn(kept[j], kept[k])
            <4>1. f[j] \in 1 .. Len(ls) /\ f[k] \in 1 .. Len(ls) /\ f[j] < f[k]
                BY <2>14, <2>15, <2>16, <3>1
            <4>2. kept[j] = to[f[j]] /\ kept[k] = to[f[k]]
                BY <2>14, <2>15, <3>1
            <4> QED
                BY <2>9, <4>1, <4>2
        <3> QED
            BY <3>1 DEF Ascending
    <2>19. Numbered(kept)
        <3>1. ASSUME NEW k \in DOMAIN kept
              PROVE  \E i \in DOMAIN ls : /\ kept[k].stint = ls[i].stint
                                          /\ kept[k].endBoundary \in EndsStint =>
                                               ls[i].endBoundary \in EndsStint
            <4> PICK i : i = f[k]
                OBVIOUS
            <4>1. i \in 1 .. Len(ls) /\ kept[k] = to[i]
                BY <2>14, <2>15
            <4>2. MovedTo(ls[i], to[i], to[i].start, to[i].end)
                BY <2>3, <4>1
            <4>3. /\ kept[k].stint = ls[i].stint
                  /\ kept[k].endBoundary \in EndsStint => ls[i].endBoundary \in EndsStint
                BY <4>1, <4>2 DEF MovedTo, EndsStint
            <4> QED
                BY <2>2, <4>1, <4>3
        <3>2. Numbered(ls)
            BY DEF Walked, Recovered
        <3> QED
            BY <3>1, <3>2 DEF Numbered
    <2>20. ASSUME NEW k \in DOMAIN kept, k > 1 PROVE HandsOver(kept[k - 1], kept[k])
        <3> PICK i : i = f[k - 1]
            OBVIOUS
        <3>1. k \in 1 .. Len(kept) /\ k - 1 \in 1 .. Len(kept) /\ k \in 2 .. Len(kept) /\ k - 1 < k
            BY <2>14, <2>20
        <3>2. i \in 1 .. Len(ls) /\ kept[k - 1] = to[i] /\ f[k] \in 1 .. Len(ls) /\ i < f[k]
            BY <2>15, <2>16, <3>1
        <3>3. i + 1 \in 1 .. Len(ls) /\ i + 1 > 1 /\ (i + 1) - 1 = i
            BY <2>2, <3>2
        <3> PICK next : next = i + 1
            OBVIOUS
        <3> SUFFICES ASSUME to[i].endBoundary \in Carries
                     PROVE  /\ kept[k].startBoundary = to[i].endBoundary
                            /\ kept[k].start = to[i].end
            BY <3>2 DEF HandsOver
        <3>4. ls[i].endBoundary = to[i].endBoundary /\ to[i].end = ls[i].end
            <4>1. MovedTo(ls[i], to[i], to[i].start, to[i].end)
                BY <2>3, <3>2
            <4> QED
                BY <4>1 DEF MovedTo, Carries, EndsStint
        <3>5. ls[next].startBoundary = to[i].endBoundary /\ ls[next].start = to[i].end
            BY <2>2, <3>3, <3>4 DEF Walked, Recovered, HandsOver
        <3>6. to[next] \in S
            <4>1. IsBarrier(ls[next].startBoundary)
                BY <3>5 DEF IsBarrier, Carries, EndsStint
            <4> QED
                BY <2>11, <3>3, <4>1
        <3>7. f[k] = next
            BY <2>3, <2>12, <3>1, <3>3, <3>6, NextKept
        <3>8. MovedTo(ls[next], to[next], to[next].start, to[next].end) /\ kept[k] = to[next]
            BY <2>3, <2>15, <3>1, <3>3, <3>7
        <3> QED
            BY <3>5, <3>8 DEF MovedTo, Carries, EndsStint
    <2>21. Recovered(kept)
        BY <2>13, <2>14, <2>17, <2>18, <2>19, <2>20 DEF Recovered
    <2> QED
        BY <2>1, <2>21
<1> QED
    BY <1>1, <1>2

(***************************************************************************)
(* Publication: the inductive invariant.                                   *)
(***************************************************************************)
\* What holds of a lap that validation has passed, or need not look at.
Done(lap, least) ==
    /\ lap.start < lap.end
    /\ lap.kind # "unknown" => (lap.complete <=> lap.kind = "flying")
    /\ lap.complete => /\ lap.startBoundary \in TrackAnchors \/ ~StopsStand
                       /\ lap.endBoundary \in TrackAnchors
                       /\ lap.end - lap.start >= least

\* The laps of a list before the one at `at`, which the replay reaches in the
\* phase p, are done; where it is in the pits, so is that lap, and behind a
\* rejected crossing it knows nothing of the car.
Replayed(ls, at, p, least) ==
    /\ at \in 1 .. Len(ls) + 1
    /\ \A i \in DOMAIN ls : IF i < at THEN Done(ls[i], least)
                            ELSE Honest(ls[i]) /\ (StopsStand => LeavesPits(ls[i]))
    /\ \A i \in DOMAIN ls : i > at => HandsOver(ls[i - 1], ls[i])
    /\ StopsStand /\ at <= Len(ls) /\ p \in {"pit", "stopped"} =>
          Standing(ls[at]) \/ ls[at].startBoundary = "motion-departure"
    /\ StopsStand /\ at > 1 /\ ls[at - 1].endBoundary = "rejected-crossing" => p = "uncertain"

Orderly(ls) == ls \in Seq(AllLaps) /\ Ascending(ls) /\ Numbered(ls)

PublicationInv ==
    /\ minimum \in Nat /\ replay \in Phases
    /\ vendor # NoVendor => vendor \in VendorLists
    /\ stage \in {"recover", "validate", "classify", "published"}
    /\ stage = "recover" => cursor = 1 /\ replay = "initial"
    /\ vendor # NoVendor => /\ stage # "validate"
                            /\ stage = "classify" => published = vendor
    /\ vendor = NoVendor /\ stage = "validate" =>
          Orderly(published) /\ Replayed(published, cursor, replay, minimum)
    /\ vendor = NoVendor /\ stage = "classify" =>
          Orderly(published) /\ \A i \in DOMAIN published : Done(published[i], minimum)

(***************************************************************************)
(* Picking the laps.                                                       *)
(***************************************************************************)
LEMMA PickRecovers ==
    ASSUME LinkInv, FlyingIsTimed, vendor = NoVendor, NEW timer \in TimerResets
    PROVE  Recovered(Picked(timer))
<1>1. TypeOK /\ laps \in Seq(Laps)
    BY LinkTypes
<1>2. timer \in SUBSET Nat
    BY PublicationAssumption
<1>3. Recovered(TimerLaps(timer))
    BY <1>1, <1>2, TimerRecovers
<1>4. TimerLaps(timer) \in Seq(AllLaps)
    BY <1>3 DEF Recovered
<1>5. Recovered(laps)
    BY WalkRecovers
<1>6. Walked(laps)
    <2>1. ASSUME NEW i \in DOMAIN laps, i > 1 PROVE laps[i].startBoundary # "recording-edge"
        BY <2>1 DEF LinkInv, Chain, Joint
    <2> QED
        BY <1>1, <1>5, <2>1 DEF Walked
<1>7. Recovered(Refined(laps, TimerLaps(timer)))
    BY <1>4, <1>6, RefinedRecovers
<1> QED
    BY <1>3, <1>5, <1>7, Zenon DEF Picked

LEMMA GreaterOfTwo ==
    ASSUME NEW a \in Nat, NEW b \in Nat
    PROVE  Max({a, b}) \in Nat
<1>1. {a, b} \in SUBSET (0 .. a + b) /\ {a, b} # {} /\ a + b \in Nat
    OBVIOUS
<1>2. Max({a, b}) \in {a, b}
    BY <1>1, GreatestMember
<1> QED
    BY <1>2

LEMMA RecoveredReplays ==
    ASSUME NEW ls, Recovered(ls), NEW least
    PROVE  Orderly(ls) /\ Replayed(ls, 1, "initial", least)
<1>1. ls \in Seq(AllLaps) /\ Len(ls) \in Nat /\ DOMAIN ls = 1 .. Len(ls)
    BY DEF Recovered
<1>2. Orderly(ls)
    BY DEF Recovered, Orderly
<1>3. \A i \in DOMAIN ls : ~(i < 1) /\ Honest(ls[i]) /\ (StopsStand => LeavesPits(ls[i]))
    BY <1>1 DEF Recovered
<1>4. \A i \in DOMAIN ls : i > 1 => HandsOver(ls[i - 1], ls[i])
    BY DEF Recovered
<1> QED
    BY <1>1, <1>2, <1>3, <1>4 DEF Replayed

\* Without a bound on lap times nothing is left to validate.
LEMMA HonestIsDone ==
    ASSUME NEW lap \in AllLaps, Honest(lap)
    PROVE  Done(lap, 0)
<1>1. lap.start \in Nat /\ lap.end \in Nat
    BY DEF AllLaps
<1> QED
    BY <1>1 DEF Honest, Done

\* What holds of the laps after a step that leaves the walk as it is.
LEMMA StandsStillStands ==
    ASSUME UNCHANGED <<laps, resets>>
    PROVE  /\ StopsStand' <=> StopsStand
           /\ \A lap : Standing(lap)' <=> Standing(lap)
<1>1. \A lap : Standing(lap)' <=> Standing(lap)
    BY DEF Standing, StationaryAt
<1> QED
    BY <1>1 DEF StopsStand

LEMMA Transfers ==
    ASSUME UNCHANGED <<laps, resets>>, NEW ls, ls = published', NEW at, at = cursor',
           NEW p, p = replay', NEW least, least = minimum'
    PROVE  /\ Replayed(published, cursor, replay, minimum)' <=> Replayed(ls, at, p, least)
           /\ (\A i \in DOMAIN published : Done(published[i], minimum))' <=>
                 \A i \in DOMAIN ls : Done(ls[i], least)
<1> USE StandsStillStands
<1>1. \A lap, n : Done(lap, n)' <=> Done(lap, n)
    BY DEF Done
<1>2. \A lap : LeavesPits(lap)' <=> LeavesPits(lap)
    BY DEF LeavesPits
<1> QED
    BY <1>1, <1>2 DEF Replayed

LEMMA PickStep ==
    ASSUME LinkInv, FlyingIsTimed, PublicationInv, Pick
    PROVE  PublicationInv'
<1>1. PICK timer \in TimerResets, physical \in PhysicalMinimums :
         /\ published' = Picked(timer)
         /\ minimum' = Max({physical, recording.reference \div 2})
    BY DEF Pick
<1>2. /\ UNCHANGED <<vars, vendor, replay, cursor>> /\ stage = "recover"
      /\ stage' = IF vendor # NoVendor \/ minimum' = 0 THEN "classify" ELSE "validate"
    BY DEF Pick
<1>3. minimum' \in Nat
    <2>1. recording.reference \in Nat
        BY LinkTypes DEF IsRecording
    <2>2. PICK half : half = recording.reference \div 2
        OBVIOUS
    <2>3. half \in Nat
        BY <2>1, <2>2
    <2>4. physical \in Nat
        BY PublicationAssumption
    <2> QED
        BY <1>1, <2>2, <2>3, <2>4, GreaterOfTwo
<1>4. cursor' = 1 /\ replay' = "initial" /\ vendor' = vendor
    BY <1>2 DEF PublicationInv
<1>5. CASE vendor # NoVendor
    <2>1. published' = vendor
        BY <1>1, <1>5 DEF Picked
    <2>2. stage' = "classify" /\ replay' \in Phases /\ vendor' \in VendorLists
        BY <1>2, <1>4, <1>5 DEF PublicationInv
    <2> QED
        BY <1>3, <1>4, <1>5, <2>1, <2>2 DEF PublicationInv
<1>6. CASE vendor = NoVendor
    <2> PICK least : least = minimum'
        OBVIOUS
    <2> PICK ls : ls = published'
        OBVIOUS
    <2>1. Recovered(ls)
        BY <1>1, <1>6, PickRecovers
    <2>2. Orderly(ls) /\ Replayed(ls, 1, "initial", least)
        BY <2>1, RecoveredReplays
    <2>3. ASSUME least = 0, NEW i \in DOMAIN ls PROVE Done(ls[i], 0)
        <3>1. ls[i] \in AllLaps /\ Honest(ls[i])
            BY <2>1 DEF Recovered
        <3> QED
            BY <3>1, HonestIsDone
    <2>4. /\ Replayed(published, cursor, replay, minimum)'
          /\ least = 0 => (\A i \in DOMAIN published : Done(published[i], minimum))'
        BY <1>2, <1>4, <2>2, <2>3, Transfers DEF vars
    <2> QED
        BY <1>2, <1>3, <1>4, <1>6, <2>2, <2>4 DEF PublicationInv
<1> QED
    BY <1>5, <1>6

(***************************************************************************)
(* Validating a lap.                                                       *)
(***************************************************************************)
\* What ValidateLap makes of a lap that the replay reaches in phase p.
BeforeOf(lap, p) == IF lap.startBoundary \in {"motion-departure", "gps-pit-exit"}
                    THEN NextPhase(p, "departure") ELSE p
Rejects(lap, least) == lap.complete /\ lap.end - lap.start < least
EventOf(lap, least) == IF Rejects(lap, least) THEN "rejected-crossing" ELSE EndEvent(lap)
Relabels(lap, p, least) == Rejects(lap, least) \/ BeforeOf(lap, p) = "uncertain"
Behind(ls, at) == at > 1 /\ ls[at - 1].endBoundary = "rejected-crossing" /\ ls[at].start = ls[at - 1].end

Relabelled(ls, at, p, least) ==
    LET lap == ls[at]
    IN  [lap EXCEPT
            !.startBoundary = IF Behind(ls, at) THEN "rejected-crossing" ELSE @,
            !.endBoundary = IF Rejects(lap, least) THEN "rejected-crossing" ELSE @,
            !.kind = IF Relabels(lap, p, least)
                     THEN OrUncertain(ClosingKind(BeforeOf(lap, p), EventOf(lap, least))) ELSE @,
            !.complete = IF Relabels(lap, p, least) THEN FALSE ELSE @]

LEMMA ValidateLapIs ==
    ValidateLap =>
        /\ stage = "validate" /\ cursor <= Len(published)
        /\ published' = [published EXCEPT ![cursor] = Relabelled(published, cursor, replay, minimum)]
        /\ replay' = NextPhase(BeforeOf(published[cursor], replay), EventOf(published[cursor], minimum))
        /\ cursor' = cursor + 1
        /\ UNCHANGED <<laps, resets, vendor, stage, minimum>>
BY Zenon DEF ValidateLap, Relabelled, Relabels, EventOf, Rejects, BeforeOf, AfterRejection, Behind, vars

LEMMA ReplayPhases ==
    ASSUME NEW lap \in AllLaps, NEW p \in Phases, NEW least
    PROVE  BeforeOf(lap, p) \in Phases /\ EventOf(lap, least) \in Events
<1>1. BeforeOf(lap, p) \in Phases
    BY DEF BeforeOf, NextPhase, Phases
<1>2. EndEvent(lap) \in Events
    BY DEF EndEvent, Events
<1> QED
    BY <1>1, <1>2 DEF EventOf, Events

\* What a lap keeps when its boundaries and its kind are set.
WithFields(lap, s, e, kind, complete) ==
    [lap EXCEPT !.startBoundary = s, !.endBoundary = e, !.kind = kind, !.complete = complete]
LEMMA LapReset ==
    ASSUME NEW lap \in AllLaps, NEW s \in AllBoundaries, NEW e \in AllBoundaries,
           NEW kind \in AllKinds, NEW complete \in BOOLEAN
    PROVE  LET new == WithFields(lap, s, e, kind, complete)
           IN  /\ new \in AllLaps
               /\ new.start = lap.start /\ new.end = lap.end /\ new.stint = lap.stint
               /\ new.startBoundary = s /\ new.endBoundary = e /\ new.kind = kind /\ new.complete = complete
<1> DEFINE u == [lap EXCEPT !.startBoundary = s, !.endBoundary = e]
           new == [u EXCEPT !.kind = kind, !.complete = complete]
<1>1. /\ u \in AllLaps /\ u.start = lap.start /\ u.end = lap.end /\ u.stint = lap.stint
      /\ u.startBoundary = s /\ u.endBoundary = e
    BY DEF AllLaps
<1> HIDE DEF u
<1>2. /\ new \in AllLaps /\ new.start = u.start /\ new.end = u.end /\ new.stint = u.stint
      /\ new.startBoundary = u.startBoundary /\ new.endBoundary = u.endBoundary
      /\ new.kind = kind /\ new.complete = complete
    BY <1>1 DEF AllLaps
<1>3. new = WithFields(lap, s, e, kind, complete)
    BY DEF u, WithFields
<1> HIDE DEF new
<1> QED
    BY <1>1, <1>2, <1>3, Zenon

\* The fields of a validated lap; a relabelled one does not fly.
LEMMA RelabelledIs ==
    ASSUME NEW ls \in Seq(AllLaps), NEW at \in DOMAIN ls, NEW p \in Phases, NEW least
    PROVE  LET lap == ls[at]
               new == Relabelled(ls, at, p, least)
           IN  /\ new \in AllLaps
               /\ new.start = lap.start /\ new.end = lap.end /\ new.stint = lap.stint
               /\ new.startBoundary = IF Behind(ls, at) THEN "rejected-crossing" ELSE lap.startBoundary
               /\ new.endBoundary = IF Rejects(lap, least) THEN "rejected-crossing" ELSE lap.endBoundary
               /\ Relabels(lap, p, least) =>
                     ~new.complete /\ new.kind # "flying" /\ new.kind # "unknown"
               /\ ~Relabels(lap, p, least) =>
                     (new.complete <=> lap.complete) /\ new.kind = lap.kind
<1> PICK lap \in AllLaps : lap = ls[at]
    OBVIOUS
<1> PICK before \in Phases : before = BeforeOf(lap, p)
    BY ReplayPhases
<1> PICK event \in Events : event = EventOf(lap, least)
    BY ReplayPhases
<1> PICK kind : kind = OrUncertain(ClosingKind(before, event))
    OBVIOUS
<1> DEFINE new == [lap EXCEPT
                !.startBoundary = IF Behind(ls, at) THEN "rejected-crossing" ELSE @,
                !.endBoundary = IF Rejects(lap, least) THEN "rejected-crossing" ELSE @,
                !.kind = IF Relabels(lap, p, least) THEN kind ELSE @,
                !.complete = IF Relabels(lap, p, least) THEN FALSE ELSE @]
<1>1. Relabelled(ls, at, p, least) = new
    BY Zenon DEF Relabelled
<1>2. ClosingKind(before, event) \in Kinds \cup {NoKind}
    BY ReducerType
<1>3. kind \in Kinds
    BY <1>2 DEF OrUncertain, Kinds
<1>4. Relabels(lap, p, least) => kind # "flying"
    <2>1. ClosingKind(before, event) = "flying" => before = "on-track" /\ event = "crossing"
        BY ReducerAnchor
    <2>2. Rejects(lap, least) => event = "rejected-crossing"
        BY DEF EventOf
    <2> QED
        BY <2>1, <2>2 DEF Relabels, OrUncertain
<1>5. kind # "unknown"
    BY <1>3 DEF Kinds
<1>6. new \in AllLaps
    <2>1. /\ lap.startBoundary \in AllBoundaries /\ lap.endBoundary \in AllBoundaries
          /\ lap.kind \in AllKinds /\ lap.complete \in BOOLEAN
        BY DEF AllLaps
    <2>2. /\ (IF Behind(ls, at) THEN "rejected-crossing" ELSE lap.startBoundary) \in AllBoundaries
          /\ (IF Rejects(lap, least) THEN "rejected-crossing" ELSE lap.endBoundary) \in AllBoundaries
        BY <2>1 DEF AllBoundaries
    <2>3. (IF Relabels(lap, p, least) THEN kind ELSE lap.kind) \in AllKinds
        BY <1>3, <2>1 DEF AllKinds
    <2>4. (IF Relabels(lap, p, least) THEN FALSE ELSE lap.complete) \in BOOLEAN
        BY <2>1
    <2>5. PICK s \in AllBoundaries, e \in AllBoundaries, kd \in AllKinds, cm \in BOOLEAN :
            /\ s = IF Behind(ls, at) THEN "rejected-crossing" ELSE lap.startBoundary
            /\ e = IF Rejects(lap, least) THEN "rejected-crossing" ELSE lap.endBoundary
            /\ kd = IF Relabels(lap, p, least) THEN kind ELSE lap.kind
            /\ cm = IF Relabels(lap, p, least) THEN FALSE ELSE lap.complete
        BY <2>2, <2>3, <2>4, Zenon
    <2>6. new = WithFields(lap, s, e, kd, cm)
        BY <2>5, Zenon DEF WithFields
    <2>7. WithFields(lap, s, e, kd, cm) \in AllLaps
        BY LapReset, Zenon
    <2> QED
        BY <2>6, <2>7, Zenon
<1>7. /\ new.start = lap.start /\ new.end = lap.end /\ new.stint = lap.stint
      /\ new.startBoundary = IF Behind(ls, at) THEN "rejected-crossing" ELSE lap.startBoundary
      /\ new.endBoundary = IF Rejects(lap, least) THEN "rejected-crossing" ELSE lap.endBoundary
      /\ new.kind = IF Relabels(lap, p, least) THEN kind ELSE lap.kind
    BY DEF AllLaps
<1>8. /\ Relabels(lap, p, least) => ~new.complete
      /\ ~Relabels(lap, p, least) => (new.complete <=> lap.complete)
    BY DEF AllLaps
<1> HIDE DEF new
<1> QED
    BY <1>1, <1>4, <1>5, <1>6, <1>7, <1>8

\* A validated lap is done.
LEMMA RelabelledDone ==
    ASSUME NEW ls \in Seq(AllLaps), NEW at \in DOMAIN ls, NEW p \in Phases, NEW least \in Nat,
           Replayed(ls, at, p, least)
    PROVE  Done(Relabelled(ls, at, p, least), least)
<1> PICK lap \in AllLaps : lap = ls[at]
    OBVIOUS
<1> PICK new : new = Relabelled(ls, at, p, least)
    OBVIOUS
<1>1. /\ new.start = lap.start /\ new.end = lap.end
      /\ new.startBoundary = IF Behind(ls, at) THEN "rejected-crossing" ELSE lap.startBoundary
      /\ new.endBoundary = IF Rejects(lap, least) THEN "rejected-crossing" ELSE lap.endBoundary
      /\ Relabels(lap, p, least) => ~new.complete /\ new.kind # "flying" /\ new.kind # "unknown"
      /\ ~Relabels(lap, p, least) => (new.complete <=> lap.complete) /\ new.kind = lap.kind
    BY RelabelledIs
<1>2. Honest(lap)
    BY DEF Replayed
<1>3. lap.start \in Nat /\ lap.end \in Nat
    BY DEF AllLaps
<1>4. CASE Relabels(lap, p, least)
    <2>1. new.start < new.end
        BY <1>1, <1>2 DEF Honest
    <2> QED
        BY <1>1, <1>4, <2>1 DEF Done
<1>5. CASE ~Relabels(lap, p, least)
    <2>1. ~Rejects(lap, least) /\ BeforeOf(lap, p) # "uncertain"
        BY <1>5 DEF Relabels
    <2>2. new.endBoundary = lap.endBoundary
        BY <1>1, <2>1
    <2>3. new.complete => new.end - new.start >= least
        BY <1>1, <1>3, <1>5, <2>1 DEF Rejects
    <2>4. ASSUME new.complete PROVE new.startBoundary \in TrackAnchors \/ ~StopsStand
        <3>1. lap.startBoundary \in TrackAnchors
            BY <1>1, <1>2, <1>5, <2>4 DEF Honest
        <3>2. BeforeOf(lap, p) = p
            BY <3>1 DEF BeforeOf, TrackAnchors
        <3>3. StopsStand => ~Behind(ls, at)
            BY <2>1, <3>2 DEF Replayed, Behind
        <3> QED
            BY <1>1, <3>1, <3>3
    <2>5. new.complete => new.endBoundary \in TrackAnchors
        BY <1>1, <1>2, <1>5, <2>2 DEF Honest
    <2>6. new.start < new.end /\ (new.kind # "unknown" => (new.complete <=> new.kind = "flying"))
        BY <1>1, <1>2, <1>5 DEF Honest
    <2> QED
        BY <2>3, <2>4, <2>5, <2>6 DEF Done
<1> QED
    BY <1>4, <1>5

\* The replay is in the pits where the next lap starts in them.
LEMMA ReplayStands ==
    ASSUME NEW ls \in Seq(AllLaps), NEW at \in DOMAIN ls, NEW p \in Phases, NEW least \in Nat,
           Replayed(ls, at, p, least), Ascending(ls), StopsStand, at + 1 <= Len(ls),
           NextPhase(BeforeOf(ls[at], p), EventOf(ls[at], least)) \in {"pit", "stopped"}
    PROVE  Standing(ls[at + 1]) \/ ls[at + 1].startBoundary = "motion-departure"
<1> PICK lap \in AllLaps : lap = ls[at]
    OBVIOUS
<1> PICK next : next = at + 1
    OBVIOUS
<1>1. next \in DOMAIN ls /\ next > at /\ next - 1 = at
    OBVIOUS
<1>2. HandsOver(lap, ls[next])
    BY <1>1 DEF Replayed
<1>3. Honest(lap) /\ LeavesPits(lap) /\ lap.endBoundary # "recording-edge"
    <2>1. Honest(lap) /\ LeavesPits(lap)
        BY DEF Replayed
    <2>2. InTurn(lap, ls[next])
        BY <1>1 DEF Ascending
    <2> QED
        BY <2>1, <2>2 DEF InTurn
<1> PICK before \in Phases : before = BeforeOf(lap, p)
    BY ReplayPhases
<1> PICK event \in Events : event = EventOf(lap, least)
    BY ReplayPhases
<1>4. NextPhase(before, event) \in {"pit", "stopped"}
    OBVIOUS
<1>5. CASE before \in {"pit", "stopped"}
    <2>1. p \in {"pit", "stopped"} /\ lap.startBoundary \notin {"motion-departure", "gps-pit-exit"}
        BY <1>5 DEF BeforeOf, NextPhase, Phases, Inactive, Active
    <2>2. Standing(lap)
        BY <2>1 DEF Replayed
    <2>3. lap.endBoundary \in {"motion-departure", "gps-pit-exit"}
        BY <1>3, <2>2 DEF LeavesPits
    <2>4. ~Rejects(lap, least)
        BY <1>3, <2>3 DEF Rejects, Honest, TrackAnchors
    <2>5. event = EndEvent(lap)
        BY <2>4 DEF EventOf
    <2>6. lap.endBoundary # "gps-pit-exit"
        <3>1. lap.endBoundary = "gps-pit-exit" => event = "departure"
            BY <2>5 DEF EndEvent
        <3>2. NextPhase(before, "departure") = "out"
            BY <1>5 DEF NextPhase, Inactive, Active, Phases
        <3> QED
            BY <1>4, <3>1, <3>2
    <2> QED
        BY <1>2, <2>3, <2>6 DEF HandsOver, Carries
<1>6. CASE before \notin {"pit", "stopped"}
    <2>1. event \in {"track-stop", "pit-entry", "reset-stationary"}
        BY <1>4, <1>6 DEF NextPhase, Events, Phases, Inactive, Active
    <2>2. event = EndEvent(lap)
        BY <2>1 DEF EventOf
    <2>3. \/ lap.endBoundary = "gps-pit-entry"
          \/ lap.endBoundary = "counter-reset" /\ StationaryAt(lap.end)
        BY <2>1, <2>2, Zenon DEF EndEvent
    <2>4. ls[next].startBoundary = lap.endBoundary /\ ls[next].start = lap.end
        BY <1>2, <2>3 DEF HandsOver, Carries, EndsStint
    <2> QED
        BY <2>3, <2>4 DEF Standing
<1> QED
    BY <1>5, <1>6

\* A rejected crossing leaves the replay uncertain.
LEMMA ReplayForgets ==
    ASSUME NEW ls \in Seq(AllLaps), NEW at \in DOMAIN ls, NEW p \in Phases, NEW least \in Nat,
           Replayed(ls, at, p, least), StopsStand, Rejects(ls[at], least)
    PROVE  NextPhase(BeforeOf(ls[at], p), EventOf(ls[at], least)) = "uncertain"
<1> PICK lap \in AllLaps : lap = ls[at]
    OBVIOUS
<1>1. lap.startBoundary \in TrackAnchors
    BY DEF Replayed, Honest, Rejects
<1>2. BeforeOf(lap, p) = p /\ EventOf(lap, least) = "rejected-crossing"
    BY <1>1 DEF BeforeOf, EventOf, TrackAnchors
<1>3. ~Standing(lap) /\ lap.startBoundary # "motion-departure"
    BY <1>1 DEF Standing, TrackAnchors
<1>4. p \notin {"pit", "stopped"}
    BY <1>3 DEF Replayed
<1> QED
    BY <1>2, <1>4 DEF NextPhase

LEMMA ReplayGoesOn ==
    ASSUME NEW ls, Orderly(ls), NEW at \in Nat, at <= Len(ls), NEW p \in Phases, NEW least \in Nat,
           Replayed(ls, at, p, least)
    PROVE  LET new == Relabelled(ls, at, p, least)
               more == [ls EXCEPT ![at] = new]
           IN  /\ Orderly(more)
               /\ Replayed(more, at + 1, NextPhase(BeforeOf(ls[at], p), EventOf(ls[at], least)), least)
<1> PICK new : new = Relabelled(ls, at, p, least)
    OBVIOUS
<1> PICK more : more = [ls EXCEPT ![at] = new]
    OBVIOUS
<1> PICK q : q = NextPhase(BeforeOf(ls[at], p), EventOf(ls[at], least))
    OBVIOUS
<1>1. /\ ls \in Seq(AllLaps) /\ Len(ls) \in Nat /\ DOMAIN ls = 1 .. Len(ls) /\ at \in DOMAIN ls
      /\ Ascending(ls) /\ Numbered(ls)
    BY DEF Orderly, Replayed
<1>2. /\ new \in AllLaps
      /\ new.start = ls[at].start /\ new.end = ls[at].end /\ new.stint = ls[at].stint
      /\ new.endBoundary = IF Rejects(ls[at], least) THEN "rejected-crossing" ELSE ls[at].endBoundary
    BY <1>1, RelabelledIs
<1>3. /\ more \in Seq(AllLaps) /\ Len(more) = Len(ls) /\ DOMAIN more = DOMAIN ls
      /\ more[at] = new /\ \A i \in DOMAIN ls : i # at => more[i] = ls[i]
    BY <1>1, <1>2
<1>4. ASSUME NEW i \in DOMAIN ls
      PROVE  /\ more[i].start = ls[i].start /\ more[i].end = ls[i].end /\ more[i].stint = ls[i].stint
             /\ more[i].endBoundary = ls[i].endBoundary \/ more[i].endBoundary = "rejected-crossing"
    BY <1>2, <1>3
<1>5. Orderly(more)
    <2>1. ASSUME NEW i \in DOMAIN ls, NEW j \in DOMAIN ls, i < j PROVE InTurn(more[i], more[j])
        <3>1. InTurn(ls[i], ls[j])
            BY <1>1, <2>1 DEF Ascending
        <3> QED
            BY <1>4, <3>1 DEF InTurn, EndsStint
    <2>2. Ascending(more)
        BY <1>3, <2>1 DEF Ascending
    <2>3. Numbered(more)
        BY <1>1, <1>3, <1>4 DEF Numbered, EndsStint
    <2> QED
        BY <1>3, <2>2, <2>3 DEF Orderly
<1>6. ASSUME NEW i \in DOMAIN more, i < at + 1 PROVE Done(more[i], least)
    <2>1. CASE i = at
        BY <1>1, <1>3, <2>1, RelabelledDone
    <2>2. CASE i # at
        <3>1. i < at /\ i \in DOMAIN ls
            BY <1>1, <1>3, <1>6, <2>2
        <3> QED
            BY <1>3, <2>2, <3>1 DEF Replayed
    <2> QED
        BY <2>1, <2>2
<1>7. ASSUME NEW i \in DOMAIN more, ~(i < at + 1)
      PROVE  Honest(more[i]) /\ (StopsStand => LeavesPits(more[i]))
    <2>1. i # at /\ ~(i < at) /\ i \in DOMAIN ls
        BY <1>1, <1>3, <1>7
    <2> QED
        BY <1>3, <2>1 DEF Replayed
<1>8. ASSUME NEW i \in DOMAIN more, i > at + 1 PROVE HandsOver(more[i - 1], more[i])
    <2>1. i # at /\ i > at /\ i - 1 # at /\ i - 1 \in DOMAIN ls /\ i \in DOMAIN ls
        BY <1>1, <1>3, <1>8
    <2> QED
        BY <1>3, <2>1 DEF Replayed
<1>9. ASSUME StopsStand, at + 1 <= Len(more), q \in {"pit", "stopped"}
      PROVE  Standing(more[at + 1]) \/ more[at + 1].startBoundary = "motion-departure"
    <2>1. at + 1 \in DOMAIN ls /\ at + 1 # at
        BY <1>1, <1>3, <1>9
    <2>2. more[at + 1] = ls[at + 1]
        BY <1>3, <2>1
    <2> QED
        BY <1>1, <1>3, <1>9, <2>2, ReplayStands
<1>10. ASSUME StopsStand, more[(at + 1) - 1].endBoundary = "rejected-crossing" PROVE q = "uncertain"
    <2>1. (at + 1) - 1 = at
        OBVIOUS
    <2>2. ls[at].endBoundary # "rejected-crossing"
        BY <1>1 DEF Replayed, Honest
    <2>3. Rejects(ls[at], least)
        BY <1>2, <1>3, <1>10, <2>1, <2>2
    <2> QED
        BY <1>1, <1>10, <2>3, ReplayForgets
<1>11. at + 1 \in 1 .. Len(more) + 1
    BY <1>1, <1>3
<1>12. Replayed(more, at + 1, q, least)
    BY <1>6, <1>7, <1>8, <1>9, <1>10, <1>11 DEF Replayed
<1> QED
    BY <1>5, <1>12

(***************************************************************************)
(* The steps.                                                              *)
(***************************************************************************)
LEMMA PublicationInit == PInit => PublicationInv
BY DEF PInit, PublicationInv, Phases

LEMMA ValidateStep ==
    ASSUME PublicationInv, ValidateLap
    PROVE  PublicationInv'
<1>1. /\ stage = "validate" /\ cursor <= Len(published)
      /\ published' = [published EXCEPT ![cursor] = Relabelled(published, cursor, replay, minimum)]
      /\ replay' = NextPhase(BeforeOf(published[cursor], replay), EventOf(published[cursor], minimum))
      /\ cursor' = cursor + 1
      /\ UNCHANGED <<laps, resets, vendor, stage, minimum>>
    BY ValidateLapIs
<1>2. vendor = NoVendor /\ replay \in Phases /\ minimum \in Nat
    BY <1>1 DEF PublicationInv
<1>3. Orderly(published) /\ Replayed(published, cursor, replay, minimum)
    BY <1>1, <1>2 DEF PublicationInv
<1>4. published \in Seq(AllLaps) /\ cursor \in Nat /\ cursor \in DOMAIN published
    BY <1>1, <1>3 DEF Orderly, Replayed
<1> PICK more : more = published'
    OBVIOUS
<1> PICK q : q = replay'
    OBVIOUS
<1>5. Orderly(more) /\ Replayed(more, cursor + 1, q, minimum)
    BY <1>1, <1>2, <1>3, <1>4, ReplayGoesOn
<1>6. Replayed(published, cursor, replay, minimum)'
    BY <1>1, <1>5, Transfers
<1>7. q \in Phases
    <2>1. PICK lap \in AllLaps : lap = published[cursor]
        BY <1>4
    <2>2. BeforeOf(lap, replay) \in Phases /\ EventOf(lap, minimum) \in Events
        BY <1>2, ReplayPhases
    <2> QED
        BY <1>1, <2>1, <2>2, ReducerType
<1>8. Orderly(published)'
    BY <1>5 DEF Orderly, Ascending, Numbered
<1> QED
    BY <1>1, <1>2, <1>6, <1>7, <1>8 DEF PublicationInv

LEMMA ValidatedStep ==
    ASSUME PublicationInv, Validated
    PROVE  PublicationInv'
<1>1. /\ stage = "validate" /\ cursor > Len(published) /\ stage' = "classify"
      /\ UNCHANGED <<laps, resets, vendor, published, minimum, replay, cursor>>
    BY DEF Validated, vars
<1>2. vendor = NoVendor /\ Orderly(published) /\ Replayed(published, cursor, replay, minimum)
    BY <1>1 DEF PublicationInv
<1>3. Len(published) \in Nat /\ DOMAIN published = 1 .. Len(published) /\ cursor \in Nat
    BY <1>2 DEF Orderly, Replayed
<1>4. ASSUME NEW i \in DOMAIN published PROVE Done(published[i], minimum)
    <2>1. i < cursor
        BY <1>1, <1>3
    <2> QED
        BY <1>2, <2>1 DEF Replayed
<1> PICK ls : ls = published'
    OBVIOUS
<1>5. \A i \in DOMAIN ls : Done(ls[i], minimum)
    BY <1>1, <1>4
<1>6. (\A i \in DOMAIN published : Done(published[i], minimum))'
    BY <1>1, <1>5, Transfers
<1>7. Orderly(published)'
    BY <1>1, <1>2 DEF Orderly, Ascending, Numbered
<1> QED
    BY <1>1, <1>2, <1>6, <1>7 DEF PublicationInv

LEMMA StillPublication ==
    ASSUME PublicationInv, UNCHANGED allVars
    PROVE  PublicationInv'
<1>1. UNCHANGED <<laps, resets, vendor, stage, published, minimum, replay, cursor>>
    BY DEF allVars, vars, pvars
<1> PICK ls : ls = published'
    OBVIOUS
<1>2. /\ Replayed(published, cursor, replay, minimum)' <=> Replayed(ls, cursor, replay, minimum)
      /\ (\A i \in DOMAIN published : Done(published[i], minimum))' <=>
            \A i \in DOMAIN ls : Done(ls[i], minimum)
    BY <1>1, Transfers
<1>3. Orderly(published)' <=> Orderly(published)
    BY <1>1 DEF Orderly, Ascending, Numbered
<1> QED
    BY <1>1, <1>2, <1>3 DEF PublicationInv

LEMMA PublicationStep ==
    ASSUME LinkInv, FlyingIsTimed, PublicationInv, [PNext]_allVars
    PROVE  PublicationInv'
<1>1. CASE Walk
    BY <1>1 DEF Walk, pvars, PublicationInv
<1>2. CASE Pick
    BY <1>2, PickStep
<1>3. CASE ValidateLap
    BY <1>3, ValidateStep
<1>4. CASE Validated
    BY <1>4, ValidatedStep
<1>5. CASE Classify
    BY <1>5 DEF Classify, PublicationInv
<1>6. CASE UNCHANGED allVars
    BY <1>6, StillPublication
<1> QED
    BY <1>1, <1>2, <1>3, <1>4, <1>5, <1>6 DEF PNext

LEMMA PublicationInvariant == PSpec => [](LinkInv /\ FlyingIsTimed /\ PublicationInv)
<1>1. PSpec => []LinkInv /\ []FlyingIsTimed
    BY PublicationWalks, LinkInvariant, FlyingLapsTimed, PTL
<1> QED
    BY <1>1, PublicationInit, PublicationStep, PTL DEF PSpec

(***************************************************************************)
(* Sorting the laps.                                                       *)
(***************************************************************************)
\* List a is list ls, rearranged so that earlier laps come first.
Rearranged(ls, a, order) ==
    /\ a \in Seq(AllLaps) /\ Len(a) = Len(ls)
    /\ \A k \in 1 .. Len(ls) : order[k] \in 1 .. Len(ls) /\ a[k] = ls[order[k]]
    /\ \A j, k \in 1 .. Len(ls) : j < k => Precedes(ls, order[j], order[k])
    /\ \A i \in 1 .. Len(ls) : \E k \in 1 .. Len(ls) : order[k] = i

LEMMA IntervalSize ==
    ASSUME NEW n \in Nat
    PROVE  IsFiniteSet(1 .. n) /\ Cardinality(1 .. n) = n
<1>1. IsFiniteSet(1 .. n) /\ Cardinality(1 .. n) = IF 1 > n THEN 0 ELSE n - 1 + 1
    BY FS_Interval
<1> QED
    BY <1>1

LEMMA InOrderRearranges ==
    ASSUME NEW ls \in Seq(AllLaps)
    PROVE  \E order : Rearranged(ls, InOrder(ls), order)
<1> DEFINE places == DOMAIN ls
           R == {p \in places \X places : Precedes(ls, p[1], p[2])}
<1> PICK order : order = Sorted(places, R)
    OBVIOUS
<1> PICK n \in Nat : n = Len(ls) /\ places = 1 .. n
    OBVIOUS
<1>1. \A i \in places : ls[i] \in AllLaps
    OBVIOUS
<1>2. \A i \in places : ls[i].start \in Nat /\ ls[i].end \in Nat
    BY <1>1 DEF AllLaps
<1>3. StrictOrder(places, R)
    <2> HIDE DEF places
    <2>1. \A i, j \in places : <<i, j>> \in R <=> Precedes(ls, i, j)
        OBVIOUS
    <2> HIDE DEF R
    <2>2. \A i \in places : i \in Nat
        OBVIOUS
    <2>3. \A i \in places : ~Precedes(ls, i, i)
        BY <1>2, <2>2 DEF Precedes
    <2>4. \A i, j \in places : i # j => Precedes(ls, i, j) \/ Precedes(ls, j, i)
        BY <1>2, <2>2 DEF Precedes
    <2>5. \A i, j, k \in places : Precedes(ls, i, j) /\ Precedes(ls, j, k) => Precedes(ls, i, k)
        BY <1>2, <2>2 DEF Precedes
    <2> QED
        BY <2>1, <2>3, <2>4, <2>5 DEF StrictOrder
<1>4. IsFiniteSet(places) /\ Cardinality(places) = n
    <2> HIDE DEF places
    <2> QED
        BY IntervalSize
<1>5. Arranged(places, R, order)
    <2> HIDE DEF places, R
    <2> QED
        BY <1>3, <1>4, SortedArranges
<1>6. InOrder(ls) = [k \in places |-> ls[order[k]]]
    BY DEF InOrder
<1>7. /\ order \in [1 .. n -> 1 .. n]
      /\ \A j, k \in 1 .. n : j < k => <<order[j], order[k]>> \in R
      /\ \A i \in 1 .. n : \E k \in 1 .. n : order[k] = i
    <2> HIDE DEF places, R
    <2> QED
        BY <1>4, <1>5 DEF Arranged
<1>8. \A j, k \in 1 .. n : j < k => Precedes(ls, order[j], order[k])
    BY <1>7
<1>9. InOrder(ls) \in [1 .. n -> AllLaps] /\ \A k \in 1 .. n : InOrder(ls)[k] = ls[order[k]]
    <2> DEFINE a == [k \in 1 .. n |-> ls[order[k]]]
    <2>1. ASSUME NEW k \in 1 .. n PROVE ls[order[k]] \in AllLaps
        <3>1. order[k] \in places
            BY <1>7
        <3> QED
            BY <1>1, <3>1
    <2>2. a \in [1 .. n -> AllLaps] /\ \A k \in 1 .. n : a[k] = ls[order[k]]
        BY <2>1
    <2>3. InOrder(ls) = a
        <3> HIDE DEF R
        <3> QED
            BY <1>6
    <2> HIDE DEF a
    <2> QED
        BY <2>2, <2>3
<1>10. InOrder(ls) \in Seq(AllLaps) /\ Len(InOrder(ls)) = n
    <2> PICK a : a = InOrder(ls)
        OBVIOUS
    <2> QED
        BY <1>9
<1>11. Rearranged(ls, InOrder(ls), order)
    BY <1>7, <1>8, <1>9, <1>10 DEF Rearranged
<1> QED
    BY <1>11

\* Laps that do not overlap come out one after the other.
LEMMA RearrangedApart ==
    ASSUME NEW ls \in Seq(AllLaps), NEW a, NEW order, Rearranged(ls, a, order),
           Disjoint(ls), \A i \in DOMAIN ls : ls[i].start < ls[i].end
    PROVE  \A j, k \in 1 .. Len(a) : j < k => a[j].end <= a[k].start
<1>1. Len(ls) \in Nat /\ DOMAIN ls = 1 .. Len(ls) /\ Len(a) = Len(ls)
    BY DEF Rearranged
<1>2. \A i \in DOMAIN ls : ls[i].start \in Nat /\ ls[i].end \in Nat
    <2>1. \A i \in DOMAIN ls : ls[i] \in AllLaps
        OBVIOUS
    <2> QED
        BY <2>1 DEF AllLaps
<1> SUFFICES ASSUME NEW j \in 1 .. Len(a), NEW k \in 1 .. Len(a), j < k
             PROVE  a[j].end <= a[k].start
    OBVIOUS
<1> PICK p : p = order[j]
    OBVIOUS
<1> PICK q : q = order[k]
    OBVIOUS
<1>3. p \in DOMAIN ls /\ q \in DOMAIN ls /\ a[j] = ls[p] /\ a[k] = ls[q] /\ Precedes(ls, p, q)
    BY <1>1 DEF Rearranged
<1>4. p # q /\ ls[p].start <= ls[q].start
    BY <1>1, <1>2, <1>3 DEF Precedes
<1>5. ls[p].end <= ls[q].start \/ ls[q].end <= ls[p].start
    BY <1>3, <1>4 DEF Disjoint
<1> QED
    BY <1>2, <1>3, <1>4, <1>5

\* Recovered laps do not overlap, and are in order as they are.
LEMMA AscendingApart ==
    ASSUME NEW ls \in Seq(AllLaps), Ascending(ls)
    PROVE  Disjoint(ls)
<1>1. \A i \in DOMAIN ls : i \in Nat
    OBVIOUS
<1>2. ASSUME NEW i \in DOMAIN ls, NEW j \in DOMAIN ls, i # j
      PROVE  ls[i].end <= ls[j].start \/ ls[j].end <= ls[i].start
    <2>1. i < j \/ j < i
        BY <1>1, <1>2
    <2> QED
        BY <2>1 DEF Ascending, InTurn
<1> QED
    BY <1>2 DEF Disjoint

LEMMA RearrangedAscends ==
    ASSUME NEW ls \in Seq(AllLaps), NEW a, NEW order, Rearranged(ls, a, order),
           Ascending(ls), \A i \in DOMAIN ls : ls[i].start < ls[i].end
    PROVE  Ascending(a)
<1>1. Len(ls) \in Nat /\ DOMAIN ls = 1 .. Len(ls) /\ Len(a) = Len(ls) /\ DOMAIN a = 1 .. Len(a)
    BY DEF Rearranged
<1>2. \A i \in DOMAIN ls : ls[i].start \in Nat /\ ls[i].end \in Nat
    <2>1. \A i \in DOMAIN ls : ls[i] \in AllLaps
        OBVIOUS
    <2> QED
        BY <2>1 DEF AllLaps
<1>3. ASSUME NEW j \in DOMAIN a, NEW k \in DOMAIN a, j < k PROVE InTurn(a[j], a[k])
    <2> PICK p : p = order[j]
        OBVIOUS
    <2> PICK q : q = order[k]
        OBVIOUS
    <2>1. p \in DOMAIN ls /\ q \in DOMAIN ls /\ a[j] = ls[p] /\ a[k] = ls[q] /\ Precedes(ls, p, q)
        BY <1>1, <1>3 DEF Rearranged
    <2>2. p # q /\ ls[p].start <= ls[q].start
        BY <1>1, <1>2, <2>1 DEF Precedes
    <2>3. ~(q < p)
        <3>1. ASSUME q < p PROVE ls[q].end <= ls[p].start
            BY <2>1, <3>1 DEF Ascending, InTurn
        <3> QED
            BY <1>2, <2>1, <2>2, <3>1
    <2>4. p < q
        BY <1>1, <2>1, <2>2, <2>3
    <2> QED
        BY <2>1, <2>4 DEF Ascending
<1> QED
    BY <1>3 DEF Ascending

(***************************************************************************)
(* Stints and kinds.                                                       *)
(***************************************************************************)
LEMMA CountGrows ==
    ASSUME NEW S, NEW i \in Nat, NEW j \in Nat, i <= j
    PROVE  LET count(n) == Cardinality({m \in 2 .. n : m \in S})
           IN  /\ count(i) \in Nat /\ count(j) \in Nat /\ count(i) <= count(j)
               /\ i < j /\ 2 <= j /\ j \in S => count(i) < count(j)
<1> DEFINE C(n) == {m \in 2 .. n : m \in S}
<1>1. ASSUME NEW n \in Nat PROVE IsFiniteSet(C(n))
    <2>1. IsFiniteSet(2 .. n)
        BY FS_Interval
    <2>2. C(n) \in SUBSET (2 .. n)
        OBVIOUS
    <2> HIDE DEF C
    <2> QED
        BY <2>1, <2>2, FS_Subset
<1>2. C(i) \in SUBSET C(j)
    OBVIOUS
<1>3. i < j /\ 2 <= j /\ j \in S => C(i) # C(j)
    <2>1. j \notin C(i) \/ j <= i
        OBVIOUS
    <2>2. 2 <= j /\ j \in S => j \in C(j)
        OBVIOUS
    <2> HIDE DEF C
    <2> QED
        BY <2>1, <2>2
<1> HIDE DEF C
<1>4. Cardinality(C(i)) \in Nat /\ Cardinality(C(j)) \in Nat
    BY <1>1, FS_CardinalityType
<1>5. Cardinality(C(i)) <= Cardinality(C(j)) /\ (Cardinality(C(i)) = Cardinality(C(j)) => C(i) = C(j))
    <2>1. IsFiniteSet(C(j))
        BY <1>1
    <2> QED
        BY <1>2, <2>1, FS_Subset
<1>6. i < j /\ 2 <= j /\ j \in S => Cardinality(C(i)) < Cardinality(C(j))
    BY <1>3, <1>4, <1>5
<1> QED
    BY <1>4, <1>5, <1>6 DEF C

\* The list, but for the stints of its laps.
OnlyStints(a, b) ==
    /\ b \in Seq(AllLaps) /\ Len(b) = Len(a)
    /\ \A i \in 1 .. Len(a) :
          /\ b[i].start = a[i].start /\ b[i].end = a[i].end
          /\ b[i].kind = a[i].kind /\ (b[i].complete <=> a[i].complete)
          /\ b[i].startBoundary = a[i].startBoundary /\ b[i].endBoundary = a[i].endBoundary

StintsGrow(ls) == \A i, j \in 1 .. Len(ls) : i <= j => ls[i].stint <= ls[j].stint

SetStints(a, n, b) == b = [i \in DOMAIN a |-> [a[i] EXCEPT !.stint = n[i]]]

LEMMA StintSet ==
    ASSUME NEW a \in Seq(AllLaps), NEW n \in [1 .. Len(a) -> Nat], NEW b, SetStints(a, n, b)
    PROVE  OnlyStints(a, b) /\ \A i \in 1 .. Len(a) : b[i].stint = n[i]
<1> PICK len \in Nat : len = Len(a) /\ DOMAIN a = 1 .. len /\ n \in [1 .. len -> Nat]
    OBVIOUS
<1>1. ASSUME NEW i \in 1 .. len
      PROVE  /\ b[i] \in AllLaps /\ b[i].stint = n[i]
             /\ b[i].start = a[i].start /\ b[i].end = a[i].end
             /\ b[i].kind = a[i].kind /\ (b[i].complete <=> a[i].complete)
             /\ b[i].startBoundary = a[i].startBoundary /\ b[i].endBoundary = a[i].endBoundary
    <2>1. PICK lap \in AllLaps : lap = a[i]
        OBVIOUS
    <2>2. PICK m \in Nat : m = n[i]
        OBVIOUS
    <2>3. b[i] = [lap EXCEPT !.stint = m]
        BY <2>1, <2>2 DEF SetStints
    <2>4. PICK new : new = [lap EXCEPT !.stint = m]
        OBVIOUS
    <2>5. /\ new \in AllLaps /\ new.stint = m /\ new.start = lap.start /\ new.end = lap.end
          /\ new.kind = lap.kind /\ new.complete = lap.complete
          /\ new.startBoundary = lap.startBoundary /\ new.endBoundary = lap.endBoundary
        BY <2>4 DEF AllLaps
    <2>6. b[i] = new
        BY <2>3, <2>4, Zenon
    <2> QED
        BY <2>1, <2>2, <2>5, <2>6, Zenon
<1>2. b = [i \in 1 .. len |-> b[i]]
    BY DEF SetStints
<1>3. b \in [1 .. len -> AllLaps]
    BY <1>1, <1>2
<1>4. b \in Seq(AllLaps) /\ Len(b) = len
    BY <1>3
<1> QED
    BY <1>1, <1>4 DEF OnlyStints

\* Where a source or the walk numbered all stints, they advance; where not, they
\* are counted.
LEMMA StintsAssigned ==
    ASSUME NEW a \in Seq(AllLaps)
    PROVE  /\ OnlyStints(a, WithStints(a))
           /\ ((\A i \in DOMAIN a : a[i].stint # 0) => StintsGrow(a)) => StintsGrow(WithStints(a))
           /\ (\A i \in DOMAIN a : a[i].stint # 0) => WithStints(a) = a
<1> DEFINE splits(i) == \/ a[i].start > a[i - 1].end + StintGap
                        \/ ~a[i - 1].complete /\ ~a[i].complete
                        \/ a[i - 1].complete /\ a[i - 1].kind = "pit"
           stintOf(i) == 1 + Cardinality({j \in 2 .. i : splits(j)})
           w == [i \in DOMAIN a |-> [a[i] EXCEPT !.stint = stintOf(i)]]
<1>1. WithStints(a) = IF \E i \in DOMAIN a : a[i].stint = 0 THEN w ELSE a
    BY Zenon DEF WithStints
<1>2. CASE ~\E i \in DOMAIN a : a[i].stint = 0
    <2>1. WithStints(a) = a
        BY <1>1, <1>2, Zenon
    <2>2. OnlyStints(a, a)
        BY DEF OnlyStints
    <2> QED
        BY <1>2, <2>1, <2>2
<1>3. CASE \E i \in DOMAIN a : a[i].stint = 0
    <2> DEFINE S == {j \in Nat : splits(j)}
               n == [i \in 1 .. Len(a) |-> stintOf(i)]
    <2>1. ASSUME NEW i \in Nat PROVE {j \in 2 .. i : splits(j)} = {j \in 2 .. i : j \in S}
        <3> HIDE DEF splits
        <3> QED
            OBVIOUS
    <2> HIDE DEF splits, S
    <2>2. ASSUME NEW i \in Nat, NEW j \in Nat, i <= j
          PROVE  stintOf(i) \in Nat /\ stintOf(j) \in Nat /\ stintOf(i) <= stintOf(j)
        <3>1. LET count(k) == Cardinality({m \in 2 .. k : m \in S})
              IN  count(i) \in Nat /\ count(j) \in Nat /\ count(i) <= count(j)
            BY <2>2, CountGrows
        <3>2. /\ stintOf(i) = 1 + Cardinality({m \in 2 .. i : m \in S})
              /\ stintOf(j) = 1 + Cardinality({m \in 2 .. j : m \in S})
            BY <2>1
        <3> HIDE DEF stintOf
        <3> QED
            BY <3>1, <3>2
    <2> HIDE DEF stintOf
    <2>3. Len(a) \in Nat /\ DOMAIN a = 1 .. Len(a)
        OBVIOUS
    <2>4. ASSUME NEW i \in 1 .. Len(a) PROVE stintOf(i) \in Nat
        BY <2>2
    <2>5. n \in [1 .. Len(a) -> Nat] /\ \A i \in 1 .. Len(a) : n[i] = stintOf(i)
        BY <2>4
    <2> HIDE DEF n
    <2>6. SetStints(a, n, w)
        BY <2>3, <2>5 DEF SetStints
    <2> HIDE DEF w
    <2>7. OnlyStints(a, w) /\ \A i \in 1 .. Len(a) : w[i].stint = n[i]
        BY <2>5, <2>6, StintSet
    <2>8. StintsGrow(w)
        <3>1. Len(w) = Len(a)
            BY <2>7 DEF OnlyStints
        <3>2. ASSUME NEW i \in 1 .. Len(a), NEW j \in 1 .. Len(a), i <= j PROVE w[i].stint <= w[j].stint
            <4>1. i \in Nat /\ j \in Nat
                OBVIOUS
            <4> QED
                BY <2>2, <2>5, <2>7, <3>2, <4>1
        <3> QED
            BY <3>1, <3>2 DEF StintsGrow
    <2>9. WithStints(a) = w
        BY <1>1, <1>3, Zenon
    <2> QED
        BY <1>3, <2>7, <2>8, <2>9
<1> QED
    BY <1>2, <1>3

\* A complete pit lap closes its stint.
LEMMA StintsBumped ==
    ASSUME NEW a \in Seq(AllLaps)
    PROVE  LET b == WithBumps(a)
           IN  /\ OnlyStints(a, b)
               /\ StintsGrow(a) =>
                    /\ StintsGrow(b)
                    /\ \A i, j \in 1 .. Len(a) : i < j /\ a[i].stint < a[j].stint =>
                          b[i].stint < b[j].stint
                    /\ \A i \in 2 .. Len(a) : a[i - 1].kind = "pit" /\ a[i - 1].complete =>
                          b[i - 1].stint < b[i].stint
<1> DEFINE bumps(i) == /\ a[i - 1].kind = "pit" /\ a[i - 1].complete
                       /\ a[i].stint = a[i - 1].stint
           S == {j \in Nat : bumps(j)}
           count(i) == Cardinality({j \in 2 .. i : bumps(j)})
           n == [i \in 1 .. Len(a) |-> a[i].stint + count(i)]
<1> PICK b : b = WithBumps(a)
    OBVIOUS
<1>1. b = [i \in DOMAIN a |-> [a[i] EXCEPT !.stint = @ + count(i)]]
    BY Zenon DEF WithBumps
<1>2. ASSUME NEW i \in Nat, NEW j \in Nat, i <= j
      PROVE  /\ count(i) \in Nat /\ count(j) \in Nat /\ count(i) <= count(j)
             /\ i < j /\ 2 <= j /\ bumps(j) => count(i) < count(j)
    <2>1. \A k \in Nat : k \in S <=> bumps(k)
        BY Zenon
    <2>2. ASSUME NEW k \in Nat PROVE {m \in 2 .. k : bumps(m)} = {m \in 2 .. k : m \in S}
        <3> HIDE DEF bumps
        <3> QED
            OBVIOUS
    <2> HIDE DEF bumps, S
    <2>3. LET c(k) == Cardinality({m \in 2 .. k : m \in S})
          IN  /\ c(i) \in Nat /\ c(j) \in Nat /\ c(i) <= c(j)
              /\ i < j /\ 2 <= j /\ j \in S => c(i) < c(j)
        BY <1>2, CountGrows
    <2> QED
        BY <2>1, <2>2, <2>3
<1> HIDE DEF count
<1>3. Len(a) \in Nat /\ DOMAIN a = 1 .. Len(a)
    OBVIOUS
<1>4. ASSUME NEW i \in 1 .. Len(a) PROVE a[i].stint \in Nat /\ count(i) \in Nat
    <2>1. a[i] \in AllLaps
        BY <1>3
    <2>2. a[i].stint \in Nat
        BY <2>1 DEF AllLaps
    <2>3. i \in Nat /\ i <= i
        OBVIOUS
    <2>4. count(i) \in Nat
        BY <1>2, <2>3
    <2> QED
        BY <2>2, <2>4
<1>5. n \in [1 .. Len(a) -> Nat] /\ \A i \in 1 .. Len(a) : n[i] = a[i].stint + count(i)
    BY <1>4
<1> HIDE DEF n
<1>6. SetStints(a, n, b)
    BY <1>1, <1>3, <1>5 DEF SetStints
<1>7. OnlyStints(a, b) /\ \A i \in 1 .. Len(a) : b[i].stint = a[i].stint + count(i)
    BY <1>5, <1>6, StintSet
<1>8. ASSUME StintsGrow(a), NEW i \in 1 .. Len(a), NEW j \in 1 .. Len(a), i <= j
      PROVE  /\ b[i].stint <= b[j].stint
             /\ a[i].stint < a[j].stint => b[i].stint < b[j].stint
             /\ i < j /\ 2 <= j /\ bumps(j) => b[i].stint < b[j].stint
    <2>1. i \in Nat /\ j \in Nat
        OBVIOUS
    <2>2. count(i) <= count(j) /\ (i < j /\ 2 <= j /\ bumps(j) => count(i) < count(j))
        BY <1>2, <1>8, <2>1
    <2>3. a[i].stint <= a[j].stint
        BY <1>8 DEF StintsGrow
    <2> HIDE DEF bumps
    <2>4. /\ a[i].stint \in Nat /\ a[j].stint \in Nat /\ count(i) \in Nat /\ count(j) \in Nat
          /\ b[i].stint = a[i].stint + count(i) /\ b[j].stint = a[j].stint + count(j)
        BY <1>4, <1>7
    <2>5. PICK x \in Nat, y \in Nat, m \in Nat, k \in Nat :
            x = a[i].stint /\ y = a[j].stint /\ m = count(i) /\ k = count(j)
        BY <2>4, Zenon
    <2>6. x <= y /\ m <= k /\ (i < j /\ 2 <= j /\ bumps(j) => m < k)
        BY <2>2, <2>3, <2>5, Zenon
    <2>7. b[i].stint = x + m /\ b[j].stint = y + k
        BY <2>4, <2>5, Zenon
    <2>8. x + m <= y + k /\ (x < y => x + m < y + k) /\ (m < k => x + m < y + k)
        BY <2>6
    <2> QED
        BY <2>5, <2>6, <2>7, <2>8, Zenon
<1>9. ASSUME StintsGrow(a), NEW i \in 2 .. Len(a), a[i - 1].kind = "pit", a[i - 1].complete
      PROVE  b[i - 1].stint < b[i].stint
    <2>1. i \in 1 .. Len(a) /\ i - 1 \in 1 .. Len(a) /\ i - 1 <= i /\ i - 1 < i /\ 2 <= i
        BY <1>3
    <2>2. a[i - 1].stint <= a[i].stint
        BY <1>9, <2>1 DEF StintsGrow
    <2>3. a[i - 1].stint < a[i].stint \/ bumps(i)
        BY <1>4, <1>9, <2>1, <2>2
    <2> HIDE DEF bumps
    <2> QED
        BY <1>8, <1>9, <2>1, <2>3
<1>10. StintsGrow(a) => StintsGrow(b)
    BY <1>7, <1>8 DEF StintsGrow, OnlyStints
<1> QED
    BY <1>7, <1>8, <1>9, <1>10

\* What the evidence makes of one lap's kind.
LEMMA KindFacts ==
    ASSUME NEW a \in Seq(AllLaps), NEW i \in 1 .. Len(a), NEW long, NEW onTrack \in SUBSET long
    PROVE  LET kind == KindOf(a, i, long, onTrack)
           IN  /\ kind \in AllKinds
               /\ kind = "flying" => /\ i \notin long
                                     /\ \/ a[i].kind = "flying"
                                        \/ a[i].kind = "unknown" /\ a[i].complete
               /\ (a[i].kind # "unknown" => (a[i].complete <=> a[i].kind = "flying")) =>
                    /\ a[i].complete => kind \in {"flying", "stopped", "uncertain"}
                    /\ kind = "flying" => a[i].complete
<1> PICK lap \in AllLaps : lap = a[i]
    OBVIOUS
<1> PICK kind : kind = KindOf(a, i, long, onTrack)
    OBVIOUS
<1>1. lap.kind \in AllKinds
    BY DEF AllLaps
<1>2. CASE i \in onTrack
    <2>1. kind = "stopped"
        BY <1>2, Zenon DEF KindOf
    <2> QED
        BY <2>1 DEF AllKinds, Kinds
<1>3. CASE i \notin onTrack /\ lap.kind = "unknown" /\ lap.complete
    <2>1. kind = FlyingUnless(i \in long)
        BY <1>3 DEF KindOf
    <2>2. kind = IF i \in long THEN "uncertain" ELSE "flying"
        BY <2>1 DEF FlyingUnless
    <2> QED
        BY <1>3, <2>2 DEF AllKinds, Kinds
<1>4. CASE i \notin onTrack /\ lap.kind = "unknown" /\ ~lap.complete
    <2>1. kind \in {"out-in", "out", "in"}
        BY <1>4 DEF KindOf
    <2> QED
        BY <1>4, <2>1 DEF AllKinds, Kinds
<1>5. CASE i \notin onTrack /\ lap.kind = "flying"
    <2>1. kind = FlyingUnless(i \in long)
        BY <1>5 DEF KindOf
    <2>2. kind = IF i \in long THEN "uncertain" ELSE "flying"
        BY <2>1 DEF FlyingUnless
    <2> QED
        BY <1>5, <2>2 DEF AllKinds, Kinds
<1>6. CASE i \notin onTrack /\ lap.kind \notin {"unknown", "flying"}
    <2>1. kind = lap.kind
        BY <1>6 DEF KindOf
    <2> QED
        BY <1>1, <1>6, <2>1
<1> QED
    BY <1>2, <1>3, <1>4, <1>5, <1>6

\* The list, but for the kinds of its laps and whether they are complete.
OnlyKinds(a, b) ==
    /\ b \in Seq(AllLaps) /\ Len(b) = Len(a)
    /\ \A i \in 1 .. Len(a) :
          /\ b[i].start = a[i].start /\ b[i].end = a[i].end /\ b[i].stint = a[i].stint
          /\ b[i].startBoundary = a[i].startBoundary /\ b[i].endBoundary = a[i].endBoundary

LEMMA KindsAssigned ==
    ASSUME NEW a \in Seq(AllLaps), NEW long, NEW onTrack \in SUBSET long
    PROVE  LET b == WithKinds(a, long, onTrack)
           IN  /\ OnlyKinds(a, b)
               /\ \A i \in 1 .. Len(a) :
                     /\ b[i].kind = "flying" =>
                           /\ i \notin long
                           /\ a[i].kind = "flying" \/ (a[i].kind = "unknown" /\ a[i].complete)
                           /\ i > 1 => b[i - 1].kind # "stopped"
                     /\ (a[i].kind # "unknown" => (a[i].complete <=> a[i].kind = "flying")) =>
                           (b[i].complete <=> b[i].kind = "flying")
<1> DEFINE kind(i) == KindOf(a, i, long, onTrack)
           unanchored(i) == i > 1 /\ kind(i - 1) = "stopped" /\ kind(i) = "flying"
           lap(i) == [a[i] EXCEPT
                         !.kind = IF unanchored(i) THEN "out" ELSE kind(i),
                         !.complete = IF unanchored(i) \/ kind(i) \in {"stopped", "uncertain"}
                                      THEN FALSE ELSE @]
<1> PICK n \in Nat : n = Len(a) /\ DOMAIN a = 1 .. n
    OBVIOUS
<1> PICK b : b = WithKinds(a, long, onTrack)
    OBVIOUS
<1>1. b = [i \in 1 .. n |-> lap(i)]
    BY DEF WithKinds
<1>2. ASSUME NEW i \in 1 .. n
      PROVE  /\ kind(i) \in AllKinds
             /\ kind(i) = "flying" => /\ i \notin long
                                      /\ a[i].kind = "flying" \/ (a[i].kind = "unknown" /\ a[i].complete)
             /\ (a[i].kind # "unknown" => (a[i].complete <=> a[i].kind = "flying")) =>
                   /\ a[i].complete => kind(i) \in {"flying", "stopped", "uncertain"}
                   /\ kind(i) = "flying" => a[i].complete
    BY KindFacts
<1> HIDE DEF kind
<1>3. ASSUME NEW i \in 1 .. n
      PROVE  /\ b[i] \in AllLaps
             /\ b[i].start = a[i].start /\ b[i].end = a[i].end /\ b[i].stint = a[i].stint
             /\ b[i].startBoundary = a[i].startBoundary /\ b[i].endBoundary = a[i].endBoundary
             /\ b[i].kind = IF unanchored(i) THEN "out" ELSE kind(i)
             /\ b[i].complete <=> /\ a[i].complete /\ ~unanchored(i)
                                  /\ kind(i) \notin {"stopped", "uncertain"}
    <2>1. PICK old \in AllLaps : old = a[i]
        OBVIOUS
    <2>2. PICK k \in AllKinds : k = IF unanchored(i) THEN "out" ELSE kind(i)
        BY <1>2 DEF AllKinds, Kinds
    <2>3. PICK c \in BOOLEAN : c <=> /\ old.complete /\ ~unanchored(i)
                                     /\ kind(i) \notin {"stopped", "uncertain"}
        BY Zenon
    <2>4. old.complete \in BOOLEAN
        BY DEF AllLaps
    <2>5. c = IF unanchored(i) \/ kind(i) \in {"stopped", "uncertain"} THEN FALSE ELSE old.complete
        BY <2>3, <2>4
    <2>6. lap(i) = [old EXCEPT !.kind = k, !.complete = c]
        BY <2>1, <2>2, <2>5
    <2> HIDE DEF unanchored
    <2>7. b[i] = lap(i)
        BY <1>1
    <2> HIDE DEF lap
    <2>8. b[i] = [old EXCEPT !.kind = k, !.complete = c]
        BY <2>6, <2>7
    <2>9. b[i] \in AllLaps
        BY <2>8 DEF AllLaps
    <2>10. /\ b[i].start = old.start /\ b[i].end = old.end /\ b[i].stint = old.stint
           /\ b[i].startBoundary = old.startBoundary /\ b[i].endBoundary = old.endBoundary
           /\ b[i].kind = k /\ b[i].complete = c
        BY <2>8 DEF AllLaps
    <2> QED
        BY <2>1, <2>2, <2>3, <2>9, <2>10
<1> HIDE DEF lap
<1>4. b \in Seq(AllLaps) /\ Len(b) = n
    <2>1. b = [i \in 1 .. n |-> b[i]]
        BY <1>1
    <2>2. b \in [1 .. n -> AllLaps]
        BY <1>3, <2>1
    <2> QED
        BY <2>2
<1>5. OnlyKinds(a, b)
    BY <1>3, <1>4 DEF OnlyKinds
<1>6. ASSUME NEW i \in 1 .. n, b[i].kind = "flying"
      PROVE  /\ i \notin long
             /\ a[i].kind = "flying" \/ (a[i].kind = "unknown" /\ a[i].complete)
             /\ i > 1 => b[i - 1].kind # "stopped"
    <2>1. kind(i) = "flying" /\ ~unanchored(i)
        BY <1>3, <1>6
    <2>2. ASSUME i > 1 PROVE b[i - 1].kind # "stopped"
        <3>1. i - 1 \in 1 .. n /\ kind(i - 1) # "stopped"
            BY <2>1, <2>2
        <3> QED
            BY <1>3, <3>1
    <2> QED
        BY <1>2, <2>1, <2>2
<1>7. ASSUME NEW i \in 1 .. n, a[i].kind # "unknown" => (a[i].complete <=> a[i].kind = "flying")
      PROVE  b[i].complete <=> b[i].kind = "flying"
    <2> HIDE DEF unanchored
    <2>1. unanchored(i) => kind(i) = "flying"
        BY DEF unanchored
    <2> QED
        BY <1>2, <1>3, <1>7, <2>1
<1> QED
    BY <1>5, <1>6, <1>7

(***************************************************************************)
(* Carving.                                                                *)
(***************************************************************************)
\* A stop that carving finds in a complete pit lap.
StopsIn(lap, from, until) ==
    /\ from \in Nat /\ until \in Nat
    /\ lap.start < from /\ from < until /\ until < lap.end
    /\ lap.kind = "pit" /\ lap.complete

Parted(lap, from, until) == <<InPart(lap, from), StopPart(lap, from, until), OutPart(lap, until)>>

CarvedInto(lap, part) ==
    \/ part = <<lap>>
    \/ \E from, until : StopsIn(lap, from, until) /\ part = Parted(lap, from, until)

LEMMA CarvedIs ==
    ASSUME NEW lap \in AllLaps, NEW from \in Nat, NEW until \in Nat
    PROVE  CarvedInto(lap, Carved(lap, from, until))
<1>1. CASE /\ lap.kind = "pit" /\ lap.complete
           /\ until - from >= PitStop /\ from > lap.start /\ until < lap.end
    <2>1. Carved(lap, from, until) = Parted(lap, from, until)
        BY <1>1, Zenon DEF Carved, Parted
    <2>2. lap.start \in Nat /\ lap.end \in Nat
        BY DEF AllLaps
    <2>3. PitStop \in Nat /\ PitStop # 0
        BY PublicationAssumption
    <2>4. StopsIn(lap, from, until)
        BY <1>1, <2>2, <2>3 DEF StopsIn
    <2> QED
        BY <2>1, <2>4 DEF CarvedInto
<1>2. CASE ~(/\ lap.kind = "pit" /\ lap.complete
             /\ until - from >= PitStop /\ from > lap.start /\ until < lap.end)
    <2>1. Carved(lap, from, until) = <<lap>>
        BY <1>2, Zenon DEF Carved
    <2> QED
        BY <2>1 DEF CarvedInto
<1> QED
    BY <1>1, <1>2

\* The fields of the parts.
LEMMA InPartIs ==
    ASSUME NEW lap \in AllLaps, NEW from \in Nat
    PROVE  LET p == InPart(lap, from)
           IN  /\ p \in AllLaps /\ p.start = lap.start /\ p.end = from /\ p.kind = "in"
               /\ p.stint = lap.stint /\ ~p.complete /\ p.endBoundary = "stationary"
BY DEF InPart, AllLaps, AllKinds, Kinds, AllBoundaries

LEMMA StopPartIs ==
    ASSUME NEW lap \in AllLaps, NEW from \in Nat, NEW until \in Nat
    PROVE  LET p == StopPart(lap, from, until)
           IN  /\ p \in AllLaps /\ p.start = from /\ p.end = until /\ p.kind = lap.kind
               /\ p.stint = lap.stint /\ ~p.complete /\ p.endBoundary = "stationary"
BY DEF StopPart, AllLaps, AllBoundaries

LEMMA OutPartIs ==
    ASSUME NEW lap \in AllLaps, NEW until \in Nat
    PROVE  LET p == OutPart(lap, until)
           IN  /\ p \in AllLaps /\ p.start = until /\ p.end = lap.end /\ p.kind = "out"
               /\ p.stint = lap.stint + 1 /\ ~p.complete /\ p.endBoundary = lap.endBoundary
<1>1. lap.stint \in Nat
    BY DEF AllLaps
<1>2. PICK n \in Nat : n = lap.stint + 1
    BY <1>1
<1> PICK p : p = [lap EXCEPT !.start = until, !.kind = "out", !.startBoundary = "stationary",
                             !.complete = FALSE, !.stint = n, !.stintLap = 0]
    OBVIOUS
<1>3. OutPart(lap, until) = p
    BY <1>2 DEF OutPart
<1>4. p \in AllLaps
    BY DEF AllLaps, AllKinds, Kinds, AllBoundaries
<1>5. /\ p.start = until /\ p.end = lap.end /\ p.kind = "out"
      /\ p.stint = n /\ ~p.complete /\ p.endBoundary = lap.endBoundary
    BY DEF AllLaps
<1> QED
    BY <1>2, <1>3, <1>4, <1>5

LEMMA CarvedType ==
    ASSUME NEW lap \in AllLaps, NEW part, CarvedInto(lap, part)
    PROVE  /\ part \in Seq(AllLaps) /\ Len(part) \in {1, 3}
           /\ Len(part) = 1 => part[1] = lap
           /\ Len(part) = 3 => \E from, until : /\ StopsIn(lap, from, until)
                                                /\ part[1] = InPart(lap, from)
                                                /\ part[2] = StopPart(lap, from, until)
                                                /\ part[3] = OutPart(lap, until)
<1>1. CASE part = <<lap>>
    BY <1>1
<1>2. CASE \E from, until : StopsIn(lap, from, until) /\ part = Parted(lap, from, until)
    <2>1. PICK from, until : StopsIn(lap, from, until) /\ part = Parted(lap, from, until)
        BY <1>2
    <2>2. from \in Nat /\ until \in Nat
        BY <2>1 DEF StopsIn
    <2> PICK a \in AllLaps : a = InPart(lap, from)
        BY <2>2, InPartIs
    <2> PICK b \in AllLaps : b = StopPart(lap, from, until)
        BY <2>2, StopPartIs
    <2> PICK c \in AllLaps : c = OutPart(lap, until)
        BY <2>2, OutPartIs
    <2>3. part = <<a, b, c>>
        BY <2>1 DEF Parted
    <2>4. part \in Seq(AllLaps) /\ Len(part) = 3 /\ part[1] = a /\ part[2] = b /\ part[3] = c
        BY <2>3
    <2> QED
        BY <2>1, <2>4
<1> QED
    BY <1>1, <1>2 DEF CarvedInto

PartOf(p, lap) ==
    \/ p = lap
    \/ \E from, until : /\ StopsIn(lap, from, until)
                        /\ p \in {InPart(lap, from), StopPart(lap, from, until), OutPart(lap, until)}
Begins(p, lap) == p = lap \/ \E from, until : StopsIn(lap, from, until) /\ p = InPart(lap, from)
Ends(p, lap) == p = lap \/ \E from, until : StopsIn(lap, from, until) /\ p = OutPart(lap, until)

\* Two parts of a lap, one after the other.
PartsMeet(p, q, lap) ==
    \E from, until :
        /\ StopsIn(lap, from, until)
        /\ \/ p = InPart(lap, from) /\ q = StopPart(lap, from, until)
           \/ p = StopPart(lap, from, until) /\ q = OutPart(lap, until)

Whole(flat, lap) ==
    \/ \E m \in 1 .. Len(flat) : flat[m] = lap
    \/ \E from, until :
          /\ StopsIn(lap, from, until)
          /\ \E m \in 1 .. Len(flat) : flat[m] = InPart(lap, from)
          /\ \E m \in 1 .. Len(flat) : flat[m] = StopPart(lap, from, until)
          /\ \E m \in 1 .. Len(flat) : flat[m] = OutPart(lap, until)

\* The list flat is list b with some of its laps in parts; its m-th lap is of
\* the row[m]-th lap of b.
Shaped(b, flat, row) ==
    /\ flat \in Seq(AllLaps)
    /\ \A m \in 1 .. Len(flat) : row[m] \in 1 .. Len(b) /\ PartOf(flat[m], b[row[m]])
    /\ \A m \in 2 .. Len(flat) :
          \/ row[m] = row[m - 1] /\ PartsMeet(flat[m - 1], flat[m], b[row[m]])
          \/ row[m] = row[m - 1] + 1 /\ Ends(flat[m - 1], b[row[m - 1]]) /\ Begins(flat[m], b[row[m]])
    /\ \A i \in 1 .. Len(b) : Whole(flat, b[i])

LEMMA PartsInTurn ==
    ASSUME NEW lap \in AllLaps, NEW part, CarvedInto(lap, part)
    PROVE  /\ Begins(part[1], lap) /\ Ends(part[Len(part)], lap)
           /\ \A d \in 1 .. Len(part) : d + 1 <= Len(part) => PartsMeet(part[d], part[d + 1], lap)
<1> PICK n : n = Len(part)
    OBVIOUS
<1>1. n \in {1, 3}
    BY CarvedType
<1>2. CASE n = 1
    <2>1. part[1] = lap
        BY <1>2, CarvedType
    <2>2. \A d \in 1 .. n : ~(d + 1 <= n)
        BY <1>2
    <2> QED
        BY <1>2, <2>1, <2>2 DEF Begins, Ends
<1>3. CASE n = 3
    <2>1. PICK from, until : /\ StopsIn(lap, from, until)
                             /\ part[1] = InPart(lap, from)
                             /\ part[2] = StopPart(lap, from, until)
                             /\ part[3] = OutPart(lap, until)
        <3>1. Len(part) = 3
            BY <1>3
        <3> QED
            BY <3>1, CarvedType
    <2>2. Begins(part[1], lap) /\ Ends(part[3], lap)
        BY <2>1 DEF Begins, Ends
    <2>3. PartsMeet(part[1], part[2], lap) /\ PartsMeet(part[2], part[3], lap)
        BY <2>1 DEF PartsMeet
    <2>4. \A d \in 1 .. n : d + 1 <= n => (d = 1 /\ d + 1 = 2) \/ (d = 2 /\ d + 1 = 3)
        BY <1>3
    <2> QED
        BY <1>3, <2>2, <2>3, <2>4
<1> QED
    BY <1>1, <1>2, <1>3

LEMMA FlattenShapes ==
    ASSUME NEW b \in Seq(AllLaps), NEW parts \in Seq(Seq(AllLaps)), Len(parts) = Len(b),
           \A i \in 1 .. Len(b) : CarvedInto(b[i], parts[i])
    PROVE  \E row : Shaped(b, FlattenSeq(parts), row)
<1> PICK n \in Nat : n = Len(b)
    OBVIOUS
<1>1. ASSUME NEW i \in 1 .. n
      PROVE  /\ b[i] \in AllLaps /\ CarvedInto(b[i], parts[i])
             /\ parts[i] \in Seq(AllLaps) /\ Len(parts[i]) \in {1, 3}
             /\ Len(parts[i]) = 1 => parts[i][1] = b[i]
             /\ Len(parts[i]) = 3 => \E from, until : /\ StopsIn(b[i], from, until)
                                                      /\ parts[i][1] = InPart(b[i], from)
                                                      /\ parts[i][2] = StopPart(b[i], from, until)
                                                      /\ parts[i][3] = OutPart(b[i], until)
    <2>1. b[i] \in AllLaps /\ CarvedInto(b[i], parts[i])
        OBVIOUS
    <2> QED
        BY <2>1, CarvedType
<1>2. parts \in Seq(Seq(AllLaps)) /\ Len(parts) = n
    OBVIOUS
<1>3. CASE n = 0
    <2>1. parts = <<>>
        BY <1>2, <1>3
    <2>2. FlattenSeq(parts) = <<>>
        BY <2>1 DEF FlattenSeq
    <2>3. Shaped(b, <<>>, <<>>)
        BY <1>3 DEF Shaped
    <2> QED
        BY <2>2, <2>3
<1>4. CASE n # 0
    <2> PICK flat : flat = FlattenSeq(parts)
        OBVIOUS
    <2>1. parts # <<>> /\ \A i \in 1 .. Len(parts) : Len(parts[i]) > 0
        BY <1>1, <1>2, <1>4
    <2>2. flat \in Seq(AllLaps) /\ \E row, col : Addressed(parts, n, flat, row, col)
        BY <1>2, <2>1, FlattenAddresses
    <2>3. PICK row, col : Addressed(parts, n, flat, row, col)
        BY <2>2
    <2>4. ASSUME NEW m \in 1 .. Len(flat)
          PROVE  /\ row[m] \in 1 .. n /\ col[m] \in 1 .. Len(parts[row[m]])
                 /\ flat[m] = parts[row[m]][col[m]]
        BY <2>3 DEF Addressed
    <2>5. ASSUME NEW m \in 1 .. Len(flat) PROVE PartOf(flat[m], b[row[m]])
        <3> PICK i \in 1 .. n : i = row[m]
            BY <2>4
        <3> PICK c : c = col[m]
            OBVIOUS
        <3>1. flat[m] = parts[i][c] /\ c \in 1 .. Len(parts[i])
            BY <2>4
        <3>2. CASE Len(parts[i]) = 1
            <4>1. c = 1
                BY <3>1, <3>2
            <4> QED
                BY <1>1, <3>1, <3>2, <4>1 DEF PartOf
        <3>3. CASE Len(parts[i]) = 3
            <4>1. c = 1 \/ c = 2 \/ c = 3
                BY <3>1, <3>3
            <4>2. PICK from, until : /\ StopsIn(b[i], from, until)
                                     /\ parts[i][1] = InPart(b[i], from)
                                     /\ parts[i][2] = StopPart(b[i], from, until)
                                     /\ parts[i][3] = OutPart(b[i], until)
                BY <1>1, <3>3
            <4> QED
                BY <3>1, <4>1, <4>2 DEF PartOf
        <3> QED
            BY <1>1, <3>2, <3>3
    <2>6. ASSUME NEW m \in 2 .. Len(flat)
          PROVE  \/ row[m] = row[m - 1] /\ PartsMeet(flat[m - 1], flat[m], b[row[m]])
                 \/ /\ row[m] = row[m - 1] + 1
                    /\ Ends(flat[m - 1], b[row[m - 1]]) /\ Begins(flat[m], b[row[m]])
        <3>1. m \in 1 .. Len(flat) /\ m - 1 \in 1 .. Len(flat)
            BY <2>2
        <3>2. PICK i \in 1 .. n : i = row[m]
            BY <2>4, <3>1
        <3>3. PICK h \in 1 .. n : h = row[m - 1]
            BY <2>4, <3>1
        <3> PICK c : c = col[m]
            OBVIOUS
        <3> PICK d : d = col[m - 1]
            OBVIOUS
        <3>4. /\ flat[m] = parts[i][c] /\ c \in 1 .. Len(parts[i])
              /\ flat[m - 1] = parts[h][d] /\ d \in 1 .. Len(parts[h])
            BY <2>4, <3>1, <3>2, <3>3
        <3>5. (i = h /\ c = d + 1) \/ (i = h + 1 /\ c = 1 /\ d = Len(parts[h]))
            BY <2>3, <3>2, <3>3 DEF Addressed
        <3>6. CASE i = h /\ c = d + 1
            <4>1. d \in 1 .. Len(parts[i]) /\ d + 1 <= Len(parts[i])
                BY <1>1, <3>4, <3>6
            <4>2. PartsMeet(parts[i][d], parts[i][d + 1], b[i])
                BY <1>1, <4>1, PartsInTurn
            <4> QED
                BY <3>2, <3>3, <3>4, <3>6, <4>2
        <3>7. CASE i = h + 1 /\ c = 1 /\ d = Len(parts[h])
            <4>1. Begins(parts[i][1], b[i])
                BY <1>1, PartsInTurn
            <4>2. Ends(parts[h][Len(parts[h])], b[h])
                BY <1>1, PartsInTurn
            <4> QED
                BY <3>2, <3>3, <3>4, <3>7, <4>1, <4>2
        <3> QED
            BY <3>5, <3>6, <3>7
    <2>7. ASSUME NEW i \in 1 .. n PROVE Whole(flat, b[i])
        <3>1. ASSUME NEW j \in 1 .. Len(parts[i])
              PROVE  \E m \in 1 .. Len(flat) : flat[m] = parts[i][j]
            <4>1. PICK m \in 1 .. Len(flat) : row[m] = i /\ col[m] = j
                BY <2>3 DEF Addressed
            <4> QED
                BY <2>4, <4>1
        <3>2. CASE Len(parts[i]) = 1
            <4>1. 1 \in 1 .. Len(parts[i]) /\ parts[i][1] = b[i]
                BY <1>1, <3>2
            <4> QED
                BY <3>1, <4>1 DEF Whole
        <3>3. CASE Len(parts[i]) = 3
            <4>1. PICK from, until : /\ StopsIn(b[i], from, until)
                                     /\ parts[i][1] = InPart(b[i], from)
                                     /\ parts[i][2] = StopPart(b[i], from, until)
                                     /\ parts[i][3] = OutPart(b[i], until)
                BY <1>1, <3>3
            <4>2. /\ 1 \in 1 .. Len(parts[i]) /\ 2 \in 1 .. Len(parts[i])
                  /\ 3 \in 1 .. Len(parts[i])
                BY <3>3
            <4>3. PICK m \in 1 .. Len(flat) : flat[m] = parts[i][1]
                BY <3>1, <4>2
            <4>4. PICK k \in 1 .. Len(flat) : flat[k] = parts[i][2]
                BY <3>1, <4>2
            <4>5. PICK l \in 1 .. Len(flat) : flat[l] = parts[i][3]
                BY <3>1, <4>2
            <4>6. flat[m] = InPart(b[i], from) /\ flat[k] = StopPart(b[i], from, until) /\ flat[l] = OutPart(b[i], until)
                BY <4>1, <4>3, <4>4, <4>5, Zenon
            <4> QED
                BY <4>1, <4>6, Zenon DEF Whole
        <3> QED
            BY <1>1, <3>2, <3>3
    <2>8. Shaped(b, flat, row)
        BY <2>2, <2>4, <2>5, <2>6, <2>7 DEF Shaped
    <2> QED
        BY <2>8
<1> QED
    BY <1>3, <1>4

(***************************************************************************)
(* Classifying.                                                            *)
(***************************************************************************)
AllNumbered(ls) == \A i \in DOMAIN ls : ls[i].stint # 0

\* List b is list a with stints and kinds, when the laps in long stand still.
Labels(a, b, long) ==
    /\ b \in Seq(AllLaps) /\ Len(b) = Len(a)
    /\ \A i \in 1 .. Len(a) :
          /\ b[i].start = a[i].start /\ b[i].end = a[i].end
          /\ b[i].startBoundary = a[i].startBoundary /\ b[i].endBoundary = a[i].endBoundary
          /\ b[i].kind = "flying" =>
                /\ i \notin long
                /\ a[i].kind = "flying" \/ (a[i].kind = "unknown" /\ a[i].complete)
                /\ i > 1 => b[i - 1].kind # "stopped"
          /\ (a[i].kind # "unknown" => (a[i].complete <=> a[i].kind = "flying")) =>
                (b[i].complete <=> b[i].kind = "flying")
    /\ (AllNumbered(a) => StintsGrow(a)) =>
          /\ StintsGrow(b)
          /\ \A i \in 2 .. Len(a) : b[i - 1].kind = "pit" /\ b[i - 1].complete =>
                b[i - 1].stint < b[i].stint
          /\ AllNumbered(a) => \A i, j \in 1 .. Len(a) : i < j /\ a[i].stint < a[j].stint =>
                b[i].stint < b[j].stint

LEMMA LabelsLaps ==
    ASSUME NEW a \in Seq(AllLaps), NEW long, NEW onTrack \in SUBSET long
    PROVE  Labels(a, WithBumps(WithKinds(WithStints(a), long, onTrack)), long)
<1> PICK n \in Nat : n = Len(a) /\ DOMAIN a = 1 .. n
    OBVIOUS
<1> PICK w : w = WithStints(a)
    OBVIOUS
<1>1. /\ OnlyStints(a, w) /\ ((AllNumbered(a) => StintsGrow(a)) => StintsGrow(w))
      /\ AllNumbered(a) => w = a
    BY StintsAssigned DEF AllNumbered
<1>2. w \in Seq(AllLaps) /\ Len(w) = n
    BY <1>1 DEF OnlyStints
<1> PICK k : k = WithKinds(w, long, onTrack)
    OBVIOUS
<1>3. /\ OnlyKinds(w, k)
      /\ \A i \in 1 .. n :
            /\ k[i].kind = "flying" =>
                  /\ i \notin long
                  /\ w[i].kind = "flying" \/ (w[i].kind = "unknown" /\ w[i].complete)
                  /\ i > 1 => k[i - 1].kind # "stopped"
            /\ (w[i].kind # "unknown" => (w[i].complete <=> w[i].kind = "flying")) =>
                  (k[i].complete <=> k[i].kind = "flying")
    BY <1>2, KindsAssigned
<1>4. k \in Seq(AllLaps) /\ Len(k) = n
    BY <1>2, <1>3 DEF OnlyKinds
<1> PICK b : b = WithBumps(k)
    OBVIOUS
<1>5. /\ OnlyStints(k, b)
      /\ StintsGrow(k) =>
           /\ StintsGrow(b)
           /\ \A i, j \in 1 .. n : i < j /\ k[i].stint < k[j].stint => b[i].stint < b[j].stint
           /\ \A i \in 2 .. n : k[i - 1].kind = "pit" /\ k[i - 1].complete =>
                 b[i - 1].stint < b[i].stint
    BY <1>4, StintsBumped
<1>6. b \in Seq(AllLaps) /\ Len(b) = n
    BY <1>4, <1>5 DEF OnlyStints
<1>7. ASSUME NEW i \in 1 .. n
      PROVE  /\ w[i].start = a[i].start /\ w[i].end = a[i].end
             /\ w[i].kind = a[i].kind /\ (w[i].complete <=> a[i].complete)
             /\ w[i].startBoundary = a[i].startBoundary /\ w[i].endBoundary = a[i].endBoundary
             /\ k[i].start = w[i].start /\ k[i].end = w[i].end /\ k[i].stint = w[i].stint
             /\ k[i].startBoundary = w[i].startBoundary /\ k[i].endBoundary = w[i].endBoundary
             /\ b[i].start = k[i].start /\ b[i].end = k[i].end
             /\ b[i].kind = k[i].kind /\ (b[i].complete <=> k[i].complete)
             /\ b[i].startBoundary = k[i].startBoundary /\ b[i].endBoundary = k[i].endBoundary
    <2>1. i \in 1 .. Len(a) /\ i \in 1 .. Len(w) /\ i \in 1 .. Len(k)
        BY <1>2, <1>4
    <2>2. /\ w[i].start = a[i].start /\ w[i].end = a[i].end
          /\ w[i].kind = a[i].kind /\ (w[i].complete <=> a[i].complete)
          /\ w[i].startBoundary = a[i].startBoundary /\ w[i].endBoundary = a[i].endBoundary
        BY <1>1, <2>1 DEF OnlyStints
    <2>3. /\ k[i].start = w[i].start /\ k[i].end = w[i].end /\ k[i].stint = w[i].stint
          /\ k[i].startBoundary = w[i].startBoundary /\ k[i].endBoundary = w[i].endBoundary
        BY <1>3, <2>1 DEF OnlyKinds
    <2>4. /\ b[i].start = k[i].start /\ b[i].end = k[i].end
          /\ b[i].kind = k[i].kind /\ (b[i].complete <=> k[i].complete)
          /\ b[i].startBoundary = k[i].startBoundary /\ b[i].endBoundary = k[i].endBoundary
        BY <1>5, <2>1 DEF OnlyStints
    <2> QED
        BY <2>2, <2>3, <2>4
<1>8. ASSUME NEW i \in 1 .. n
      PROVE  /\ b[i].kind = "flying" =>
                   /\ i \notin long
                   /\ a[i].kind = "flying" \/ (a[i].kind = "unknown" /\ a[i].complete)
                   /\ i > 1 => b[i - 1].kind # "stopped"
             /\ (a[i].kind # "unknown" => (a[i].complete <=> a[i].kind = "flying")) =>
                   (b[i].complete <=> b[i].kind = "flying")
    <2>1. b[i].kind = k[i].kind /\ (b[i].complete <=> k[i].complete)
          /\ w[i].kind = a[i].kind /\ (w[i].complete <=> a[i].complete)
        BY <1>7
    <2>2. i > 1 => b[i - 1].kind = k[i - 1].kind
        <3>1. i > 1 => i - 1 \in 1 .. n
            OBVIOUS
        <3> QED
            BY <1>7, <3>1
    <2> QED
        BY <1>3, <2>1, <2>2
<1>9. ASSUME AllNumbered(a) => StintsGrow(a)
      PROVE  /\ StintsGrow(b)
             /\ \A i \in 2 .. n : b[i - 1].kind = "pit" /\ b[i - 1].complete =>
                   b[i - 1].stint < b[i].stint
             /\ AllNumbered(a) => \A i, j \in 1 .. n : i < j /\ a[i].stint < a[j].stint =>
                   b[i].stint < b[j].stint
    <2>1. StintsGrow(w)
        BY <1>1, <1>9
    <2>2. StintsGrow(k)
        BY <1>2, <1>4, <1>7, <2>1 DEF StintsGrow
    <2>3. ASSUME NEW i \in 2 .. n, b[i - 1].kind = "pit", b[i - 1].complete
          PROVE  b[i - 1].stint < b[i].stint
        <3>1. i - 1 \in 1 .. n
            OBVIOUS
        <3>2. k[i - 1].kind = "pit" /\ k[i - 1].complete
            BY <1>7, <2>3, <3>1
        <3> QED
            BY <1>5, <2>2, <3>2
    <2>4. ASSUME AllNumbered(a), NEW i \in 1 .. n, NEW j \in 1 .. n, i < j, a[i].stint < a[j].stint
          PROVE  b[i].stint < b[j].stint
        <3>1. k[i].stint < k[j].stint
            BY <1>1, <1>7, <2>4
        <3> QED
            BY <1>5, <2>2, <2>4, <3>1
    <2> QED
        BY <1>5, <2>2, <2>3, <2>4
<1>10. ASSUME NEW i \in 1 .. n
       PROVE  /\ b[i].start = a[i].start /\ b[i].end = a[i].end
              /\ b[i].startBoundary = a[i].startBoundary /\ b[i].endBoundary = a[i].endBoundary
    BY <1>7
<1> HIDE <1>3, <1>5
<1> QED
    BY <1>6, <1>8, <1>9, <1>10 DEF Labels

\* What classification publishes.
Classifies(ls, more, shorts, long, order, a, b, row) ==
    /\ Rearranged(ls, a, order) /\ Labels(a, b, long) /\ Shaped(b, more, row)
    /\ long \in SUBSET (1 .. Len(ls)) /\ shorts = {a[i] : i \in long}

LEMMA ClassifyShapes ==
    ASSUME Classify, published \in Seq(AllLaps),
           \A i \in DOMAIN published : published[i].start < published[i].end
    PROVE  \E long, order, a, b, row : Classifies(published, published', stops', long, order, a, b, row)
<1>a. PICK margins \in SUBSET {"before", "after"} :
        \E long \in SUBSET {i \in DOMAIN published : LongEnough(i, margins)} :
        \E onTrack \in SUBSET long :
           /\ published' = Classified(long, onTrack, margins)
           /\ stops' = {InOrder(published)[i] : i \in long}
    BY Zenon DEF Classify
<1>b. PICK long \in SUBSET {i \in DOMAIN published : LongEnough(i, margins)} :
        \E onTrack \in SUBSET long :
           /\ published' = Classified(long, onTrack, margins)
           /\ stops' = {InOrder(published)[i] : i \in long}
    BY <1>a
<1>1. PICK onTrack \in SUBSET long :
         /\ published' = Classified(long, onTrack, margins)
         /\ stops' = {InOrder(published)[i] : i \in long}
    BY <1>b
<1> PICK ls : ls = published
    OBVIOUS
<1> PICK a : a = InOrder(ls)
    OBVIOUS
<1> PICK b : b = WithBumps(WithKinds(WithStints(a), long, onTrack))
    OBVIOUS
<1>2. PICK order : Rearranged(ls, a, order)
    BY InOrderRearranges
<1>3. a \in Seq(AllLaps) /\ Len(a) = Len(ls)
    BY <1>2 DEF Rearranged
<1>4. Labels(a, b, long)
    BY <1>3, LabelsLaps
<1>5. b \in Seq(AllLaps) /\ Len(b) = Len(ls) /\ Len(ls) \in Nat /\ DOMAIN b = 1 .. Len(b)
    BY <1>3, <1>4 DEF Labels
<1>6. ASSUME NEW i \in 1 .. Len(b)
      PROVE  b[i] \in AllLaps /\ b[i].start \in Nat /\ b[i].end \in Nat /\ b[i].start < b[i].end
    <2>1. b[i] \in AllLaps /\ b[i].start = a[i].start /\ b[i].end = a[i].end
        BY <1>3, <1>4, <1>5 DEF Labels
    <2>2. PICK j \in 1 .. Len(ls) : a[i] = ls[j]
        <3>1. i \in 1 .. Len(ls)
            BY <1>5
        <3> QED
            BY <1>2, <3>1 DEF Rearranged
    <2>3. ls[j].start < ls[j].end
        OBVIOUS
    <2>4. b[i].start \in Nat /\ b[i].end \in Nat
        BY <2>1 DEF AllLaps
    <2> QED
        BY <2>1, <2>2, <2>3, <2>4
<1> DEFINE from(i) == IF "before" \in margins THEN b[i].start + 1 ELSE b[i].start
           until(i) == IF "after" \in margins THEN b[i].end - 1 ELSE b[i].end
           part(i) == IF i \in long THEN Carved(b[i], from(i), until(i)) ELSE <<b[i]>>
           parts == [i \in 1 .. Len(b) |-> part(i)]
<1>7. published' = FlattenSeq(parts)
    <2>1. published' = FlattenSeq([i \in DOMAIN b |-> part(i)])
        BY <1>1, Zenon DEF Classified
    <2> QED
        BY <1>5, <2>1, Zenon
<1>8. ASSUME NEW i \in 1 .. Len(b) PROVE CarvedInto(b[i], part(i))
    <2>1. CASE i \in long
        <3>1. b[i].start + 1 \in Nat /\ b[i].start \in Nat /\ b[i].end - 1 \in Nat /\ b[i].end \in Nat
            BY <1>6
        <3>2. PICK f \in Nat : f = from(i)
            BY <3>1
        <3>3. PICK u \in Nat : u = until(i)
            BY <3>1
        <3> HIDE DEF from, until
        <3>4. CarvedInto(b[i], Carved(b[i], f, u))
            BY <1>6, CarvedIs
        <3>5. part(i) = Carved(b[i], f, u)
            BY <2>1, <3>2, <3>3
        <3> QED
            BY <3>4, <3>5, Zenon
    <2>2. CASE i \notin long
        <3>1. part(i) = <<b[i]>>
            BY <2>2, Zenon
        <3> QED
            BY <3>1, Zenon DEF CarvedInto
    <2> QED
        BY <2>1, <2>2
<1> HIDE DEF part
<1>9. parts \in Seq(Seq(AllLaps)) /\ Len(parts) = Len(b)
    <2> PICK n \in Nat : n = Len(b)
        BY <1>5
    <2> PICK Q : Q = Seq(AllLaps)
        OBVIOUS
    <2>1. ASSUME NEW i \in 1 .. n PROVE part(i) \in Q
        BY <1>6, <1>8, CarvedType
    <2>2. parts \in [1 .. n -> Q]
        BY <2>1
    <2> HIDE DEF parts
    <2>3. parts \in Seq(Q) /\ Len(parts) = n
        BY <2>2
    <2> QED
        BY <2>3
<1>10. \A i \in 1 .. Len(b) : CarvedInto(b[i], parts[i])
    BY <1>8
<1> HIDE DEF parts
<1>11. PICK row : Shaped(b, FlattenSeq(parts), row)
    BY <1>5, <1>9, <1>10, FlattenShapes
<1>12. long \in SUBSET (1 .. Len(ls)) /\ stops' = {a[i] : i \in long}
    BY <1>1
<1>13. Classifies(ls, published', stops', long, order, a, b, row)
    BY <1>2, <1>4, <1>7, <1>11, <1>12 DEF Classifies
<1> QED
    BY <1>13

LEMMA ClassifyFacts ==
    ASSUME PublicationInv, Classify
    PROVE  /\ published \in Seq(AllLaps)
           /\ \A i \in DOMAIN published : published[i].start < published[i].end
           /\ vendor # NoVendor => published = vendor
           /\ vendor = NoVendor => /\ Ascending(published) /\ Numbered(published)
                                   /\ \A i \in DOMAIN published : Done(published[i], minimum)
           /\ UNCHANGED <<laps, resets, vendor, minimum>> /\ stage' = "published"
           /\ \E long, order, a, b, row :
                 Classifies(published, published', stops', long, order, a, b, row)
<1>1. stage = "classify" /\ UNCHANGED <<laps, resets, vendor, minimum>> /\ stage' = "published"
    BY DEF Classify, vars
<1>2. CASE vendor # NoVendor
    <2>1. published = vendor /\ vendor \in VendorLists
        BY <1>1, <1>2 DEF PublicationInv
    <2>2. /\ vendor \in Seq(AllLaps)
          /\ \A i \in DOMAIN vendor : vendor[i].start < vendor[i].end
        BY <2>1, PublicationAssumption
    <2> QED
        BY <1>1, <1>2, <2>1, <2>2, ClassifyShapes
<1>3. CASE vendor = NoVendor
    <2>1. Orderly(published) /\ \A i \in DOMAIN published : Done(published[i], minimum)
        BY <1>1, <1>3 DEF PublicationInv
    <2>2. /\ published \in Seq(AllLaps)
          /\ \A i \in DOMAIN published : published[i].start < published[i].end
        BY <2>1 DEF Orderly, Done
    <2> QED
        BY <1>1, <1>3, <2>1, <2>2, ClassifyShapes DEF Orderly
<1> QED
    BY <1>2, <1>3

\* Laps in parts stay where they were.
LEMMA PartsWithin ==
    ASSUME NEW lap \in AllLaps, lap.start < lap.end, NEW p, PartOf(p, lap)
    PROVE  p.start < p.end /\ lap.start <= p.start /\ p.end <= lap.end
<1>1. lap.start \in Nat /\ lap.end \in Nat
    BY DEF AllLaps
<1>2. CASE p = lap
    BY <1>1, <1>2
<1>3. CASE p # lap
    <2>1. PICK from, until :
            /\ StopsIn(lap, from, until)
            /\ p \in {InPart(lap, from), StopPart(lap, from, until), OutPart(lap, until)}
        BY <1>3 DEF PartOf
    <2>2. from \in Nat /\ until \in Nat /\ lap.start < from /\ from < until /\ until < lap.end
        BY <2>1 DEF StopsIn
    <2>3. \/ p.start = lap.start /\ p.end = from
          \/ p.start = from /\ p.end = until
          \/ p.start = until /\ p.end = lap.end
        <3>1. InPart(lap, from).start = lap.start /\ InPart(lap, from).end = from
            BY <2>2, InPartIs
        <3>2. StopPart(lap, from, until).start = from /\ StopPart(lap, from, until).end = until
            BY <2>2, StopPartIs
        <3>3. OutPart(lap, until).start = until /\ OutPart(lap, until).end = lap.end
            BY <2>2, OutPartIs
        <3> QED
            BY <2>1, <3>1, <3>2, <3>3
    <2> QED
        BY <1>1, <2>2, <2>3
<1> QED
    BY <1>2, <1>3

LEMMA PartsMeetInTime ==
    ASSUME NEW lap \in AllLaps, NEW p, NEW q, PartsMeet(p, q, lap)
    PROVE  /\ p.end = q.start /\ p.stint \in Nat /\ q.stint \in Nat /\ p.stint <= q.stint
           /\ ~p.complete /\ p.endBoundary = "stationary"
<1>1. PICK from, until :
        /\ StopsIn(lap, from, until)
        /\ \/ p = InPart(lap, from) /\ q = StopPart(lap, from, until)
           \/ p = StopPart(lap, from, until) /\ q = OutPart(lap, until)
    BY DEF PartsMeet
<1>2. from \in Nat /\ until \in Nat
    BY <1>1 DEF StopsIn
<1>3. lap.stint \in Nat
    BY DEF AllLaps
<1>6. LET s == StopPart(lap, from, until)
      IN  s.start = from /\ s.end = until /\ s.stint = lap.stint /\ ~s.complete /\ s.endBoundary = "stationary"
    BY <1>2, StopPartIs
<1>4. CASE p = InPart(lap, from) /\ q = StopPart(lap, from, until)
    <2>1. LET s == InPart(lap, from)
          IN  s.end = from /\ s.stint = lap.stint /\ ~s.complete /\ s.endBoundary = "stationary"
        BY <1>2, InPartIs
    <2> QED
        BY <1>3, <1>4, <1>6, <2>1
<1>5. CASE p = StopPart(lap, from, until) /\ q = OutPart(lap, until)
    <2>1. OutPart(lap, until).start = until /\ OutPart(lap, until).stint = lap.stint + 1
        BY <1>2, OutPartIs
    <2> QED
        BY <1>3, <1>5, <1>6, <2>1
<1> QED
    BY <1>1, <1>4, <1>5

\* The laps from which published ones come.
LEMMA LabelledLaps ==
    ASSUME NEW ls \in Seq(AllLaps), \A i \in DOMAIN ls : ls[i].start < ls[i].end,
           NEW more, NEW shorts, NEW long, NEW order, NEW a, NEW b, NEW row,
           Classifies(ls, more, shorts, long, order, a, b, row)
    PROVE  /\ a \in Seq(AllLaps) /\ b \in Seq(AllLaps) /\ more \in Seq(AllLaps)
           /\ Len(a) = Len(ls) /\ Len(b) = Len(ls) /\ Len(ls) \in Nat /\ Len(more) \in Nat
           /\ DOMAIN ls = 1 .. Len(ls) /\ DOMAIN a = 1 .. Len(a) /\ DOMAIN more = 1 .. Len(more)
           /\ \A i \in 1 .. Len(b) :
                 /\ b[i] \in AllLaps /\ a[i] \in AllLaps /\ b[i].start < b[i].end
                 /\ b[i].start = a[i].start /\ b[i].end = a[i].end
                 /\ order[i] \in DOMAIN ls /\ a[i] = ls[order[i]]
<1>1. Rearranged(ls, a, order) /\ Labels(a, b, long) /\ Shaped(b, more, row)
    BY DEF Classifies
<1>2. /\ a \in Seq(AllLaps) /\ b \in Seq(AllLaps) /\ more \in Seq(AllLaps)
      /\ Len(a) = Len(ls) /\ Len(b) = Len(ls)
    BY <1>1 DEF Rearranged, Labels, Shaped
<1>3. /\ Len(ls) \in Nat /\ Len(more) \in Nat
      /\ DOMAIN ls = 1 .. Len(ls) /\ DOMAIN a = 1 .. Len(a) /\ DOMAIN more = 1 .. Len(more)
    BY <1>2
<1>4. ASSUME NEW i \in 1 .. Len(b)
      PROVE  /\ b[i] \in AllLaps /\ a[i] \in AllLaps /\ b[i].start < b[i].end
             /\ b[i].start = a[i].start /\ b[i].end = a[i].end
             /\ order[i] \in DOMAIN ls /\ a[i] = ls[order[i]]
    <2>1. b[i] \in AllLaps /\ a[i] \in AllLaps
        BY <1>2
    <2>2. b[i].start = a[i].start /\ b[i].end = a[i].end
        BY <1>1, <1>2 DEF Labels
    <2>3. order[i] \in DOMAIN ls /\ a[i] = ls[order[i]]
        BY <1>1, <1>2, <1>3 DEF Rearranged
    <2> QED
        BY <2>1, <2>2, <2>3
<1> QED
    BY <1>2, <1>3, <1>4

\* Published laps do not overlap or run backwards.
LEMMA ClassifyInOrder ==
    ASSUME PublicationInv, Classify
    PROVE  PublishedInOrder'
<1> PICK ls : ls = published
    OBVIOUS
<1> PICK more : more = published'
    OBVIOUS
<1>1. /\ ls \in Seq(AllLaps) /\ \A i \in DOMAIN ls : ls[i].start < ls[i].end
      /\ vendor # NoVendor => ls = vendor
      /\ vendor = NoVendor => Ascending(ls)
      /\ vendor' = vendor
    BY ClassifyFacts
<1>2. PICK long, order, a, b, row : Classifies(ls, more, stops', long, order, a, b, row)
    BY ClassifyFacts
<1>3. /\ a \in Seq(AllLaps) /\ b \in Seq(AllLaps) /\ more \in Seq(AllLaps)
      /\ Len(a) = Len(ls) /\ Len(b) = Len(ls) /\ Len(ls) \in Nat /\ Len(more) \in Nat
      /\ DOMAIN more = 1 .. Len(more)
      /\ \A i \in 1 .. Len(b) : /\ b[i] \in AllLaps /\ b[i].start < b[i].end
                                /\ b[i].start = a[i].start /\ b[i].end = a[i].end
    BY <1>1, <1>2, LabelledLaps
<1>4. Rearranged(ls, a, order) /\ Shaped(b, more, row)
    BY <1>2 DEF Classifies
<1>5. ASSUME NEW m \in 1 .. Len(more)
      PROVE  /\ row[m] \in 1 .. Len(b) /\ more[m].start < more[m].end
             /\ b[row[m]].start <= more[m].start /\ more[m].end <= b[row[m]].end
             /\ more[m].start \in Nat /\ more[m].end \in Nat
             /\ b[row[m]].start \in Nat /\ b[row[m]].end \in Nat
    <2> PICK i : i = row[m]
        OBVIOUS
    <2>1. i \in 1 .. Len(b) /\ PartOf(more[m], b[i])
        BY <1>4 DEF Shaped
    <2>2. b[i] \in AllLaps /\ b[i].start < b[i].end /\ more[m] \in AllLaps
        BY <1>3, <2>1
    <2>3. more[m].start < more[m].end /\ b[i].start <= more[m].start /\ more[m].end <= b[i].end
        BY <2>1, <2>2, PartsWithin
    <2> QED
        BY <2>1, <2>2, <2>3 DEF AllLaps
<1>6. ASSUME Disjoint(vendor), NEW m \in 1 .. Len(more), m > 1
      PROVE  more[m - 1].end <= more[m].start
    <2>1. Disjoint(ls)
        BY <1>1, <1>6, AscendingApart
    <2>2. \A j, k \in 1 .. Len(a) : j < k => a[j].end <= a[k].start
        BY <1>1, <1>4, <2>1, RearrangedApart
    <2>3. m \in 2 .. Len(more) /\ m - 1 \in 1 .. Len(more)
        BY <1>3, <1>6
    <2>4. CASE row[m] = row[m - 1] /\ PartsMeet(more[m - 1], more[m], b[row[m]])
        <3>1. PICK i : i = row[m]
            OBVIOUS
        <3>2. b[i] \in AllLaps
            BY <1>3, <1>5, <3>1
        <3>3. more[m - 1].end = more[m].start
            BY <2>4, <3>1, <3>2, PartsMeetInTime
        <3> QED
            BY <1>5, <3>3
    <2>5. CASE row[m] = row[m - 1] + 1
        <3> PICK i : i = row[m - 1]
            OBVIOUS
        <3> PICK j : j = row[m]
            OBVIOUS
        <3>1. i \in 1 .. Len(a) /\ j \in 1 .. Len(a) /\ i < j
            BY <1>3, <1>5, <2>3, <2>5
        <3>2. b[i].end <= b[j].start
            BY <1>3, <2>2, <3>1
        <3>3. more[m - 1].end <= b[i].end /\ more[m - 1].end \in Nat /\ b[i].end \in Nat
            BY <1>5, <2>3
        <3>4. b[j].start <= more[m].start /\ more[m].start \in Nat /\ b[j].start \in Nat
            BY <1>5
        <3> QED
            BY <3>2, <3>3, <3>4
    <2> QED
        BY <1>4, <2>3, <2>4, <2>5 DEF Shaped
<1> QED
    BY <1>1, <1>3, <1>5, <1>6 DEF PublishedInOrder, Disjoint

\* Only complete pit laps are carved.
LEMMA NothingCarved ==
    ASSUME NEW b, NEW more, NEW row, Shaped(b, more, row),
           \A i \in 1 .. Len(b) : b[i].complete => b[i].kind # "pit"
    PROVE  \A m \in 1 .. Len(more) : /\ row[m] \in 1 .. Len(b) /\ more[m] = b[row[m]]
                                     /\ m > 1 => row[m] = row[m - 1] + 1
<1>1. ASSUME NEW i \in 1 .. Len(b), NEW from, NEW until, StopsIn(b[i], from, until)
      PROVE  FALSE
    BY <1>1 DEF StopsIn
<1> SUFFICES ASSUME NEW m \in 1 .. Len(more)
             PROVE  /\ row[m] \in 1 .. Len(b) /\ more[m] = b[row[m]]
                    /\ m > 1 => row[m] = row[m - 1] + 1
    OBVIOUS
<1>2. row[m] \in 1 .. Len(b) /\ PartOf(more[m], b[row[m]])
    BY DEF Shaped
<1>3. more[m] = b[row[m]]
    BY <1>1, <1>2 DEF PartOf
<1>4. ASSUME m > 1 PROVE row[m] = row[m - 1] + 1
    <2>1. m \in 2 .. Len(more)
        <3>1. more \in Seq(AllLaps)
            BY DEF Shaped
        <3> QED
            BY <1>4, <3>1
    <2>2. ~PartsMeet(more[m - 1], more[m], b[row[m]])
        BY <1>1, <1>2 DEF PartsMeet
    <2> QED
        BY <2>1, <2>2 DEF Shaped
<1> QED
    BY <1>2, <1>3, <1>4

FlyTimed(more, shorts, least) ==
    \A m \in 1 .. Len(more) :
        /\ more[m].complete <=> more[m].kind = "flying"
        /\ more[m].kind = "flying" =>
              /\ more[m].startBoundary \in TrackAnchors \/ ~StopsStand
              /\ more[m].endBoundary \in TrackAnchors
              /\ more[m].end - more[m].start >= least
              /\ ~\E s \in shorts : s.start = more[m].start /\ s.end = more[m].end
              /\ m > 1 => more[m - 1].kind # "stopped"

\* Recovered laps have nothing to carve, and those that fly are timed.
LEMMA TimedShapes ==
    ASSUME NEW ls \in Seq(AllLaps), Ascending(ls), NEW least,
           \A i \in DOMAIN ls : Done(ls[i], least),
           NEW more, NEW shorts, NEW long, NEW order, NEW a, NEW b, NEW row,
           Classifies(ls, more, shorts, long, order, a, b, row)
    PROVE  FlyTimed(more, shorts, least)
<1>1. \A i \in DOMAIN ls : ls[i].start < ls[i].end
    BY DEF Done
<1>2. /\ a \in Seq(AllLaps) /\ b \in Seq(AllLaps) /\ more \in Seq(AllLaps)
      /\ Len(a) = Len(ls) /\ Len(b) = Len(ls) /\ Len(ls) \in Nat /\ Len(more) \in Nat
      /\ DOMAIN ls = 1 .. Len(ls) /\ DOMAIN a = 1 .. Len(a)
      /\ \A i \in 1 .. Len(b) : /\ b[i].start = a[i].start /\ b[i].end = a[i].end
                                /\ a[i] \in AllLaps
                                /\ order[i] \in DOMAIN ls /\ a[i] = ls[order[i]]
    BY <1>1, LabelledLaps
<1>3. /\ Rearranged(ls, a, order) /\ Labels(a, b, long) /\ Shaped(b, more, row)
      /\ long \in SUBSET (1 .. Len(ls)) /\ shorts = {a[i] : i \in long}
    BY DEF Classifies
<1>4. ASSUME NEW i \in 1 .. Len(b) PROVE Done(a[i], least)
    BY <1>2
<1>5. ASSUME NEW i \in 1 .. Len(b)
      PROVE  /\ b[i].complete <=> b[i].kind = "flying"
             /\ b[i].kind = "flying" => a[i].complete /\ i \notin long
             /\ b[i].startBoundary = a[i].startBoundary /\ b[i].endBoundary = a[i].endBoundary
             /\ b[i].kind = "flying" /\ i > 1 => b[i - 1].kind # "stopped"
    <2>1. a[i].kind # "unknown" => (a[i].complete <=> a[i].kind = "flying")
        BY <1>4 DEF Done
    <2>2. /\ b[i].startBoundary = a[i].startBoundary /\ b[i].endBoundary = a[i].endBoundary
          /\ b[i].kind = "flying" =>
                /\ i \notin long
                /\ a[i].kind = "flying" \/ (a[i].kind = "unknown" /\ a[i].complete)
                /\ i > 1 => b[i - 1].kind # "stopped"
          /\ (a[i].kind # "unknown" => (a[i].complete <=> a[i].kind = "flying")) =>
                (b[i].complete <=> b[i].kind = "flying")
        BY <1>2, <1>3 DEF Labels
    <2> QED
        BY <2>1, <2>2
<1>7. ASSUME NEW m \in 1 .. Len(more)
      PROVE  /\ row[m] \in 1 .. Len(b) /\ more[m] = b[row[m]]
             /\ m > 1 => row[m] = row[m - 1] + 1
    <2>1. \A i \in 1 .. Len(b) : b[i].complete => b[i].kind # "pit"
        BY <1>5
    <2> QED
        BY <1>3, <2>1, NothingCarved
<1>8. Ascending(a)
    BY <1>1, <1>3, RearrangedAscends
<1>9. ASSUME NEW i \in 1 .. Len(b), NEW s \in shorts, i \notin long,
             s.start = a[i].start, s.end = a[i].end
      PROVE  FALSE
    <2>1. PICK k \in long : s = a[k]
        BY <1>3
    <2>2. k \in 1 .. Len(b) /\ k # i
        BY <1>2, <1>3, <1>9
    <2>3. i < k \/ k < i
        BY <1>2, <2>2
    <2>4. InTurn(a[i], a[k]) \/ InTurn(a[k], a[i])
        BY <1>2, <1>8, <2>2, <2>3 DEF Ascending
    <2>5. a[i].end <= a[k].start \/ a[k].end <= a[i].start
        BY <2>4 DEF InTurn
    <2>6. a[i].start \in Nat /\ a[i].end \in Nat /\ a[i].start < a[i].end
        <3>1. a[i] \in AllLaps
            BY <1>2
        <3>2. a[i].start < a[i].end
            BY <1>4 DEF Done
        <3> QED
            BY <3>1, <3>2 DEF AllLaps
    <2> QED
        BY <1>9, <2>1, <2>5, <2>6
<1>10. ASSUME NEW m \in 1 .. Len(more), more[m].kind = "flying"
       PROVE  /\ more[m].startBoundary \in TrackAnchors \/ ~StopsStand
              /\ more[m].endBoundary \in TrackAnchors
              /\ more[m].end - more[m].start >= least
              /\ ~\E s \in shorts : s.start = more[m].start /\ s.end = more[m].end
              /\ m > 1 => more[m - 1].kind # "stopped"
    <2> PICK i : i = row[m]
        OBVIOUS
    <2>1. i \in 1 .. Len(b) /\ more[m] = b[i]
        BY <1>7
    <2>2. a[i].complete /\ i \notin long
        BY <1>5, <1>10, <2>1
    <2>3. /\ a[i].startBoundary \in TrackAnchors \/ ~StopsStand
          /\ a[i].endBoundary \in TrackAnchors
          /\ a[i].end - a[i].start >= least
        BY <1>4, <2>1, <2>2 DEF Done
    <2>4. /\ more[m].start = a[i].start /\ more[m].end = a[i].end
          /\ more[m].startBoundary = a[i].startBoundary /\ more[m].endBoundary = a[i].endBoundary
        BY <1>2, <1>5, <2>1
    <2>5. ~\E s \in shorts : s.start = more[m].start /\ s.end = more[m].end
        BY <1>9, <2>1, <2>2, <2>4
    <2>6. ASSUME m > 1 PROVE more[m - 1].kind # "stopped"
        <3>1. m - 1 \in 1 .. Len(more)
            BY <1>2, <2>6
        <3>2. row[m - 1] \in 1 .. Len(b) /\ more[m - 1] = b[row[m - 1]]
            BY <1>7, <3>1
        <3>3. i = row[m - 1] + 1
            BY <1>7, <2>6
        <3>4. row[m - 1] = i - 1 /\ i > 1
            BY <1>2, <3>2, <3>3
        <3> QED
            BY <1>5, <1>10, <2>1, <3>2, <3>4
    <2> QED
        BY <2>3, <2>4, <2>5, <2>6
<1>11. ASSUME NEW m \in 1 .. Len(more)
       PROVE  more[m].complete <=> more[m].kind = "flying"
    BY <1>5, <1>7
<1> QED
    BY <1>10, <1>11 DEF FlyTimed

LEMMA ClassifyTimed ==
    ASSUME PublicationInv, Classify
    PROVE  PublishedFlyingIsTimed'
<1>1. CASE vendor # NoVendor
    <2>1. vendor' = vendor
        BY ClassifyFacts
    <2> QED
        BY <1>1, <2>1 DEF PublishedFlyingIsTimed
<1>2. CASE vendor = NoVendor
    <2> PICK ls : ls = published
        OBVIOUS
    <2> PICK more : more = published'
        OBVIOUS
    <2> PICK shorts : shorts = stops'
        OBVIOUS
    <2> PICK least : least = minimum'
        OBVIOUS
    <2>1. /\ ls \in Seq(AllLaps) /\ Ascending(ls)
          /\ \A i \in DOMAIN ls : Done(ls[i], least)
          /\ UNCHANGED <<laps, resets>>
        BY <1>2, ClassifyFacts
    <2>2. PICK long, order, a, b, row : Classifies(ls, more, shorts, long, order, a, b, row)
        BY ClassifyFacts
    <2>3. FlyTimed(more, shorts, least)
        BY <2>1, <2>2, TimedShapes
    <2>4. DOMAIN more = 1 .. Len(more)
        <3>1. more \in Seq(AllLaps)
            BY <2>2 DEF Classifies, Shaped
        <3> QED
            BY <3>1
    <2>5. StopsStand' <=> StopsStand
        BY <2>1, StandsStillStands
    <2> QED
        BY <2>3, <2>4, <2>5 DEF PublishedFlyingIsTimed, FlyTimed
<1> QED
    BY <1>1, <1>2

\* A part's stint is its lap's; the last part's is not before it.
LEMMA StintOfParts ==
    ASSUME NEW lap \in AllLaps, NEW p
    PROVE  /\ Begins(p, lap) => p.stint = lap.stint
           /\ Ends(p, lap) => \/ p = lap
                              \/ /\ p.stint = lap.stint + 1 /\ ~p.complete
                                 /\ lap.kind = "pit" /\ lap.complete
<1>1. ASSUME Begins(p, lap) PROVE p.stint = lap.stint
    <2>1. CASE p = lap
        BY <2>1
    <2>2. CASE \E from, until : StopsIn(lap, from, until) /\ p = InPart(lap, from)
        <3>1. PICK from, until : StopsIn(lap, from, until) /\ p = InPart(lap, from)
            BY <2>2
        <3>2. from \in Nat /\ until \in Nat
            BY <3>1 DEF StopsIn
        <3>3. InPart(lap, from).stint = lap.stint
            BY <3>2, InPartIs
        <3> QED
            BY <3>1, <3>3
    <2> QED
        BY <1>1, <2>1, <2>2 DEF Begins
<1>2. ASSUME Ends(p, lap), p # lap
      PROVE  p.stint = lap.stint + 1 /\ ~p.complete /\ lap.kind = "pit" /\ lap.complete
    <2>1. PICK from, until : StopsIn(lap, from, until) /\ p = OutPart(lap, until)
        BY <1>2 DEF Ends
    <2>2. from \in Nat /\ until \in Nat /\ lap.kind = "pit" /\ lap.complete
        BY <2>1 DEF StopsIn
    <2>3. OutPart(lap, until).stint = lap.stint + 1 /\ ~OutPart(lap, until).complete
        BY <2>2, OutPartIs
    <2> QED
        BY <2>1, <2>2, <2>3
<1> QED
    BY <1>1, <1>2

\* Parts of laps whose stints grow are in stints that grow.
LEMMA StintShapes ==
    ASSUME NEW ls \in Seq(AllLaps), \A i \in DOMAIN ls : ls[i].start < ls[i].end,
           NEW more, NEW shorts, NEW long, NEW order, NEW a, NEW b, NEW row,
           Classifies(ls, more, shorts, long, order, a, b, row),
           AllNumbered(a) => StintsGrow(a)
    PROVE  \A m \in 2 .. Len(more) :
              /\ more[m - 1].stint <= more[m].stint
              /\ more[m - 1].kind = "pit" /\ more[m - 1].complete =>
                    more[m - 1].stint < more[m].stint
<1>1. /\ b \in Seq(AllLaps) /\ Len(a) = Len(ls) /\ Len(b) = Len(ls)
      /\ Len(ls) \in Nat /\ Len(more) \in Nat
      /\ \A i \in 1 .. Len(b) : b[i] \in AllLaps
    BY LabelledLaps
<1>2. Labels(a, b, long) /\ Shaped(b, more, row)
    BY DEF Classifies
<1>3. /\ StintsGrow(b)
      /\ \A i \in 2 .. Len(b) : b[i - 1].kind = "pit" /\ b[i - 1].complete =>
            b[i - 1].stint < b[i].stint
    BY <1>1, <1>2 DEF Labels
<1> SUFFICES ASSUME NEW m \in 2 .. Len(more)
             PROVE  /\ more[m - 1].stint <= more[m].stint
                    /\ more[m - 1].kind = "pit" /\ more[m - 1].complete =>
                          more[m - 1].stint < more[m].stint
    OBVIOUS
<1>4. m \in 1 .. Len(more) /\ m - 1 \in 1 .. Len(more)
    BY <1>1
<1> PICK i : i = row[m - 1]
    OBVIOUS
<1> PICK j : j = row[m]
    OBVIOUS
<1>5. i \in 1 .. Len(b) /\ j \in 1 .. Len(b)
    BY <1>2, <1>4 DEF Shaped
<1> PICK p : p = more[m - 1]
    OBVIOUS
<1> PICK q : q = more[m]
    OBVIOUS
<1>6. CASE j = i /\ PartsMeet(p, q, b[j])
    <2>1. b[j] \in AllLaps
        BY <1>1, <1>5
    <2>2. p.stint <= q.stint /\ ~p.complete
        BY <1>6, <2>1, PartsMeetInTime
    <2> QED
        BY <2>2
<1>7. CASE j = i + 1 /\ Ends(p, b[i]) /\ Begins(q, b[j])
    <2>1. b[i] \in AllLaps /\ b[j] \in AllLaps
        BY <1>1, <1>5
    <2>2. q.stint = b[j].stint
        BY <1>7, <2>1, StintOfParts
    <2>3. \/ p = b[i]
          \/ p.stint = b[i].stint + 1 /\ ~p.complete /\ b[i].kind = "pit" /\ b[i].complete
        BY <1>7, <2>1, StintOfParts
    <2>4. j \in 2 .. Len(b) /\ j - 1 = i /\ i <= j
        BY <1>1, <1>5, <1>7
    <2>5. b[i].stint <= b[j].stint
        BY <1>3, <1>5, <2>4 DEF StintsGrow
    <2>6. b[i].kind = "pit" /\ b[i].complete => b[i].stint < b[j].stint
        BY <1>3, <2>4
    <2>7. b[i].stint \in Nat /\ b[j].stint \in Nat
        BY <2>1 DEF AllLaps
    <2> QED
        BY <2>2, <2>3, <2>5, <2>6, <2>7
<1> QED
    BY <1>2, <1>6, <1>7 DEF Shaped

\* Laps are numbered in whatever order they are.
LEMMA RearrangedNumbers ==
    ASSUME NEW ls \in Seq(AllLaps), NEW a, NEW order, Rearranged(ls, a, order)
    PROVE  AllNumbered(ls) <=> AllNumbered(a)
<1>1. Len(ls) \in Nat /\ DOMAIN ls = 1 .. Len(ls) /\ Len(a) = Len(ls) /\ DOMAIN a = 1 .. Len(a)
    BY DEF Rearranged
<1>2. ASSUME AllNumbered(ls), NEW k \in DOMAIN a PROVE a[k].stint # 0
    <2>1. order[k] \in DOMAIN ls /\ a[k] = ls[order[k]]
        BY <1>1 DEF Rearranged
    <2> QED
        BY <1>2, <2>1 DEF AllNumbered
<1>3. ASSUME AllNumbered(a), NEW i \in DOMAIN ls PROVE ls[i].stint # 0
    <2>1. PICK k \in DOMAIN a : order[k] = i
        BY <1>1 DEF Rearranged
    <2>2. a[k] = ls[i]
        BY <1>1, <2>1 DEF Rearranged
    <2> QED
        BY <1>3, <2>2 DEF AllNumbered
<1> QED
    BY <1>2, <1>3 DEF AllNumbered

LEMMA StintTypes ==
    ASSUME NEW ls \in Seq(AllLaps)
    PROVE  \A i \in DOMAIN ls : ls[i].stint \in Nat
<1>1. \A i \in DOMAIN ls : ls[i] \in AllLaps
    OBVIOUS
<1> QED
    BY <1>1 DEF AllLaps

LEMMA VendorStints ==
    ASSUME NEW ls \in Seq(AllLaps), NEW a, NEW order, Rearranged(ls, a, order),
           StintsAscend(ls), AllNumbered(a)
    PROVE  StintsGrow(a)
<1>1. Len(ls) \in Nat /\ DOMAIN ls = 1 .. Len(ls) /\ Len(a) = Len(ls) /\ DOMAIN a = 1 .. Len(a)
      /\ a \in Seq(AllLaps)
    BY DEF Rearranged
<1>2. AllNumbered(ls)
    BY RearrangedNumbers
<1>3. \A i, j \in DOMAIN ls : Precedes(ls, i, j) => ls[i].stint <= ls[j].stint
    BY <1>2 DEF StintsAscend, AllNumbered
<1> SUFFICES ASSUME NEW j \in 1 .. Len(a), NEW k \in 1 .. Len(a), j <= k
             PROVE  a[j].stint <= a[k].stint
    BY DEF StintsGrow
<1>4. CASE j = k
    <2>1. a[j].stint \in Nat
        BY <1>1, StintTypes
    <2> QED
        BY <1>4, <2>1
<1>5. CASE j # k
    <2>1. j < k
        BY <1>1, <1>5
    <2> PICK p : p = order[j]
        OBVIOUS
    <2> PICK q : q = order[k]
        OBVIOUS
    <2>2. p \in DOMAIN ls /\ q \in DOMAIN ls /\ a[j] = ls[p] /\ a[k] = ls[q] /\ Precedes(ls, p, q)
        BY <1>1, <2>1 DEF Rearranged
    <2> QED
        BY <1>3, <2>2
<1> QED
    BY <1>4, <1>5

\* Recovered laps are in later stints behind a reset or a pit entry.
LEMMA RecoveredStints ==
    ASSUME NEW ls \in Seq(AllLaps), Ascending(ls), Numbered(ls), NEW least,
           \A i \in DOMAIN ls : Done(ls[i], least),
           NEW more, NEW shorts, NEW long, NEW order, NEW a, NEW b, NEW row,
           Classifies(ls, more, shorts, long, order, a, b, row)
    PROVE  /\ StintsGrow(a)
           /\ \A m \in 2 .. Len(more) : more[m - 1].endBoundary \in EndsStint =>
                 more[m - 1].stint < more[m].stint
<1>1. \A i \in DOMAIN ls : ls[i].start < ls[i].end
    BY DEF Done
<1>2. /\ a \in Seq(AllLaps) /\ Len(a) = Len(ls) /\ Len(b) = Len(ls)
      /\ Len(ls) \in Nat /\ Len(more) \in Nat /\ DOMAIN ls = 1 .. Len(ls)
      /\ DOMAIN a = 1 .. Len(a)
      /\ \A i \in 1 .. Len(b) : order[i] \in DOMAIN ls /\ a[i] = ls[order[i]]
    BY <1>1, LabelledLaps
<1>3. Rearranged(ls, a, order) /\ Labels(a, b, long) /\ Shaped(b, more, row)
    BY DEF Classifies
<1>4. Ascending(a)
    BY <1>1, <1>3, RearrangedAscends
<1>5. StintsGrow(a)
    <2>1. ASSUME NEW i \in 1 .. Len(a), NEW j \in 1 .. Len(a), i <= j
          PROVE  a[i].stint <= a[j].stint
        <3>1. a[i].stint \in Nat
            BY <1>2, StintTypes
        <3>2. i < j => a[i].stint <= a[j].stint
            BY <1>2, <1>4 DEF Ascending, InTurn
        <3>3. i = j \/ i < j
            BY <1>2, <2>1
        <3> QED
            BY <3>1, <3>2, <3>3
    <2> QED
        BY <2>1 DEF StintsGrow
<1>6. ASSUME NEW m \in 2 .. Len(more), more[m - 1].endBoundary \in EndsStint
      PROVE  more[m - 1].stint < more[m].stint
    <2>1. \A i \in 1 .. Len(b) : b[i].complete => b[i].kind # "pit"
        <3>1. ASSUME NEW i \in 1 .. Len(b) PROVE b[i].complete => b[i].kind # "pit"
            <4>1. Done(a[i], least)
                BY <1>2
            <4>2. a[i].kind # "unknown" => (a[i].complete <=> a[i].kind = "flying")
                BY <4>1 DEF Done
            <4>3. b[i].complete <=> b[i].kind = "flying"
                BY <1>2, <1>3, <4>2 DEF Labels
            <4> QED
                BY <4>3
        <3> QED
            BY <3>1
    <2>2. m \in 1 .. Len(more) /\ m - 1 \in 1 .. Len(more) /\ m > 1
        BY <1>2
    <2> PICK i : i = row[m - 1]
        OBVIOUS
    <2> PICK j : j = row[m]
        OBVIOUS
    <2>3. /\ i \in 1 .. Len(b) /\ j \in 1 .. Len(b) /\ j = i + 1
          /\ more[m - 1] = b[i] /\ more[m] = b[j]
        <3>1. \A k \in 1 .. Len(more) : /\ row[k] \in 1 .. Len(b) /\ more[k] = b[row[k]]
                                        /\ k > 1 => row[k] = row[k - 1] + 1
            BY <1>3, <2>1, NothingCarved
        <3> QED
            BY <2>2, <3>1, Zenon
    <2>4. i < j /\ i \in DOMAIN a /\ j \in DOMAIN a
        BY <1>2, <2>3
    <2>5. a[i].endBoundary \in EndsStint
        BY <1>2, <1>3, <1>6, <2>3 DEF Labels
    <2>6. a[i].stint < a[j].stint
        BY <1>4, <2>4, <2>5 DEF Ascending, InTurn
    <2>7. AllNumbered(a)
        <3>1. order[i] \in DOMAIN ls /\ ls[order[i]].endBoundary \in EndsStint
            BY <1>2, <2>3, <2>5
        <3>2. AllNumbered(ls)
            BY <3>1 DEF Numbered, AllNumbered
        <3> QED
            BY <1>3, <3>2, RearrangedNumbers
    <2>8. \A h, k \in 1 .. Len(a) : h < k /\ a[h].stint < a[k].stint => b[h].stint < b[k].stint
        <3> HIDE DEF Shaped, Rearranged
        <3> QED
            BY <1>3, <1>5, <2>7 DEF Labels
    <2>9. b[i].stint < b[j].stint
        BY <1>2, <2>4, <2>6, <2>8
    <2> QED
        BY <2>3, <2>9
<1> QED
    BY <1>5, <1>6

LEMMA ClassifyStints ==
    ASSUME PublicationInv, Classify
    PROVE  PublishedStintsAdvance'
<1> PICK ls : ls = published
    OBVIOUS
<1> PICK more : more = published'
    OBVIOUS
<1> PICK shorts : shorts = stops'
    OBVIOUS
<1>1. /\ ls \in Seq(AllLaps) /\ \A i \in DOMAIN ls : ls[i].start < ls[i].end
      /\ vendor # NoVendor => ls = vendor
      /\ vendor = NoVendor => /\ Ascending(ls) /\ Numbered(ls)
                              /\ \A i \in DOMAIN ls : Done(ls[i], minimum)
      /\ vendor' = vendor
    BY ClassifyFacts
<1>2. PICK long, order, a, b, row : Classifies(ls, more, shorts, long, order, a, b, row)
    BY ClassifyFacts
<1>3. Rearranged(ls, a, order)
    BY <1>2 DEF Classifies
<1> DEFINE advances == \A m \in 2 .. Len(more) :
              /\ more[m - 1].stint <= more[m].stint
              /\ more[m - 1].kind = "pit" /\ more[m - 1].complete =>
                    more[m - 1].stint < more[m].stint
<1>4. (AllNumbered(a) => StintsGrow(a)) => advances
    <2> SUFFICES ASSUME AllNumbered(a) => StintsGrow(a) PROVE advances
        OBVIOUS
    <2> QED
        BY <1>1, <1>2, StintShapes
<1> HIDE DEF advances
<1>5. CASE vendor # NoVendor
    <2>1. StintsAscend(vendor) => advances
        BY <1>1, <1>3, <1>4, <1>5, VendorStints
    <2> QED
        BY <1>1, <1>5, <2>1 DEF PublishedStintsAdvance, advances
<1>6. CASE vendor = NoVendor
    <2> PICK least : least = minimum
        OBVIOUS
    <2>1. Ascending(ls) /\ Numbered(ls) /\ \A i \in DOMAIN ls : Done(ls[i], least)
        BY <1>1, <1>6
    <2>2. /\ StintsGrow(a)
          /\ \A m \in 2 .. Len(more) : more[m - 1].endBoundary \in EndsStint =>
                more[m - 1].stint < more[m].stint
        BY <1>1, <1>2, <2>1, RecoveredStints
    <2>3. advances
        BY <1>4, <2>2
    <2> QED
        BY <2>2, <2>3 DEF PublishedStintsAdvance, advances, EndsStint
<1> QED
    BY <1>5, <1>6

Covers(ls) == UNION {ls[i].start .. (ls[i].end - 1) : i \in DOMAIN ls}

LEMMA CoversIs ==
    ASSUME NEW ls, NEW t
    PROVE  t \in Covers(ls) <=> \E i \in DOMAIN ls : t \in ls[i].start .. (ls[i].end - 1)
BY DEF Covers

\* The parts of a lap cover it.
LEMMA PartsCover ==
    ASSUME NEW lap \in AllLaps, NEW flat, Whole(flat, lap), NEW t \in lap.start .. (lap.end - 1)
    PROVE  \E m \in 1 .. Len(flat) : t \in flat[m].start .. (flat[m].end - 1)
<1>1. CASE \E m \in 1 .. Len(flat) : flat[m] = lap
    <2>1. PICK m \in 1 .. Len(flat) : flat[m] = lap
        BY <1>1
    <2>2. t \in flat[m].start .. (flat[m].end - 1)
        BY <2>1
    <2> QED
        BY <2>2
<1>2. CASE ~\E m \in 1 .. Len(flat) : flat[m] = lap
    <2>1. PICK from, until :
            /\ StopsIn(lap, from, until)
            /\ \E m \in 1 .. Len(flat) : flat[m] = InPart(lap, from)
            /\ \E m \in 1 .. Len(flat) : flat[m] = StopPart(lap, from, until)
            /\ \E m \in 1 .. Len(flat) : flat[m] = OutPart(lap, until)
        BY <1>2 DEF Whole
    <2>2. from \in Nat /\ until \in Nat
        BY <2>1 DEF StopsIn
    <2>3. lap.start \in Nat /\ lap.end \in Nat /\ t \in Int /\ lap.start <= t /\ t <= lap.end - 1
        BY DEF AllLaps
    <2>4. PICK m \in 1 .. Len(flat) : flat[m] = InPart(lap, from)
        BY <2>1
    <2>5. PICK n \in 1 .. Len(flat) : flat[n] = StopPart(lap, from, until)
        BY <2>1
    <2>6. PICK k \in 1 .. Len(flat) : flat[k] = OutPart(lap, until)
        BY <2>1
    <2>7. flat[m].start = lap.start /\ flat[m].end = from
        <3>1. InPart(lap, from).start = lap.start /\ InPart(lap, from).end = from
            BY <2>2, InPartIs
        <3> QED
            BY <2>4, <3>1
    <2>8. flat[n].start = from /\ flat[n].end = until
        <3>1. LET p == StopPart(lap, from, until)
              IN  p.start = from /\ p.end = until
            BY <2>2, StopPartIs
        <3> QED
            BY <2>5, <3>1
    <2>9. flat[k].start = until /\ flat[k].end = lap.end
        <3>1. LET p == OutPart(lap, until)
              IN  p.start = until /\ p.end = lap.end
            BY <2>2, OutPartIs
        <3> QED
            BY <2>6, <3>1
    <2>10. CASE t < from
        <3>1. t \in flat[m].start .. (flat[m].end - 1)
            BY <2>2, <2>3, <2>7, <2>10
        <3> QED
            BY <3>1
    <2>11. CASE from <= t /\ t < until
        <3>1. t \in flat[n].start .. (flat[n].end - 1)
            BY <2>2, <2>3, <2>8, <2>11
        <3> QED
            BY <3>1
    <2>12. CASE until <= t
        <3>1. t \in flat[k].start .. (flat[k].end - 1)
            BY <2>2, <2>3, <2>9, <2>12
        <3> QED
            BY <3>1
    <2> QED
        BY <2>2, <2>3, <2>10, <2>11, <2>12
<1> QED
    BY <1>1, <1>2

\* Classified laps cover what they covered before.
LEMMA CoveredShapes ==
    ASSUME NEW ls \in Seq(AllLaps), \A i \in DOMAIN ls : ls[i].start < ls[i].end,
           NEW more, NEW shorts, NEW long, NEW order, NEW a, NEW b, NEW row,
           Classifies(ls, more, shorts, long, order, a, b, row)
    PROVE  Covers(more) = Covers(ls)
<1>1. /\ more \in Seq(AllLaps) /\ Len(a) = Len(ls) /\ Len(b) = Len(ls)
      /\ DOMAIN ls = 1 .. Len(ls) /\ DOMAIN more = 1 .. Len(more)
      /\ \A i \in 1 .. Len(b) : /\ b[i] \in AllLaps /\ b[i].start < b[i].end
                                /\ b[i].start = a[i].start /\ b[i].end = a[i].end
                                /\ order[i] \in DOMAIN ls /\ a[i] = ls[order[i]]
    BY LabelledLaps
<1>2. Rearranged(ls, a, order) /\ Shaped(b, more, row)
    BY DEF Classifies
<1>3. ASSUME NEW t, t \in Covers(more) PROVE t \in Covers(ls)
    <2>1. PICK m \in DOMAIN more : t \in more[m].start .. (more[m].end - 1)
        BY <1>3, CoversIs
    <2> PICK i : i = row[m]
        OBVIOUS
    <2>2. i \in 1 .. Len(b) /\ PartOf(more[m], b[i])
        BY <1>1, <1>2 DEF Shaped
    <2>3. b[i] \in AllLaps /\ b[i].start < b[i].end /\ more[m] \in AllLaps
        BY <1>1, <2>2
    <2>4. b[i].start <= more[m].start /\ more[m].end <= b[i].end
        BY <2>2, <2>3, PartsWithin
    <2>5. /\ b[i].start \in Nat /\ b[i].end \in Nat
          /\ more[m].start \in Nat /\ more[m].end \in Nat
        BY <2>3 DEF AllLaps
    <2>6. t \in b[i].start .. (b[i].end - 1)
        BY <2>1, <2>4, <2>5
    <2>7. order[i] \in DOMAIN ls /\ t \in ls[order[i]].start .. (ls[order[i]].end - 1)
        BY <1>1, <2>2, <2>6
    <2> QED
        BY <2>7, CoversIs
<1>4. ASSUME NEW t, t \in Covers(ls) PROVE t \in Covers(more)
    <2>1. PICK j \in DOMAIN ls : t \in ls[j].start .. (ls[j].end - 1)
        BY <1>4, CoversIs
    <2>2. PICK k \in 1 .. Len(b) : order[k] = j
        BY <1>1, <1>2 DEF Rearranged
    <2>3. b[k] \in AllLaps /\ t \in b[k].start .. (b[k].end - 1)
        BY <1>1, <2>1, <2>2
    <2>4. Whole(more, b[k])
        BY <1>2 DEF Shaped
    <2>5. \E m \in 1 .. Len(more) : t \in more[m].start .. (more[m].end - 1)
        BY <2>3, <2>4, PartsCover
    <2> QED
        BY <1>1, <2>5, CoversIs
<1> QED
    BY <1>3, <1>4

\* A part of a carved lap does not fly.
LEMMA FlyingIsWhole ==
    ASSUME NEW lap \in AllLaps, NEW p, PartOf(p, lap), p.kind = "flying"
    PROVE  p = lap
<1> SUFFICES ASSUME p # lap PROVE FALSE
    OBVIOUS
<1>1. PICK from, until :
        /\ StopsIn(lap, from, until)
        /\ p \in {InPart(lap, from), StopPart(lap, from, until), OutPart(lap, until)}
    BY DEF PartOf
<1>2. from \in Nat /\ until \in Nat /\ lap.kind = "pit"
    BY <1>1 DEF StopsIn
<1>3. InPart(lap, from).kind = "in"
    BY <1>2, InPartIs
<1>4. LET s == StopPart(lap, from, until)
      IN  s.kind = lap.kind /\ ~s.complete
    BY <1>2, StopPartIs
<1>5. OutPart(lap, until).kind = "out"
    BY <1>2, OutPartIs
<1> QED
    BY <1>1, <1>2, <1>3, <1>4, <1>5

\* A flying lap is one of the list it comes from.
LEMMA FlownShapes ==
    ASSUME NEW ls \in Seq(AllLaps), \A i \in DOMAIN ls : ls[i].start < ls[i].end,
           NEW more, NEW shorts, NEW long, NEW order, NEW a, NEW b, NEW row,
           Classifies(ls, more, shorts, long, order, a, b, row),
           NEW m \in DOMAIN more, more[m].kind = "flying"
    PROVE  /\ \E j \in DOMAIN ls : /\ ls[j].start = more[m].start /\ ls[j].end = more[m].end
                                   /\ ls[j].complete \/ ls[j].kind = "flying"
           /\ Disjoint(ls) => ~\E s \in shorts : s.start = more[m].start /\ s.end = more[m].end
<1>1. /\ Len(a) = Len(ls) /\ Len(b) = Len(ls) /\ DOMAIN more = 1 .. Len(more)
      /\ Len(ls) \in Nat
      /\ \A i \in 1 .. Len(b) : /\ b[i] \in AllLaps /\ b[i].start < b[i].end
                                /\ b[i].start = a[i].start /\ b[i].end = a[i].end
                                /\ order[i] \in DOMAIN ls /\ a[i] = ls[order[i]]
    BY LabelledLaps
<1>2. /\ Rearranged(ls, a, order) /\ Labels(a, b, long) /\ Shaped(b, more, row)
      /\ long \in SUBSET (1 .. Len(ls)) /\ shorts = {a[i] : i \in long}
    BY DEF Classifies
<1> PICK i : i = row[m]
    OBVIOUS
<1>3. i \in 1 .. Len(b) /\ PartOf(more[m], b[i])
    BY <1>1, <1>2 DEF Shaped
<1>4. more[m] = b[i]
    BY <1>1, <1>3, FlyingIsWhole
<1>5. i \notin long /\ (a[i].kind = "flying" \/ a[i].complete)
    BY <1>1, <1>2, <1>3, <1>4 DEF Labels
<1>6. \E j \in DOMAIN ls : /\ ls[j].start = more[m].start /\ ls[j].end = more[m].end
                           /\ ls[j].complete \/ ls[j].kind = "flying"
    <2>1. order[i] \in DOMAIN ls /\ a[i] = ls[order[i]]
        BY <1>1, <1>3
    <2>2. a[i].start = more[m].start /\ a[i].end = more[m].end
        BY <1>1, <1>3, <1>4
    <2> QED
        BY <1>5, <2>1, <2>2
<1>7. ASSUME Disjoint(ls), NEW s \in shorts, s.start = more[m].start, s.end = more[m].end
      PROVE  FALSE
    <2>1. PICK k \in long : s = a[k]
        BY <1>2
    <2>2. k \in 1 .. Len(a) /\ i \in 1 .. Len(a) /\ k # i
        BY <1>1, <1>2, <1>3, <1>5
    <2>3. \A h, n \in 1 .. Len(a) : h < n => a[h].end <= a[n].start
        BY <1>2, <1>7, RearrangedApart
    <2>4. k < i \/ i < k
        BY <2>2
    <2>5. a[k].end <= a[i].start \/ a[i].end <= a[k].start
        BY <2>2, <2>3, <2>4
    <2>6. /\ a[k].start = a[i].start /\ a[k].end = a[i].end
          /\ a[i].start \in Nat /\ a[i].end \in Nat /\ a[i].start < a[i].end
        <3>1. b[i] \in AllLaps
            BY <1>1, <1>3
        <3>2. b[i].start \in Nat /\ b[i].end \in Nat
            BY <3>1 DEF AllLaps
        <3> QED
            BY <1>1, <1>3, <1>4, <1>7, <2>1, <3>2
    <2> QED
        BY <2>5, <2>6
<1> QED
    BY <1>6, <1>7

LEMMA ClassifyVendor ==
    ASSUME PublicationInv, Classify
    PROVE  VendorLapsKept'
<1> PICK ls : ls = published
    OBVIOUS
<1> PICK more : more = published'
    OBVIOUS
<1> PICK shorts : shorts = stops'
    OBVIOUS
<1>1. /\ ls \in Seq(AllLaps) /\ \A i \in DOMAIN ls : ls[i].start < ls[i].end
      /\ vendor # NoVendor => ls = vendor
      /\ vendor' = vendor
    BY ClassifyFacts
<1>2. PICK long, order, a, b, row : Classifies(ls, more, shorts, long, order, a, b, row)
    BY ClassifyFacts
<1>3. Covers(more) = Covers(ls)
    BY <1>1, <1>2, CoveredShapes
<1>4. ASSUME NEW m \in DOMAIN more, more[m].kind = "flying"
      PROVE  /\ \E j \in DOMAIN ls : /\ ls[j].start = more[m].start /\ ls[j].end = more[m].end
                                     /\ ls[j].complete \/ ls[j].kind = "flying"
             /\ Disjoint(ls) => ~\E s \in shorts : s.start = more[m].start /\ s.end = more[m].end
    BY <1>1, <1>2, <1>4, FlownShapes
<1>5. CASE vendor # NoVendor
    <2> DEFINE covers(l) == UNION {l[i].start .. (l[i].end - 1) : i \in DOMAIN l}
    <2>1. ls = vendor'
        BY <1>1, <1>5
    <2>2. covers(published') = covers(vendor')
        BY <1>3, <2>1 DEF Covers
    <2>3. \A i \in DOMAIN published' : published'[i].kind = "flying" =>
             /\ \E j \in DOMAIN vendor' : /\ vendor'[j].start = published'[i].start
                                          /\ vendor'[j].end = published'[i].end
                                          /\ vendor'[j].complete \/ vendor'[j].kind = "flying"
             /\ Disjoint(vendor)' =>
                  ~\E s \in stops' : s.start = published'[i].start /\ s.end = published'[i].end
        BY <1>1, <1>4, <2>1 DEF Disjoint
    <2> QED
        BY <2>2, <2>3 DEF VendorLapsKept
<1>6. CASE vendor = NoVendor
    BY <1>1, <1>6 DEF VendorLapsKept
<1> QED
    BY <1>5, <1>6

(***************************************************************************)
(* What is published.  Only classification publishes, and nothing follows  *)
(* it, so each property holds vacuously before it and is kept after it.    *)
(***************************************************************************)
PublicationHolds ==
    PublishedInOrder /\ PublishedFlyingIsTimed /\ PublishedStintsAdvance /\ VendorLapsKept

LEMMA Unpublished ==
    ASSUME ~Published
    PROVE  PublicationHolds
BY DEF PublicationHolds, PublishedInOrder, PublishedFlyingIsTimed, PublishedStintsAdvance,
       VendorLapsKept

LEMMA UnpublishedNext ==
    ASSUME ~Published'
    PROVE  PublicationHolds'
BY DEF PublicationHolds, PublishedInOrder, PublishedFlyingIsTimed, PublishedStintsAdvance,
       VendorLapsKept

LEMMA ClassifyPublishes ==
    ASSUME PublicationInv, Classify
    PROVE  PublicationHolds'
BY ClassifyInOrder, ClassifyTimed, ClassifyStints, ClassifyVendor DEF PublicationHolds

LEMMA StillPublished ==
    ASSUME PublicationHolds, UNCHANGED allVars
    PROVE  PublicationHolds'
<1>1. UNCHANGED <<laps, resets, vendor, stage, published, minimum, stops>>
    BY DEF allVars, vars, pvars
<1>2. PublishedInOrder'
    BY <1>1 DEF PublicationHolds, PublishedInOrder, Published, Disjoint
<1>3. PublishedFlyingIsTimed'
    BY <1>1, StandsStillStands DEF PublicationHolds, PublishedFlyingIsTimed, Published
<1>4. PublishedStintsAdvance'
    BY <1>1 DEF PublicationHolds, PublishedStintsAdvance, Published, StintsAscend, Precedes
<1>5. VendorLapsKept'
    BY <1>1 DEF PublicationHolds, VendorLapsKept, Published, Disjoint
<1> QED
    BY <1>2, <1>3, <1>4, <1>5 DEF PublicationHolds

LEMMA PublicationKept ==
    ASSUME PublicationInv, PublicationHolds, [PNext]_allVars
    PROVE  PublicationHolds'
<1>1. ASSUME Walk PROVE PublicationHolds'
    <2>1. ~Published'
        BY <1>1 DEF Walk, pvars, Published
    <2> QED
        BY <2>1, UnpublishedNext
<1>2. ASSUME Pick PROVE PublicationHolds'
    <2>1. ~Published'
        BY <1>2 DEF Pick, Published
    <2> QED
        BY <2>1, UnpublishedNext
<1>3. ASSUME ValidateLap PROVE PublicationHolds'
    <2>1. ~Published'
        BY <1>3 DEF ValidateLap, Published
    <2> QED
        BY <2>1, UnpublishedNext
<1>4. ASSUME Validated PROVE PublicationHolds'
    <2>1. ~Published'
        BY <1>4 DEF Validated, Published
    <2> QED
        BY <2>1, UnpublishedNext
<1>5. ASSUME Classify PROVE PublicationHolds'
    BY <1>5, ClassifyPublishes
<1>6. ASSUME UNCHANGED allVars PROVE PublicationHolds'
    BY <1>6, StillPublished
<1> QED
    BY <1>1, <1>2, <1>3, <1>4, <1>5, <1>6 DEF PNext

LEMMA PublicationHeld == PSpec => []PublicationHolds
<1>1. PInit => PublicationHolds
    BY Unpublished DEF PInit, Published
<1>2. PublicationInv /\ PublicationHolds /\ [PNext]_allVars => PublicationHolds'
    BY PublicationKept
<1> QED
    BY <1>1, <1>2, PublicationInvariant, PTL DEF PSpec

\* Published laps do not run backwards, and do not overlap where those of the
\* source format do not: however boundaries were snapped to timer resets,
\* empty laps dropped and pit stops carved out.
THEOREM PublishesInOrder == PSpec => []PublishedInOrder
<1>1. PublicationHolds => PublishedInOrder
    BY DEF PublicationHolds
<1> QED
    BY <1>1, PublicationHeld, PTL

\* A recovered lap is complete exactly when it flies, and then runs between
\* accepted crossings, is as long as the shortest credible lap, holds no long
\* standstill and follows no stop on track, whatever validation rejected.
THEOREM PublishesTimedLaps == PSpec => []PublishedFlyingIsTimed
<1>1. PublicationHolds => PublishedFlyingIsTimed
    BY DEF PublicationHolds
<1> QED
    BY <1>1, PublicationHeld, PTL

\* Stints advance along the published laps, and strictly after a complete pit
\* lap, a reset and a pit entry.
THEOREM PublishesStintsInTurn == PSpec => []PublishedStintsAdvance
<1>1. PublicationHolds => PublishedStintsAdvance
    BY DEF PublicationHolds
<1> QED
    BY <1>1, PublicationHeld, PTL

\* Classification neither loses nor invents time of a source's own laps, and
\* makes none of them fly that the source does not vouch for.
THEOREM PublishesVendorLaps == PSpec => []VendorLapsKept
<1>1. PublicationHolds => VendorLapsKept
    BY DEF PublicationHolds
<1> QED
    BY <1>1, PublicationHeld, PTL

=============================================================================
