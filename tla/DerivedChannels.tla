--------------------------- MODULE DerivedChannels ---------------------------
(***************************************************************************)
(* What the three processing passes compute (telemetry-passes/src): grades *)
(* of the GPS fixes (gps_quality.rs), positions with bad fixes and         *)
(* teleports masked (gps_clean.rs) and the odometer (speed_distance.rs).   *)
(* The passes run in the order of the registry, one sample per step; which *)
(* of them are applied and how their outputs join the recording is in      *)
(* Conversion.                                                             *)
(*                                                                         *)
(* Both coordinates of a fix are one whole place on a line, 0 where both   *)
(* are zero.  Speeds are whole metres per second.                          *)
(***************************************************************************)
EXTENDS Integers, Sequences, FiniteSets, SequencesExt, FiniteSetsExt

CONSTANTS
  Inputs,         \* see IsInput
  Pole,           \* 90: larger places are no coordinates in degrees
  MinFix, MinSatellites,
  Sentinel,       \* 4000 km, the accuracy of a receiver without a fix
  NoDop,          \* 99
  MaxSpeed,       \* 150 m/s, in places per tick
  ReanchorAfter,  \* 8 rejected fixes
  SpeedGap        \* 1 s between speeds

VARIABLES
  input,
  pass,     \* the pass at work, or "done"
  cursor,   \* index of its next sample
  derived   \* what was derived, and what the pass remembers

passVars == <<input, pass, cursor, derived>>

Absent == -1   \* the channel is missing or has no sample there
Nan == -2
Dropout == -1000   \* a speed that is not a number
NoFix == << >>

Reading == {Absent, Nan} \cup Nat

GpsFixes == [at : Nat, place : {Nan} \cup Nat,
          fix : Reading, satellites : Reading, accuracy : Reading, dop : Reading]

IsInput(r) ==
    /\ r.fixes \in Seq(GpsFixes)
    /\ r.speeds \in Seq([at : Nat, speed : Int])
    /\ r.ends \in Nat   \* of the speed channel
    /\ r.graded \in BOOLEAN /\ r.minutes \in BOOLEAN

\* The passes' applicability: recordings that fail it skip the pass.
Ascends(samples) == \A i \in 2..Len(samples) : samples[i].at >= samples[i - 1].at

\* Half of the probed latitudes, those not zero, may lie beyond the poles.
InDegrees ==
    LET known == {i \in DOMAIN input.fixes : input.fixes[i].place > 0}
        beyond == {i \in known : input.fixes[i].place > Pole}
    IN  ~input.minutes /\ (known = {} \/ 2 * Cardinality(beyond) < Cardinality(known))

GpsReady == input.fixes # << >> /\ InDegrees

Start(name) ==
    CASE name = "gps.quality" -> input.graded /\ GpsReady
      [] name = "gps.clean" -> GpsReady /\ Ascends(input.fixes)
      [] name = "speed.distance" -> input.speeds # << >> /\ Ascends(input.speeds)

Passes == <<"gps.quality", "gps.clean", "speed.distance">>

Following(name) ==
    LET at == CHOOSE k \in DOMAIN Passes : Passes[k] = name
    IN  IF at = Len(Passes) THEN "done" ELSE Passes[at + 1]

PassInit ==
    /\ input \in Inputs
    /\ pass = "gps.quality" /\ cursor = 0
    /\ derived = [valid |-> << >>, sigma |-> << >>, clean |-> << >>, accepted |-> NoFix,
                  streak |-> 0, gap |-> 0, odometer |-> << >>, doubt |-> << >>, gaps |-> 0,
                  held |-> << >>]

Samples == IF pass = "speed.distance" THEN input.speeds ELSE input.fixes

\* A pass checks its inputs before it takes the first sample.
Check ==
    /\ pass # "done" /\ cursor = 0
    /\ IF Start(pass) THEN cursor' = 1 /\ UNCHANGED pass
       ELSE cursor' = 0 /\ pass' = Following(pass)
    /\ UNCHANGED <<input, derived>>

Finish ==
    /\ pass # "done" /\ cursor > Len(Samples)
    /\ pass' = Following(pass) /\ cursor' = 0
    /\ UNCHANGED <<input, derived>>

Takes(name) == pass = name /\ cursor \in DOMAIN Samples

Advance == cursor' = cursor + 1 /\ UNCHANGED <<input, pass>>

-----------------------------------------------------------------------------
(* gps.quality                                                             *)

Sane(place) == place > 0 /\ place <= Pole

Solved(f) ==
    IF f.fix # Absent THEN f.fix >= MinFix
    ELSE f.satellites = Absent \/ f.satellites >= MinSatellites

Valid(f) == Sane(f.place) /\ Solved(f) /\ f.accuracy < Sentinel

\* Metres: the receiver's own estimate, else 5 m of range error per unit of
\* dilution, else 15 m.
Sigma(f) ==
    IF ~Valid(f) THEN Nan
    ELSE IF f.accuracy > 0 THEN f.accuracy
    ELSE IF f.dop > 0 /\ f.dop < NoDop THEN 5 * f.dop ELSE 15

Grade ==
    /\ Takes("gps.quality")
    /\ LET f == input.fixes[cursor]
       IN  derived' = [derived EXCEPT !.valid = Append(@, Valid(f)), !.sigma = Append(@, Sigma(f))]
    /\ Advance

-----------------------------------------------------------------------------
(* gps.clean                                                               *)

Distance(a, b) == IF a < b THEN b - a ELSE a - b

\* Without a grade every sane fix is trusted.
Reliable(i) ==
    /\ i \in DOMAIN derived.valid => derived.valid[i]
    /\ Sane(input.fixes[i].place)

\* Too fast from the fix accepted last.  At one instant nothing is too fast.
Teleports(f) ==
    /\ derived.accepted # NoFix
    /\ LET last == derived.accepted[1]
       IN  /\ f.at > last.at
           /\ Distance(last.place, f.place) > MaxSpeed * (f.at - last.at)

\* Since when the car stands at an instant (stationary_lead_in, see
\* MotionEvidence), the instant itself when it does not: the sample in force
\* and those before it are zero, each within SpeedGap of the next.
StandsFrom(s, time) ==
    LET from(i) == input.speeds[i].at
        within == {i \in DOMAIN input.speeds : from(i) >= s /\ from(i) <= time}
    IN  /\ within # {} /\ from(Min(within)) = s /\ time < input.ends
        /\ time - from(Max(within)) <= SpeedGap
        /\ \A i \in within : /\ input.speeds[i].speed = 0
                             /\ i + 1 \in within => from(i + 1) - from(i) <= SpeedGap

StationaryLeadIn(time) ==
    Min({time} \cup {s \in {input.speeds[i].at : i \in DOMAIN input.speeds} : StandsFrom(s, time)})

\* Wrong: the whole gap is given the position found after it.
FilledWhole(f) ==
    LET since == StationaryLeadIn(f.at)
    IN  [i \in DOMAIN derived.clean |->
            IF derived.gap # 0 /\ i >= derived.gap /\ since < f.at THEN f.place ELSE derived.clean[i]]

\* The masked samples during which the car stood where it is found now.
Filled(f) ==
    LET since == StationaryLeadIn(f.at)
    IN  [i \in DOMAIN derived.clean |->
            IF derived.gap # 0 /\ i >= derived.gap /\ since < f.at /\ input.fixes[i].at >= since
            THEN f.place ELSE derived.clean[i]]

Accepted(f) ==
    [derived EXCEPT !.clean = Append(Filled(f), f.place), !.accepted = <<[at |-> f.at, place |-> f.place]>>,
                    !.streak = 0, !.gap = 0]

Masked(streak) ==
    [derived EXCEPT !.clean = Append(@, Nan), !.streak = streak, !.gap = IF @ = 0 THEN cursor ELSE @]

Accept ==
    /\ Takes("gps.clean") /\ Reliable(cursor) /\ ~Teleports(input.fixes[cursor])
    /\ derived' = Accepted(input.fixes[cursor])
    /\ Advance

\* The receiver is somewhere else for good.
Reanchor ==
    /\ Takes("gps.clean") /\ Reliable(cursor) /\ Teleports(input.fixes[cursor])
    /\ derived.streak >= ReanchorAfter
    /\ derived' = Accepted(input.fixes[cursor])
    /\ Advance

MaskTeleport ==
    /\ Takes("gps.clean") /\ Reliable(cursor) /\ Teleports(input.fixes[cursor])
    /\ derived.streak < ReanchorAfter
    /\ derived' = Masked(derived.streak + 1)
    /\ Advance

MaskInvalid ==
    /\ Takes("gps.clean") /\ ~Reliable(cursor)
    /\ derived' = Masked(derived.streak)
    /\ Advance

-----------------------------------------------------------------------------
(* speed.distance                                                          *)

\* A dropout, and a negative speed, hold the speed before them.
SpeedHeld(speed) ==
    IF speed >= 0 THEN speed
    ELSE IF derived.held = << >> THEN 0 ELSE derived.held[2]

\* Twice the distance, and 400 times the uncertainty: half a percent of the
\* distance, and half of what was driven in gaps.
Integrate ==
    /\ Takes("speed.distance")
    /\ LET sample == input.speeds[cursor]
           speed == SpeedHeld(sample.speed)
           dt == sample.at - derived.held[1]
           first == derived.held = << >>
           twice == IF first THEN 0 ELSE (derived.held[2] + speed) * dt
           driven == twice + IF first THEN 0 ELSE Last(derived.odometer)
           gaps == derived.gaps + IF ~first /\ dt > SpeedGap THEN twice ELSE 0
       IN  derived' = [derived EXCEPT !.odometer = Append(@, driven), !.gaps = gaps,
                                      !.doubt = Append(@, driven + 100 * gaps),
                                      !.held = <<sample.at, speed>>]
    /\ Advance

-----------------------------------------------------------------------------
PassNext ==
    \/ Check \/ Finish
    \/ Grade
    \/ Accept \/ Reanchor \/ MaskTeleport \/ MaskInvalid
    \/ Integrate

PassSpec == PassInit /\ [][PassNext]_passVars

-----------------------------------------------------------------------------
(* Properties                                                              *)

FixAt(i) == input.fixes[i]

\* A fix that the receiver solved, at a real place.
Own(i) == /\ derived.clean[i] = FixAt(i).place /\ Sane(FixAt(i).place)
          /\ derived.valid # << >> => derived.valid[i]

\* The car did not move between two samples: its speed is zero at every one of
\* the speed channel's samples from the first through the second, there are
\* some, and none is missing.
StoodBetween(i, j) ==
    LET seen == {k \in DOMAIN input.speeds : input.speeds[k].at >= FixAt(i).at - SpeedGap
                                                   /\ input.speeds[k].at <= FixAt(j).at}
    IN  \A t \in FixAt(i).at..FixAt(j).at :
            \E k \in seen : /\ input.speeds[k].at <= t /\ t - input.speeds[k].at <= SpeedGap
                            /\ \A l \in seen : l >= k /\ input.speeds[l].at <= t => input.speeds[l].speed = 0

\* The position left in a masked recording is the receiver's own at that
\* instant, or the one it reports at the end of a standstill that was under way
\* then; and two of the receiver's own next to each other are not faster than a
\* car can be, unless it insisted on the new place ReanchorAfter times or the
\* second is where the car is found after standing.
CleanIsPlausible ==
    LET clean == DOMAIN derived.clean
        own == {i \in clean : Own(i)}
        insisted(i, j) == {k \in (i + 1)..(j - 1) :
                             Sane(FixAt(k).place) /\ (derived.valid # << >> => derived.valid[k])}
    IN  /\ \A i \in clean : (derived.clean[i] # Nan /\ i \notin own) =>
              \E j \in own : j > i /\ derived.clean[j] = derived.clean[i] /\ StoodBetween(i, j)
        /\ \A i, j \in own :
              i < j /\ (\A k \in (i + 1)..(j - 1) : k \notin own) /\ FixAt(j).at > FixAt(i).at
                /\ Distance(FixAt(i).place, FixAt(j).place) > MaxSpeed * (FixAt(j).at - FixAt(i).at)
                => \/ Cardinality(insisted(i, j)) >= ReanchorAfter
                   \/ \E k \in own : k > j /\ derived.clean[k] = derived.clean[j] /\ StoodBetween(j, k)

\* A car that rolls backwards from one sample to the next adds nothing to the
\* odometer: negative speeds clamp to zero.
ReversingAddsNothing ==
    \A i \in 2..Len(derived.odometer) :
        {input.speeds[i - 1].speed, input.speeds[i].speed} \subseteq (Dropout + 1)..-1 =>
            derived.odometer[i] = derived.odometer[i - 1]

=============================================================================
