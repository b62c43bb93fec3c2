----------------------------- MODULE MCEvidence -----------------------------
(***************************************************************************)
(* The evidence the lap walk asks for: one question to one speed channel,  *)
(* or one GPS trace past a pit lane; and what a client reads of a          *)
(* recording by the roles of its channels, and what the processing passes  *)
(* derive from its fixes and speeds.  A second is one tick of a speed      *)
(* channel and four ticks of a trace.                                      *)
(*                                                                         *)
(* A behaviour is about one of them: it has the variables of the module    *)
(* that models it, here those of SignalRoles, and leaves the others alone. *)
(***************************************************************************)
EXTENDS MotionEvidence, LapSignals, TrackEvidence, DerivedChannels, TLC

VARIABLES evidence, source, roles, instant, sample, circuit

roleVars == <<source, roles, instant, sample, circuit>>

allVars == <<evidence, vars, signalsVars, trackVars, passVars, roleVars>>

-----------------------------------------------------------------------------
(* Speed channels                                                          *)

Run(period, count, at) == [period |-> period, count |-> count, at |-> at]

Signal(chunks, values, duration, discrete) ==
    [explicit |-> FALSE, stamps |-> << >>, chunks |-> chunks, values |-> values,
     duration |-> duration, discrete |-> discrete]

\* And with the times written down, where they ascend.
Both(signals) == signals \cup {s \in {Stamped(t) : t \in signals} : IsSignal(s)}

\* Two runs that overlap, meet or leave a gap, one without a rate, one empty.
Laid ==
    {<<Run(p, 3, 1), Run(q, 3, a)>> : p \in {0, 2, 3}, q \in {1, 2}, a \in {3, 7, 9, 10, 12}}
      \cup {<<Run(2, 3, 1), Run(1, 0, 7), Run(2, 3, 7)>>}

Sampled ==
    Both({Signal(l, <<3, 0, 5, 1, 4, 4>>, d, x) :
            l \in {m \in Laid : m[1].period > 0 \/ m[2].at = 3}, d \in {9, 13, 15}, x \in BOOLEAN})

Ascending == {<<Run(2, 3, 1), Run(1, 4, a)>> : a \in {7, 8, 12}} \cup {<<Run(p, 7, 0)>> : p \in {1, 2}}

Stood == Both({Signal(l, v, 13, FALSE) : l \in Ascending, v \in [1..7 -> {0, 1}]})

\* Seven samples that may stand, crawl, run fast or be bad, with and without a
\* gap of a second, or a step back.
Drives ==
    {Signal(l, v, 16, FALSE) :
        l \in {<<Run(1, 3, 1), Run(1, 4, 4)>>, <<Run(1, 2, 1), Run(1, 5, 5)>>, <<Run(2, 7, 0)>>,
               <<Run(1, 6, 0), Run(1, 1, 7)>>, <<Run(2, 3, 0), Run(1, 4, 3)>>},
        v \in {0, 3, -1} \X {0, 1, 3} \X {0, 1, 3, -1} \X {0, 1, 3} \X {1, 3} \X {0, 3, -1} \X {3}}

Few ==
    {Signal(l, v, 16, FALSE) :
        l \in Ascending, v \in {0, 1, 9} \X {-1, 0} \X {0, 3} \X {0, 1} \X {0, 1, -1} \X {0, 3} \X {0}}

FewStamped == Both(Few)

Asked(signals, of, windows) ==
    [signal : signals, question : {[of |-> of, from |-> w[1], to |-> w[2]] : w \in windows}]

SpeedCases ==
    UNION {Asked(Sampled, "sample", {0} \X (0..15)),
           Asked(Stood, "lead-in", {0} \X {3, 6, 7, 8, 10, 14}),
           Asked(Drives, "departure", {<<0, 9>>, <<1, 20>>}),
           Asked(Few, "motion", {<<1, 15>>}),
           Asked(FewStamped, "stop", {<<0, 15>>, <<3, 8>>}),
           Asked(FewStamped, "window", {<<2, 5>>, <<3, 8>>, <<0, 9>>})}

-----------------------------------------------------------------------------
(* GPS traces: from the circuit through the lane back to the circuit       *)

Fix(progress, distance, side, speed) ==
    [progress |-> progress, distance |-> distance, signed |-> side * distance, speed |-> speed,
     error |-> 1, fixed |-> TRUE]

ThroughTheLane ==
    <<Fix(85, 5, 1, 30), Fix(88, 9, -1, 20), Fix(91, 30, -1, 20), Fix(94, 28, -1, 20), Fix(99, 20, -1, 15),
      Fix(1, 20, -1, 15), Fix(6, 20, -1, 15), Fix(9, 15, -1, 20), Fix(12, 8, -1, 30), Fix(40, 5, 1, 40)>>

\* Lost, inaccurate, too fast, on the track, or back over the line or the entry.
Otherwise(fix) ==
    {fix, [fix EXCEPT !.fixed = FALSE], [fix EXCEPT !.error = 4], [fix EXCEPT !.speed = 28],
     [fix EXCEPT !.signed = 0, !.distance = 0], [fix EXCEPT !.progress = 99],
     [fix EXCEPT !.progress = 1], [fix EXCEPT !.progress = 89]}

\* One fix a tick; one may come late, and all behind it.
Timed(fixes, late) ==
    [i \in DOMAIN fixes |-> fixes[i] @@ [at |-> IF i < late THEN i ELSE i + 1]]

Beacon(at, distance, progress, signed) ==
    [at |-> at, distance |-> distance, progress |-> progress, signed |-> signed]

Laps == <<Beacon(1, 3, 99, 3), Beacon(14, 2, 1, -2), Beacon(32, 2, 1, 0)>>

NoProbes == << >>

TraceOf(fixes, beacons) == [fixes |-> fixes, beacons |-> beacons, probes |-> NoProbes]

LaneTraces ==
    UNION {{TraceOf(Timed([ThroughTheLane EXCEPT ![i] = a, ![j] = b], late), Laps) :
              a \in Otherwise(ThroughTheLane[i]), b \in Otherwise(ThroughTheLane[j])} :
           i \in 1..5, j \in 6..10, late \in {6, 11}}

\* The lane twice, or the line crossed again and again in the lane.
LongTraces ==
    {TraceOf(Timed(ThroughTheLane \o ThroughTheLane, late), Laps) : late \in {1, 11, 15}}
      \cup {TraceOf(Timed(SubSeq(ThroughTheLane, 1, 6) \o SubSeq(ThroughTheLane, k, 10), 30), Laps) : k \in 1..7}
      \cup {TraceOf(Timed(SubSeq(ThroughTheLane, 1, 6) \o <<Fix(99, near, -1, 15)>>
                            \o SubSeq(ThroughTheLane, 6, 10), 30), Laps) : near \in {10, 15}}

BeaconTraces ==
    {TraceOf(Timed(ThroughTheLane, 30), <<Beacon(at, d, 97, s), Beacon(14, 2, p, -2), Beacon(32, 2, 3, t)>>) :
        at \in {1, 12}, d \in {3, 13}, s \in {3, 19}, p \in {4, 50}, t \in {0, -18}}

ProbeTraces ==
    {[fixes |-> << >>, beacons |-> << >>,
      probes |-> [k \in 1..4 |-> [at |-> k * pace, venue |-> v[k],
                                  shortest |-> IF v[k] = "spa" THEN length ELSE 20]]] :
        pace \in {3, 4, 7}, length \in {-1, 30}, v \in [1..4 -> {"none", "spa", "monza"}]}

GpsTraces == LaneTraces \cup LongTraces \cup BeaconTraces \cup ProbeTraces

-----------------------------------------------------------------------------
(* Recordings: channels that may play a role, with and without their unit, *)
(* and fixes written as degrees, minutes or DDMM                           *)

Channel(name, unit, written, values) ==
    [name |-> name, unit |-> unit, written |-> written, float |-> TRUE,
     signal |-> Signal(<<Run(2, Len(values), 0)>>, values, 2 * Len(values), FALSE)]

Wants ==
    [speed |-> <<"vcar", "gpsspeed", "speed">>, throttle |-> <<"pps", "throttle">>, brake |-> <<"brake">>,
     clutch |-> <<"clutch">>, pressure |-> <<"pbrake">>, steering |-> <<"steering">>, rpm |-> <<"rpm">>,
     laptime |-> <<"laptime">>, progress |-> <<"lapdistpct">>, gear |-> <<"gear">>,
     lapnumber |-> <<"lapnumber">>, latitude |-> <<"gpslatitudeclean", "latitude">>,
     longitude |-> <<"gpslongitudeclean", "longitude">>]

\* Six samples from a time on with a peak in some: two that follow each other
\* are never missed by three probes, one is.
Peaked(name, written, rest, peak, peaks, at) ==
    [Channel(name, "", written, << >>) EXCEPT
       !.signal = Signal(<<Run(2, 6, at)>>, [k \in 1..6 |-> IF k \in peaks THEN peak ELSE rest], at + 12, FALSE)]

\* Slow and fast cars: up to 120 m/s and 252 km/h.
SpeedNamed(name) ==
    {<< >>, <<Channel(name, "", "m/s", << >>)>>}
      \cup {<<Channel(name, unit, "m/s", <<0, 5400, 12000, 3600>>)>> : unit \in {"", "m/s", "count"}}
      \cup {<<Channel(name, unit, "km/h", <<0, top, 9000>>)>> : unit \in {"", "km/h"}, top \in {12600, 25200}}
      \cup {<<Peaked(name, "km/h", 9000, 25200, peaks, 1)>> : peaks \in {{4}, {4, 5}}}

\* A pedal may be pressed hardly, briefly or hard, in any unit.
PedalNamed(name) ==
    {<< >>}
      \cup {<<Channel(name, unit, "ratio", <<0, 99, 50>>)>> : unit \in {"", "ratio"}}
      \cup {<<Channel(name, unit, "percent", <<low, 10000, 106>>)>> : unit \in {"", "percent"}, low \in {0, -4}}
      \cup {<<Channel(name, "", "ratio", <<105, 0>>)>>, <<Channel(name, "", "percent", <<0, 106>>)>>,
            <<Channel(name, "", "percent", <<80, 0>>)>>}
      \cup {<<Peaked(name, "percent", 50, 10000, peaks, at)>> : peaks \in {{4}, {4, 5}, {2, 3}}, at \in {0, 3}}
      \cup {<<Channel(name, "deg", "deg", <<200, 10100>>)>>, <<Channel(name, "rad", "rad", <<3, 176>>)>>,
            <<Channel(name, "", "deg", <<-600, 400>>)>>}

Others ==
    {<<Channel("steering", "", "rad", <<-314, 600>>), Channel("rpm", "", "rpm", <<90000, 798100>>),
       Channel("laptime", "", "ms", <<130000, 1000>>), Channel("lapdistpct", "percent", "percent", <<9900, 100>>)>>,
     <<Channel("steering", "", "deg", <<-3000, 1000>>), Channel("rpm", "", "rad/s", <<9000, 83000>>),
       Channel("laptime", "", "s", <<100, 8900>>), Channel("lapdistpct", "m", "m", <<9900, 100>>)>>,
     <<Channel("steering", "rad", "rad", <<-314, 600>>), Channel("rpm", "rad/s", "rad/s", <<9000, 83000>>),
       Channel("laptime", "ms", "ms", <<50, 60>>), Channel("lapdistpct", "", "percent", <<9900, 100>>),
       Channel("gear", "", "gear", <<100, 200>>), Channel("lapnumber", "", "lap", <<300, 100>>),
       Channel("pbrake", "psi", "psi", <<0, 9000>>)>>,
     <<Channel("steering", "", "rad", <<-314, 700>>), Channel("rpm", "", "rpm", <<90000, 250000>>),
       Channel("laptime", "", "ms", <<50000, 90000>>), Channel("pbrake", "", "psi", <<0, 9000>>)>>,
     <<Channel("laptime", "", "s", <<99000, 101000>>)>>}

TwoLaps == <<[start |-> 0, end |-> 2, number |-> 1, stint |-> 1, stintlap |-> 1],
             [start |-> 2, end |-> 4, number |-> 2, stint |-> 2, stintlap |-> 1]>>

Recorded(channels, laps, clock, place) == [channels |-> channels, laps |-> laps, clock |-> clock, place |-> place]

NoClock == [name |-> "none", offset |-> 0]

SpeedRecordings ==
    {Recorded(a \o b \o c, << >>, NoClock, << >>) :
        a \in SpeedNamed("gpsspeed"), b \in SpeedNamed("vcar"), c \in SpeedNamed("speed")}

PedalRecordings ==
    {Recorded(a \o b \o o, TwoLaps, [name |-> clock, offset |-> 22], << >>) :
        a \in PedalNamed("pps"), b \in PedalNamed("brake"), o \in Others, clock \in {"time_of_day", "utc"}}

\* The places of the circuits, near and far from them, in minutes of arc.
Places == {<<3090, -90>>, <<3110, -95>>, <<3060, -60>>, <<1860, 60>>, <<1840, 40>>, <<1835, 70>>, <<1800, 0>>, <<5340, 120>>}

AsPacked(n) ==
    LET packed(m) == (m \div 60) * 100 + (m % 60)
    IN  IF n < 0 THEN -packed(-n) ELSE packed(n)

Written(n, way) ==
    CASE way = "packed" -> AsPacked(n) [] way = "minutes" -> n [] way = "degrees" -> n \div 60

\* Minutes count west as positive; a fix may be lost at the origin.
Fixed(place, way, lost) ==
    LET unit == IF way = "degrees" THEN "deg" ELSE "min"
        east == Written(place[2], way)
        signed == IF way = "degrees" THEN east ELSE -east
        over(n) == [i \in 1..4 |-> IF i \in lost THEN 0 ELSE n]
    IN  <<Channel("latitude", unit, unit, over(Written(place[1], way))),
          Channel("longitude", unit, unit, over(signed))>>

PlaceRecordings ==
    {Recorded(Fixed(p, way, lost), << >>, NoClock, IF lost = 1..4 THEN << >> ELSE p) :
        p \in Places, way \in {"packed", "minutes"}, lost \in {{}, {1}, {2, 3}, 1..4}}
      \cup {Recorded(Fixed(p, "degrees", lost), << >>, NoClock, p) :
              p \in {q \in Places : q[1] % 60 = 0 /\ q[2] % 60 = 0}, lost \in {{}, {1}, {2, 4}}}

Roles == INSTANCE SignalRoles WITH
           Sources <- UNION {SpeedRecordings, PedalRecordings, PlaceRecordings},
           Wanted <- Wants, StepNames <- {"gear", "lapnumber"}, Probes <- 3, Fixes <- 4,
           Circuits <- {<<3090, -90>>, <<1840, 40>>}, Reach <- 40, Day <- 24, LastInstant <- 8

-----------------------------------------------------------------------------
(* Fixes and speeds for the passes: the car at 20, far away at 80, or       *)
(* lost; late fixes and two at one instant                                 *)

Receiver(place) == [place |-> place, fix |-> 3, satellites |-> -1, accuracy |-> -1, dop |-> -1]

\* Lost, a fix is reckoned from the last one when graded, no place otherwise.
Found(where, graded) ==
    CASE where = "near" -> Receiver(20) [] where = "far" -> Receiver(80)
      [] graded -> [Receiver(50) EXCEPT !.fix = 1] [] OTHER -> Receiver(-2)

FixesAt(times, fixes) == [i \in DOMAIN fixes |-> fixes[i] @@ [at |-> times[i]]]

SpeedsOf(values, times) == [i \in DOMAIN values |-> [at |-> times[i], speed |-> values[i]]]

Derivation(fixes, speeds, graded) ==
    [fixes |-> fixes, speeds |-> speeds, graded |-> graded, minutes |-> FALSE, ends |-> 14]

\* A speed every two ticks, zero in some.
Rolling(stopped) == SpeedsOf([i \in 1..7 |-> IF i \in stopped THEN 0 ELSE 4], [i \in 1..7 |-> 2 * i - 2])

CleanCases ==
    {Derivation(FixesAt(times, [i \in 1..6 |-> Found(seen[i], graded)]), Rolling(stopped), graded) :
        times \in {<<0, 2, 4, 6, 8, 10>>, <<0, 2, 4, 4, 11, 13>>}, stopped \in {{}, 3..5, 4..7},
        seen \in [1..6 -> {"near", "far", "nowhere"}], graded \in BOOLEAN}

GradeCases ==
    {Derivation(<<[at |-> 1, place |-> place, fix |-> fix, satellites |-> n, accuracy |-> a, dop |-> d]>>, << >>, TRUE) :
        place \in {20, 95}, fix \in {-1, -2, 1, 2}, n \in {-1, -2, 3, 4}, a \in {-1, -2, 0, 3, 4000}, d \in {-1, -2, 2, 99}}
      \cup {Derivation(FixesAt(<<2, 1, 3>>, <<Receiver(a), Receiver(b), Receiver(c)>>), << >>, TRUE) :
              a \in {0, 20, 95}, b \in {20, 95}, c \in {0, 20}}
      \cup {[Derivation(FixesAt(<<1, 2>>, <<Receiver(20), Receiver(20)>>), << >>, TRUE) EXCEPT !.minutes = TRUE]}

OdometerCases ==
    {Derivation(<< >>, SpeedsOf(values, times), FALSE) :
        times \in {<<0, 2, 4, 6>>, <<1, 4, 4, 5>>, <<0, 2, 1, 3>>}, values \in [1..4 -> {0, 5, -5, -1000}]}

PassInputs == CleanCases \cup GradeCases \cup OdometerCases

-----------------------------------------------------------------------------
(* Lap counters and lap timers                                             *)

NoTimer ==
    [counters |-> << >>, timer |-> << >>, progress |-> FALSE, unit |-> "s", period |-> 2,
     duration |-> 20, beacons |-> {}, late |-> 0, zeros |-> {}]

Counters ==
    {[rank |-> rank, populated |-> TRUE, crossings |-> n, laps |-> n + 1] : rank \in 1..2, n \in 0..3}
      \cup {[rank |-> 0, populated |-> TRUE, crossings |-> 0, laps |-> 0],
            [rank |-> 1, populated |-> FALSE, crossings |-> 0, laps |-> 0],
            [rank |-> 1, populated |-> TRUE, crossings |-> 0, laps |-> 0]}

CounterRecordings == {[NoTimer EXCEPT !.counters = c] : c \in [1..3 -> Counters]}

\* What a timer shows at time t that began its first lap at `since`.
Running(t, since, beacons, late) ==
    LET begun == {b \in beacons : b + late <= t}
    IN  t - (IF begun = {} THEN since ELSE CHOOSE b \in begun : \A a \in begun : a <= b)

TimerOf(period, unit, since, beacons, late, zeros, bad) ==
    LET count == 20 \div period
        shown(k) == Running((k - 1) * period, since, beacons, late)
        value(k) == IF k \in bad THEN -1 ELSE IF k \in zeros THEN 0
                    ELSE shown(k) * (CASE unit[1] = "%" -> 1250 [] unit[1] = "ratio" -> 12
                                       [] OTHER -> unit[3])
    IN  [NoTimer EXCEPT !.timer = [k \in 1..count |-> [at |-> (k - 1) * period, value |-> value(k)]],
             !.progress = unit[1] \in {"%", "ratio"}, !.unit = unit[2], !.period = period,
             !.beacons = beacons, !.late = late, !.zeros = zeros]

Stopwatches == {<<"time", "s", 1>>, <<"time", "ms", 1000>>, <<"time", "", 1>>, <<"time", "", 1000>>}
Fractions == {<<"%", "", 0>>, <<"ratio", "", 0>>}

\* One beacon, or two that part laps long enough to show or too short.
Passed == {{}} \cup {{b} : b \in 4..18} \cup {{b, b + lap} : b \in 6..9, lap \in {6, 8, 10}}

Outages == {{}} \cup {i..j : i \in 4..9, j \in {5, 6, 9}}

TimerRecordings ==
    {TimerOf(p, <<"time", "s", 1>>, 0, beacons, late, zeros, {}) :
        p \in 1..2, beacons \in Passed, late \in 0..2, zeros \in Outages}
      \cup {TimerOf(p, unit, since, beacons, late, {}, bad) :
              p \in 1..2, unit \in Stopwatches \cup {<<"time", "rpm", 1>>}, since \in {0, -9},
              beacons \in {{}, {7}, {8, 17}}, late \in {0, 2}, bad \in {{}, {5}, {9, 10}}}
      \cup {TimerOf(p, unit, b - 8, {b, b + 8}, 0, zeros, bad) :
              p \in 1..2, unit \in Fractions, b \in 3..8, zeros \in {{}, {4}}, bad \in {{}, {5}}}

\* The dash adopts a time from elsewhere between the eighth and ninth samples.
Adopting ==
    {[r EXCEPT !.timer = [k \in DOMAIN @ |-> IF k <= 8 THEN [@[k] EXCEPT !.value = @ + extra] ELSE @[k]]] :
        r \in {TimerOf(p, <<"time", "s", 1>>, since, beacons, 0, {}, {}) :
                 p \in 1..2, since \in {-9, 0}, beacons \in {{}, {17}}},
        extra \in {2, 40}}
      \cup {[r EXCEPT !.timer = [k \in DOMAIN @ |-> IF k <= 8 THEN [@[k] EXCEPT !.value = 40 + k] ELSE @[k]]] :
              r \in {TimerOf(p, <<"time", "s", 1>>, since, beacons, 0, {}, {}) :
                       p \in 1..2, since \in 1..2, beacons \in {{}, {17}}}}

LapRecordings == CounterRecordings \cup TimerRecordings \cup Adopting

-----------------------------------------------------------------------------
ASSUME WellFormedInputs ==
    /\ \A r \in LapRecordings : IsRecording(r)
    /\ \A r \in PassInputs : IsInput(r)
    /\ \A s \in UNION {PedalRecordings, PlaceRecordings} : Roles!IsSource(s)
    /\ \A t \in GpsTraces : IsTrace(t)

\* What a behaviour is not about: no question, no counters, no trace.
NotAsked ==
    /\ signal = Signal(<< >>, << >>, 0, FALSE) /\ question = [of |-> "nothing", from |-> 0, to |-> 0]
    /\ scan = First /\ answer = Open

NotLogged ==
    /\ recording = NoTimer /\ task = "counters" /\ next = 1
    /\ best = << >> /\ resets = {}

NotTraced ==
    /\ trace = TraceOf(<< >>, << >>) /\ step = "beacons" /\ index = 1
    /\ found = [visits |-> << >>, kept |-> << >>, minimum |-> NoLap]

NotDerived ==
    /\ input = Derivation(<< >>, << >>, FALSE) /\ pass = "gps.quality" /\ cursor = 0
    /\ derived = [clean |-> << >>, odometer |-> << >>]

NotRead == source = << >> /\ roles = << >> /\ instant = 0 /\ sample = << >> /\ circuit = << >>

AllInit ==
    \/ evidence = "speed" /\ Init /\ NotLogged /\ NotTraced /\ NotDerived /\ NotRead
    \/ evidence = "laps" /\ SignalsInit /\ NotAsked /\ NotTraced /\ NotDerived /\ NotRead
    \/ evidence = "gps" /\ TrackInit /\ NotAsked /\ NotLogged /\ NotDerived /\ NotRead
    \/ evidence = "derived" /\ PassInit /\ NotAsked /\ NotLogged /\ NotTraced /\ NotRead
    \/ evidence = "roles" /\ Roles!Init /\ NotAsked /\ NotLogged /\ NotTraced /\ NotDerived

AllNext ==
    /\ UNCHANGED evidence
    /\ \/ evidence = "speed" /\ Next /\ UNCHANGED <<signalsVars, trackVars, passVars, roleVars>>
       \/ evidence = "laps" /\ SignalsNext /\ UNCHANGED <<vars, trackVars, passVars, roleVars>>
       \/ evidence = "gps" /\ TrackNext /\ UNCHANGED <<vars, signalsVars, passVars, roleVars>>
       \/ evidence = "derived" /\ PassNext /\ UNCHANGED <<vars, signalsVars, trackVars, roleVars>>
       \/ evidence = "roles" /\ Roles!Next /\ UNCHANGED <<vars, signalsVars, trackVars, passVars>>

AllSpec == AllInit /\ [][AllNext]_allVars

-----------------------------------------------------------------------------
(* Properties of SignalRoles; the others are those of their modules        *)

\* A client reads the quantity that was measured of every channel that declares
\* its unit or whose values tell it, and reads the speed whenever a channel tells
\* it (SignalRoles, Resolve and Sample).
ReadingsAreTrue == evidence = "roles" => Roles!ReadingsAreTrue

\* The car is found at its circuit however its fixes are written (SignalRoles,
\* Locate).
CircuitIsWhereTheCarIs == evidence = "roles" => Roles!CircuitIsWhereTheCarIs

=============================================================================
