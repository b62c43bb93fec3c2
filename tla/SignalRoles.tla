---------------------------- MODULE SignalRoles ----------------------------
(***************************************************************************)
(* What a client reads of any recording (motorsport-telemetry/src/lib.rs): *)
(* which channel plays a role, the unit it is read in, the normalised      *)
(* sample of an instant, and the circuit its fixes are on.                 *)
(*                                                                         *)
(* A channel is [name, unit, written, float, signal]: a matching name, the *)
(* unit it declares or "", the unit its values really are in, and its      *)
(* samples.  Values are whole hundredths of the unit, those of coordinates *)
(* whole units; a reading is << >> or a fraction in the unit of the role.  *)
(***************************************************************************)
EXTENDS SampleAccess, TLC

CONSTANTS
  Sources,   \* [channels, laps, clock, place], see IsSource
  Wanted,    \* role -> the channel names that may play it, best first
  StepNames, \* names whose values are states and are never drawn between
  Probes,    \* 4096: values looked at for the range of a channel
  Fixes,     \* 32: positions looked at for the circuit
  Circuits,  \* places with a circuit, <<north, east>> in minutes of arc
  Reach,     \* 50 km: nearer is at the circuit
  Day,
  LastInstant

VARIABLES source, roles, instant, sample, circuit

vars == <<source, roles, instant, sample, circuit>>

Nobody == 0
Unread == << >>
Unlocated == <<0>>
Nowhere == << >>

Pedals == {"throttle", "brake", "clutch"}

Read == Pedals \cup {"speed", "pressure", "steering", "rpm", "laptime", "progress"}

IsSource(s) ==
    /\ \A c \in DOMAIN s.channels : IsSignal(s.channels[c].signal)
    /\ \A l \in DOMAIN s.laps : s.laps[l].start <= s.laps[l].end

-----------------------------------------------------------------------------
(* Units: what one of a unit is in the unit of the role                    *)

Share == [ratio |-> <<1, 1>>, percent |-> <<1, 100>>]

Scales ==
    [speed |-> ("m/s" :> <<1, 1>> @@ "km/h" :> <<5, 18>>),
     pedal |-> Share @@ [deg |-> <<1, 100>>, rad |-> <<573, 1000>>],
     pressure |-> [bar |-> <<1, 1>>, psi |-> <<7, 100>>],
     steering |-> [deg |-> <<1, 1>>, rad |-> <<573, 10>>, min |-> <<1, 60>>],
     rpm |-> ("rpm" :> <<1, 1>> @@ "rad/s" :> <<19, 2>>),
     laptime |-> [s |-> <<1, 1>>, ms |-> <<1, 1000>>],
     progress |-> Share]

Kind(role) == IF role \in Pedals THEN "pedal" ELSE role

ScaleOf(role) == Scales[Kind(role)]

\* can_convert
Converts(unit, role) == unit \in DOMAIN ScaleOf(role)

\* A pedal is clamped to its travel, a progress outside a lap is none.
InUnit(role, value, unit) ==
    LET scale == ScaleOf(role)[unit]
        all == <<value[1] * scale[1], value[2] * scale[2]>>
    IN  IF value = NoSample \/ ~Converts(unit, role) THEN NoSample
        ELSE IF role \in Pedals
             THEN IF all[1] < 0 THEN <<0, 1>> ELSE IF all[1] > 100 * all[2] THEN <<100, 1>> ELSE all
        ELSE IF role = "progress" /\ (all[1] < 0 \/ all[1] > 100 * all[2]) THEN NoSample
        ELSE all

-----------------------------------------------------------------------------
(* Samples                                                                 *)

UsesStepInterpolation(channel) == ~channel.float \/ channel.name \in StepNames

ValueAt(channel, time, linear) ==
    SampleAt([channel.signal EXCEPT !.discrete = UsesStepInterpolation(channel)], time, linear)

Extremes(seen) ==
    LET values == {v[1] : v \in seen}
    IN  IF seen = {} THEN << >> ELSE <<Min(values), Max(values)>>

\* The least and greatest of evenly spaced probes, << >> when nothing is seen.
Extent(channel) ==
    LET signal == channel.signal
        start == IF signal.chunks = << >> THEN 0 ELSE signal.chunks[1].at
        probes == Min({Len(signal.values), Probes})
        probe(p) == start + (Max({signal.duration - start, 0}) * p) \div probes
    IN  Extremes({ValueAt(channel, probe(p), FALSE) : p \in 0..(probes - 1)} \ {NoSample})

-----------------------------------------------------------------------------
(* Roles and their units                                                   *)

Populated(channel) == channel.signal.values # << >>

\* The first channel of the best name that any channel with Allowed has.
FirstNamed(channels, role, allowed) ==
    LET found == {<<n, c>> \in (DOMAIN Wanted[role]) \X allowed : channels[c].name = Wanted[role][n]}
        best == {p \in found : \A q \in found : p[1] <= q[1]}
    IN  IF found = {} THEN Nobody ELSE Min({p[2] : p \in best})

FindSampled(channels, role) ==
    FirstNamed(channels, role, {c \in DOMAIN channels : Populated(channels[c])})

\* A speed that says its unit before one that does not.
FindSampledWithUnit(channels, role) ==
    LET saying == FirstNamed(channels, role,
                    {c \in DOMAIN channels : Populated(channels[c]) /\ Converts(channels[c].unit, role)})
    IN  IF saying # Nobody THEN saying ELSE FindSampled(channels, role)

InferRoles(channels) ==
    [role \in DOMAIN Wanted |-> IF role = "speed" THEN FindSampledWithUnit(channels, role)
                                ELSE FindSampled(channels, role)]

BeyondAnyCar(extent) == extent # << >> /\ extent[2] > 13000

\* A speed whose unit is declared, or proved by a value no car reaches in m/s.
Settles(channels, c) ==
    IF channels[c].unit = "" THEN BeyondAnyCar(Extent(channels[c]))
    ELSE Converts(channels[c].unit, "speed")

\* Only the first populated channel of a name is asked.
ResolvedRoles(channels) ==
    LET populated == {c \in DOMAIN channels : Populated(channels[c])}
        named == {n \in DOMAIN Wanted["speed"] : \E c \in populated : channels[c].name = Wanted["speed"][n]}
        first(n) == Min({c \in populated : channels[c].name = Wanted["speed"][n]})
        settling == {n \in named : Settles(channels, first(n))}
        inferred == InferRoles(channels)
    IN  IF settling = {} THEN inferred ELSE [inferred EXCEPT !["speed"] = first(Min(settling))]

\* Wrong: a unitless speed above 100 is taken for km/h.
ProvedLoosely(role, low, high) ==
    IF role = "speed" THEN (IF high > 10000 THEN "km/h" ELSE "") ELSE ""

\* The unit a range of values leaves as the only one, "" when it leaves more.
ProvedUnit(role, low, high) ==
    IF role \in Pedals
    THEN IF low < -5 \/ high <= 0 \/ high > 10500 THEN "" ELSE IF high <= 105 THEN "ratio" ELSE "percent"
    ELSE IF role = "speed" /\ high > 13000 THEN "km/h"
    ELSE IF role = "steering" /\ Max({high, -high, low, -low}) > 628 THEN "deg"
    ELSE IF role = "rpm" /\ high > 300000 THEN "rpm"
    ELSE IF role = "laptime" THEN (IF high > 100000 THEN "ms" ELSE "s")
    ELSE ""

\* The unit a channel declares; for some roles, else the unit its range proves.
UnitOfRange(role, extent) == IF extent = << >> THEN "" ELSE ProvedUnit(role, extent[1], extent[2])

RoleUnit(role, channel) ==
    IF channel.unit # "" \/ role = "progress" THEN channel.unit ELSE UnitOfRange(role, Extent(channel))

-----------------------------------------------------------------------------
(* The normalised sample                                                   *)

Reading(role, time) ==
    LET channel == source.channels[roles[role]]
    IN  IF roles[role] = Nobody THEN NoSample
        ELSE InUnit(role, ValueAt(channel, time, role # "rpm"), RoleUnit(role, channel))

State(role, time) ==
    IF roles[role] = Nobody THEN NoSample ELSE ValueAt(source.channels[roles[role]], time, FALSE)

\* The first lap that contains the instant, or 0.
LapAt(time) ==
    LET around == {l \in DOMAIN source.laps : source.laps[l].start <= time /\ time < source.laps[l].end}
    IN  IF around = {} THEN 0 ELSE Min(around)

\* The dash's lap timer, and where it says nothing the time since the lap began.
LapTime(dash, time, lap) ==
    IF dash # NoSample THEN dash
    ELSE IF lap = 0 THEN NoSample ELSE Held(100 * (time - source.laps[lap].start))

NormalizeSample(time) ==
    LET lap == LapAt(time)
        counted == State("lapnumber", time)
        absolute == time + source.clock.offset
    IN  [[role \in Read |-> Reading(role, time)] EXCEPT !.laptime = LapTime(@, time, lap)]
          @@ [gear |-> State("gear", time),
              stintlap |-> IF counted # NoSample THEN counted
                           ELSE IF lap = 0 THEN NoSample ELSE Held(100 * source.laps[lap].stintlap),
              lap |-> IF lap = 0 THEN counted ELSE Held(100 * source.laps[lap].number),
              stint |-> IF lap = 0 THEN 0 ELSE source.laps[lap].stint,
              timeofday |-> IF source.clock.name = "none" \/ absolute < 0 THEN NoSample
                            ELSE Held(IF source.clock.name = "time_of_day" THEN absolute ELSE absolute % Day)]

-----------------------------------------------------------------------------
(* The circuit                                                             *)

Plus(a, b) == <<a[1] * b[2] + b[1] * a[2], a[2] * b[2]>>

Mean(values) ==
    LET sum == FoldSeq(Plus, <<0, 1>>, values)
    IN  <<sum[1], sum[2] * Len(values)>>

PositionAt(north, east, time) == <<ValueAt(north, time, TRUE), ValueAt(east, time, TRUE)>>

\* Positions spread over the time both channels last, without those at the origin.
Positions ==
    LET north == source.channels[roles["latitude"]]
        east == source.channels[roles["longitude"]]
        last == Min({north.signal.duration, east.signal.duration})
    IN  SelectSeq([i \in 1..Fixes |-> PositionAt(north, east, (last * (i - 1)) \div Fixes)],
                  LAMBDA p : /\ p[1] # NoSample /\ p[2] # NoSample
                             /\ (p[1][1] # 0 \/ p[2][1] # 0))

Apply(Op(_), seq) == [i \in DOMAIN seq |-> Op(seq[i])]

Size(n) == IF n < 0 THEN -n ELSE n

\* Degrees and minutes in one number, DDMM; << >> when it is no such number.
PackedCoordinate(value, most) ==
    LET size == Size(value[1])
        degrees == size \div (100 * value[2])
        minutes == size - degrees * 100 * value[2]
        whole == degrees * 60 * value[2] + minutes
    IN  IF degrees > most \/ minutes >= 60 * value[2] THEN << >>
        ELSE <<IF value[1] < 0 THEN -whole ELSE whole, value[2]>>

West(value) == <<-value[1], value[2]>>

\* A place in minutes of arc that is on the globe and not the origin.
ValidGps(p) ==
    /\ Size(p[1][1]) <= 90 * 60 * p[1][2] /\ Size(p[2][1]) <= 180 * 60 * p[2][2]
    /\ p[1][1] # 0 \/ p[2][1] # 0

InDegrees(value) == <<60 * value[1], value[2]>>

\* Wrong: a number that can be read as DDMM is read as nothing else.
PackedOrElse(raw, minutes) ==
    LET packed == <<PackedCoordinate(raw[1], 90), PackedCoordinate(raw[2], 180)>>
        continuous == <<raw[1], West(raw[2])>>
    IN  IF ~minutes THEN SelectSeq(<<<<InDegrees(raw[1]), InDegrees(raw[2])>>>>, ValidGps)
        ELSE IF packed[1] # << >> /\ packed[2] # << >> THEN <<<<packed[1], West(packed[2])>>>>
        ELSE SelectSeq(<<continuous>>, ValidGps)

\* What the mean position may be, best first.  Minutes count west as positive.
Candidates(raw, minutes) ==
    LET packed == <<PackedCoordinate(raw[1], 90), PackedCoordinate(raw[2], 180)>>
        inDegrees == <<InDegrees(raw[1]), InDegrees(raw[2])>>
    IN  IF ~minutes THEN SelectSeq(<<inDegrees>>, ValidGps)
        ELSE (IF packed[1] # << >> /\ packed[2] # << >> THEN <<<<packed[1], West(packed[2])>>>> ELSE << >>)
               \o SelectSeq(<<<<raw[1], West(raw[2])>>, inDegrees>>, ValidGps)

\* Distance to a circuit in minutes of arc, times both denominators.
Away(p, c) ==
    Size(p[1][1] - c[1] * p[1][2]) * p[2][2] + Size(p[2][1] - c[2] * p[2][2]) * p[1][2]

MatchNearest(p) ==
    LET near == {c \in Circuits : Away(p, c) <= Reach * p[1][2] * p[2][2]}
    IN  IF near = {} THEN Nowhere ELSE CHOOSE c \in near : \A d \in near : Away(p, c) <= Away(p, d)

MeanPlace(positions) ==
    <<Mean([i \in DOMAIN positions |-> positions[i][1]]),
      Mean([i \in DOMAIN positions |-> positions[i][2]])>>

FirstMatch(candidates) ==
    LET matches == SelectSeq(Apply(MatchNearest, candidates), LAMBDA m : m # Nowhere)
    IN  IF matches = << >> THEN Nowhere ELSE matches[1]

\* One unit for both coordinates, minutes or degrees.
MatchAmong(positions, units) ==
    IF positions = << >> \/ units \notin {{"min"}, {"deg"}} THEN Nowhere
    ELSE FirstMatch(Candidates(MeanPlace(positions), units = {"min"}))

MatchTrack ==
    IF \E role \in {"latitude", "longitude"} : roles[role] = Nobody THEN Nowhere
    ELSE MatchAmong(Positions, {source.channels[roles[role]].unit : role \in {"latitude", "longitude"}})

-----------------------------------------------------------------------------
Init ==
    /\ source \in Sources
    /\ roles = << >> /\ instant = 0 /\ sample = Unread /\ circuit = Unlocated

Resolve ==
    /\ roles = << >>
    /\ roles' = ResolvedRoles(source.channels)
    /\ UNCHANGED <<source, instant, sample, circuit>>

Sample ==
    /\ roles # << >> /\ instant < LastInstant
    /\ instant' = instant + 1
    /\ sample' = NormalizeSample(instant)
    /\ UNCHANGED <<source, roles, circuit>>

Locate ==
    /\ roles # << >> /\ circuit = Unlocated
    /\ circuit' = MatchTrack
    /\ UNCHANGED <<source, roles, instant, sample>>

Next == Resolve \/ Sample \/ Locate

-----------------------------------------------------------------------------
(* Properties                                                              *)

Equal(a, b) == a[1] * b[2] = b[1] * a[2]

\* The value that tells the units of a role apart: in the coarse one no car gets
\* past it, in a fine one a car may (docs/CLIENT_GUIDE.md:122-127).
Telling ==
    [pedal |-> [most |-> 105, coarse |-> "ratio", fine |-> {"percent", "deg"}],
     speed |-> [most |-> 13000, coarse |-> "m/s", fine |-> {"km/h"}],
     steering |-> [most |-> 628, coarse |-> "rad", fine |-> {"deg"}],
     rpm |-> [most |-> 300000, coarse |-> "rad/s", fine |-> {"rpm"}],
     laptime |-> [most |-> 100000, coarse |-> "s", fine |-> {"ms"}]]

Past(value, most) == value # NoSample /\ Size(value[1]) > most

\* The channel stays past a value for as long as from one probe to the next.
StaysPast(channel, most) ==
    LET signal == channel.signal
        start == IF signal.chunks = << >> THEN 0 ELSE signal.chunks[1].at
        probes == Min({Len(signal.values), Probes})
        apart == (signal.duration - start + probes - 1) \div probes
    IN  \E from \in start..(signal.duration - apart) :
          \A t \in from..(from + apart - 1) : Past(ValueAt(channel, t, FALSE), most)

\* What is asked of a channel: it declares its unit; or, in the coarse unit of
\* its role, it never gets where no car gets; or, in a fine one, it stays there.
Told(role, channel) ==
    \/ channel.unit # "" \/ Kind(role) \notin DOMAIN Telling
    \/ LET telling == Telling[Kind(role)]
       IN  \/ /\ channel.written = telling.coarse
              /\ \A k \in DOMAIN channel.signal.values : Size(channel.signal.values[k]) <= telling.most
           \/ channel.written \in telling.fine /\ StaysPast(channel, telling.most)

\* A speed that declares its unit, or is too fast for long enough to be m/s.
TellsSpeed(channel) ==
    /\ channel.name \in ToSet(Wanted["speed"]) /\ Populated(channel)
    /\ Converts(channel.unit, "speed") \/ (channel.unit = "" /\ StaysPast(channel, 13000))

\* What is read of a role, if anything, is the quantity that was measured.
ReadsTrue(role) ==
    LET channel == source.channels[roles[role]]
        recorded == ValueAt(channel, instant - 1, role # "rpm")
    IN  recorded # NoSample /\ sample[role] # NoSample =>
          Equal(sample[role], InUnit(role, recorded, channel.written))

Played == {role \in Read : roles[role] # Nobody}

\* Of a channel that declares its unit, or whose values tell it (Told), the
\* quantity measured is read, whatever else the recording holds, and when any
\* channel tells its speed the client reads one (resolved_roles, channel_extent,
\* resolve_role_units, normalize_sample).  Of a channel whose values do not tell
\* its unit nothing is said, and it may be misread: a timer in seconds that ran
\* past 1000 is read as milliseconds, a pedal in percent that is hardly pressed
\* as a ratio.
ReadingsAreTrue ==
    sample # Unread =>
      /\ \A role \in Played : Told(role, source.channels[roles[role]]) => ReadsTrue(role)
      /\ (\E c \in DOMAIN source.channels : TellsSpeed(source.channels[c])) =>
           /\ roles["speed"] # Nobody
           /\ ValueAt(source.channels[roles["speed"]], instant - 1, TRUE) # NoSample =>
                sample["speed"] # NoSample

\* A car at a circuit is found there in whichever way its fixes are written,
\* also when they can be read as another place, as long as no circuit is near
\* that; away from every circuit none is found (match_track).
CircuitIsWhereTheCarIs ==
    circuit # Unlocated /\ source.place # Nowhere =>
      LET here == {c \in Circuits : Size(c[1] - source.place[1]) + Size(c[2] - source.place[2]) <= Reach}
      IN  IF here = {} THEN circuit = Nowhere ELSE circuit \in here

=============================================================================
