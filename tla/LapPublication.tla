--------------------------- MODULE LapPublication ---------------------------
(***************************************************************************)
(* From recovered laps to published laps: the steps read_source_metadata   *)
(* (telemetry-core/src/metadata.rs) runs after the counter walk.           *)
(*                                                                         *)
(*   pick      laps of the source format, else the counter's laps with     *)
(*             their crossings moved onto timer resets, else the timer's   *)
(*   validate  reject crossings that close a lap shorter than physically   *)
(*             possible, replaying the phase machine over the laps         *)
(*   classify  assign stints and kinds, and carve pit stops out            *)
(*                                                                         *)
(* Validation takes one action per lap, as its loop does.  Speed evidence  *)
(* is chosen where it is read; the standstill at a reset is the one the    *)
(* walk saw, which is the same query on the same source.                   *)
(***************************************************************************)
EXTENDS LapRecovery, Lists

CONSTANTS
  VendorLists,       \* lap lists a source format supplies
  TimerResets,       \* sets of instants at which the timer channel resets
  SnapWindow,        \* snap_window_ns
  PhysicalMinimums,  \* atlas lower bounds of a lap, 0 when unknown
  PitStop,           \* PIT_STOP_NS
  StintGap,          \* STINT_GAP_NS
  PlausibleLap       \* 10 s: no shorter lap is a fastest lap

NoVendor == <<>>

AllKinds == Kinds \cup {"unknown"}
AllBoundaries == Boundaries \cup {"timer-crossing", "rejected-crossing", "stationary",
                                  "unspecified"}
AllLaps == [start : Nat, end : Nat, complete : BOOLEAN, stint : Nat, stintLap : Nat,
            kind : AllKinds, startBoundary : AllBoundaries, endBoundary : AllBoundaries]

\* The readers of every format drop or refuse a lap that does not end after
\* it starts.
ASSUME PublicationAssumption ==
    /\ \A v \in VendorLists : /\ v \in Seq(AllLaps)
                              /\ \A i \in DOMAIN v : v[i].start < v[i].end
    /\ \A r \in TimerResets : r \subseteq Nat
    /\ SnapWindow \in Nat /\ PitStop \in Nat \ {0} /\ StintGap \in Nat
    /\ PlausibleLap \in Nat
    /\ PhysicalMinimums \subseteq Nat

VARIABLES
  vendor,     \* the lap list of the source format, or NoVendor
  stage,      \* "recover", "validate", "classify" or "published"
  published,  \* the lap list being refined
  minimum,    \* shortest credible lap, 0 when there is no bound
  replay,     \* the phase of the validation replay
  cursor,     \* the lap validation looks at next
  fastest,    \* the fastest lap: a set of one lap, or of none
  stops       \* history: the laps, before carving, with a long standstill

pvars == <<vendor, stage, published, minimum, replay, cursor, fastest, stops>>
allVars == <<vars, pvars>>

PInit ==
    /\ Init
    /\ vendor \in VendorLists
    /\ stage = "recover"
    /\ published = <<>>
    /\ minimum = 0
    /\ replay = "initial"
    /\ cursor = 1
    /\ fastest = {}
    /\ stops = {}

\* A source with laps of its own is never walked.
Walk ==
    /\ stage = "recover"
    /\ vendor = NoVendor
    /\ Next
    /\ UNCHANGED pvars
-----------------------------------------------------------------------------
(***************************************************************************)
(* Laps from timer resets (timer_reset_laps_observed, its last part).      *)
(***************************************************************************)
Edges(timer) ==
    LET edges == {0, recording.duration} \cup {t \in timer : t > 0 /\ t < recording.duration}
    IN  Sorted(edges, {e \in edges \X edges : e[1] < e[2]})

\* counter_lap_number_at: the sample held at t, or the lap's position.
CountedAt(t, i) ==
    LET held == {k \in DOMAIN recording.samples : AtOf(k) <= t}
    IN  IF held = {} THEN i ELSE CounterOf(Max(held)) + Offset

\* The numbers advance even while the counter lags behind the timer.
TimerNumbers(edges) ==
    LET number[i \in 1 .. (Len(edges) - 1)] ==
          LET counted == CountedAt(edges[i], i)
          IN  IF i > 1 /\ counted <= number[i - 1] THEN number[i - 1] + 1 ELSE counted
    IN  number

TimerLaps(timer) ==
    LET edges == Edges(timer)
        count == Len(edges) - 1
        number == TimerNumbers(edges)
        lap(i) == [start |-> edges[i], end |-> edges[i + 1],
                   complete |-> i > 1 /\ i < count, stint |-> 0, stintLap |-> number[i],
                   kind |-> "unknown",
                   startBoundary |-> IF i = 1 THEN "recording-edge" ELSE "timer-crossing",
                   endBoundary |-> IF i = count THEN "recording-edge" ELSE "timer-crossing"]
    IN  IF count <= 1 THEN <<>>
        ELSE Only([i \in 1 .. count |-> lap(i)],
                  {lap(i) : i \in {j \in 1 .. count : number[j] > 0}})
-----------------------------------------------------------------------------
(***************************************************************************)
(* Refining counter laps with the timer (refine_with_timer).               *)
(***************************************************************************)
IsBarrier(b) == b \in {"counter-reset", "motion-departure", "stationary", "gps-pit-entry",
                       "gps-pit-exit", "rejected-crossing"}

Barriers(ls) ==
    {ls[i].start : i \in {j \in DOMAIN ls : IsBarrier(ls[j].startBoundary)}} \cup
    {ls[i].end : i \in {j \in DOMAIN ls : IsBarrier(ls[j].endBoundary)}}

Distance(a, b) == IF a > b THEN a - b ELSE b - a

Between(t, a, b) == (a <= t /\ t <= b) \/ (b <= t /\ t <= a)

\* The resets on either side of a boundary.
Adjacent(at, resetsOf) ==
    {r \in resetsOf : \/ r < at /\ \A q \in resetsOf : q < at => q <= r
                      \/ r >= at /\ \A q \in resetsOf : q >= at => r <= q}

\* Wrong: a boundary may move past a change of activity.
UsableInWindow(at, resetsOf, barriers) ==
    {r \in Adjacent(at, resetsOf) : Distance(r, at) <= SnapWindow}

\* Those within the window and on this side of an activity barrier.
Usable(at, resetsOf, barriers) ==
    {r \in Adjacent(at, resetsOf) : /\ Distance(r, at) <= SnapWindow
                                    /\ \A b \in barriers : ~Between(b, at, r)}

\* The nearer of them, the earlier one on a tie.
Nearest(at, usable) ==
    {r \in usable : \A q \in usable : \/ Distance(r, at) < Distance(q, at)
                                      \/ Distance(r, at) = Distance(q, at) /\ r <= q}

Snap(at, resetsOf, barriers) ==
    LET usable == Usable(at, resetsOf, barriers)
    IN  IF usable = {} THEN at ELSE CHOOSE r \in Nearest(at, usable) : TRUE

\* Only crossings, and vendor boundaries of unknown evidence, move.
Moves(b) == b \in {"counter-crossing", "unspecified"}

\* The laps with their boundaries on the timer's resets: all but those of the
\* recording itself.
Snapped(ls, timer) ==
    LET start(i) == IF (i = 1 /\ ~ls[i].complete) \/ ~Moves(ls[i].startBoundary)
                    THEN ls[i].start ELSE Snap(ls[i].start, timer, Barriers(ls))
        end(i) == IF (i = Len(ls) /\ ~ls[i].complete) \/ ~Moves(ls[i].endBoundary)
                  THEN ls[i].end ELSE Snap(ls[i].end, timer, Barriers(ls))
    IN  [i \in DOMAIN ls |->
            [ls[i] EXCEPT !.start = start(i), !.end = end(i),
                !.startBoundary = IF start(i) # ls[i].start THEN "timer-crossing" ELSE @,
                !.endBoundary = IF end(i) # ls[i].end THEN "timer-crossing" ELSE @]]

\* Laps that are left empty are dropped.
Refined(ls, timerLaps) ==
    LET timer == {timerLaps[i].start : i \in {j \in DOMAIN timerLaps :
                                        timerLaps[j].complete \/ timerLaps[j].start > 0}}
        snapped == Snapped(ls, timer)
    IN  IF timerLaps = <<>> THEN ls
        ELSE Only(snapped, {snapped[i] : i \in {j \in DOMAIN ls : snapped[j].end > snapped[j].start}})

\* pick_laps: source format, then a counter that counts or resets, then timer.
Picked(timer) ==
    LET timerLaps == TimerLaps(timer)
    IN  IF vendor # NoVendor THEN vendor
        ELSE IF \/ crossings > 0
                \/ \E i \in DOMAIN laps : laps[i].endBoundary = "counter-reset"
             THEN Refined(laps, timerLaps)
             ELSE IF timerLaps # <<>> THEN timerLaps ELSE laps

Pick ==
    /\ stage = "recover"
    /\ vendor # NoVendor \/ finished
    /\ \E timer \in TimerResets, physical \in PhysicalMinimums :
          /\ published' = Picked(timer)
          /\ minimum' = Max({physical, recording.reference \div 2})
          /\ stage' = IF vendor # NoVendor \/ minimum' = 0 THEN "classify" ELSE "validate"
    /\ UNCHANGED <<vars, vendor, replay, cursor, fastest, stops>>
-----------------------------------------------------------------------------
(***************************************************************************)
(* Validation of crossings (validate_crossings).                           *)
(***************************************************************************)
\* stationary_at_reset, as the walk saw it.
StationaryAt(t) == \E r \in resets : r.at = t /\ r.event # "reset-moving"

EndEvent(lap) ==
    CASE lap.endBoundary \in {"counter-crossing", "timer-crossing"} -> "crossing"
      [] lap.endBoundary = "counter-reset" ->
            IF StationaryAt(lap.end) THEN "reset-stationary" ELSE "reset-moving"
      [] lap.endBoundary = "gps-pit-entry" -> "pit-entry"
      [] lap.endBoundary = "gps-pit-exit" -> "departure"
      [] OTHER -> "end"

\* A lap whose predecessor ends in a rejected crossing starts at one.
AfterRejection(i) ==
    /\ i > 1
    /\ published[i - 1].endBoundary = "rejected-crossing"
    /\ published[i].start = published[i - 1].end

OrUncertain(kind) == IF kind = NoKind THEN "uncertain" ELSE kind

ValidateLap ==
    /\ stage = "validate"
    /\ cursor <= Len(published)
    /\ LET lap == published[cursor]
           before == IF lap.startBoundary \in {"motion-departure", "gps-pit-exit"}
                     THEN NextPhase(replay, "departure") ELSE replay
           rejected == lap.complete /\ lap.end - lap.start < minimum
           event == IF rejected THEN "rejected-crossing" ELSE EndEvent(lap)
           relabel == rejected \/ before = "uncertain"
       IN  /\ published' = [published EXCEPT ![cursor] =
                [lap EXCEPT
                    !.startBoundary = IF AfterRejection(cursor) THEN "rejected-crossing" ELSE @,
                    !.endBoundary = IF rejected THEN "rejected-crossing" ELSE @,
                    !.kind = IF relabel THEN OrUncertain(ClosingKind(before, event)) ELSE @,
                    !.complete = IF relabel THEN FALSE ELSE @]]
           /\ replay' = NextPhase(before, event)
    /\ cursor' = cursor + 1
    /\ UNCHANGED <<vars, vendor, stage, minimum, fastest, stops>>

Validated ==
    /\ stage = "validate"
    /\ cursor > Len(published)
    /\ stage' = "classify"
    /\ UNCHANGED <<vars, vendor, published, minimum, replay, cursor, fastest, stops>>
-----------------------------------------------------------------------------
(***************************************************************************)
(* Classification (classify_laps).                                         *)
(***************************************************************************)
\* sort_by_key is stable.
Precedes(ls, i, j) ==
    \/ ls[i].start < ls[j].start
    \/ ls[i].start = ls[j].start /\ ls[i].end < ls[j].end
    \/ ls[i].start = ls[j].start /\ ls[i].end = ls[j].end /\ i < j

InOrder(ls) ==
    LET places == DOMAIN ls
        order == Sorted(places, {p \in places \X places : Precedes(ls, p[1], p[2])})
    IN  [k \in places |-> ls[order[k]]]

\* Stints, when any lap came without one.
WithStints(ls) ==
    LET splits(i) == \/ ls[i].start > ls[i - 1].end + StintGap
                     \/ ~ls[i - 1].complete /\ ~ls[i].complete
                     \/ ls[i - 1].complete /\ ls[i - 1].kind = "pit"
        stintOf(i) == 1 + Cardinality({j \in 2 .. i : splits(j)})
    IN  IF \E i \in DOMAIN ls : ls[i].stint = 0
        THEN [i \in DOMAIN ls |-> [ls[i] EXCEPT !.stint = stintOf(i)]]
        ELSE ls

\* The kind of a beacon-to-beacon lap.
FlyingUnless(standing) == IF standing THEN "uncertain" ELSE "flying"

\* Kinds from the lap's place in its stint; long and onTrack are the laps
\* with a long standstill, and those that GPS places on the circuit.
KindOf(ls, i, long, onTrack) ==
    LET first == i = 1 \/ ls[i - 1].stint # ls[i].stint
        last == i = Len(ls) \/ ls[i + 1].stint # ls[i].stint
        kind == ls[i].kind
    IN  CASE i \in onTrack -> "stopped"
          [] i \notin onTrack /\ kind = "unknown" /\ ls[i].complete ->
                FlyingUnless(i \in long)
          [] i \notin onTrack /\ kind = "unknown" /\ ~ls[i].complete ->
                IF first THEN (IF last THEN "out-in" ELSE "out")
                ELSE IF last THEN "in" ELSE "out"
          [] i \notin onTrack /\ kind = "flying" -> FlyingUnless(i \in long)
          [] OTHER -> kind

\* Wrong: a stop on track leaves an anchor for the lap after it.
WithKindsAlone(ls, long, onTrack) ==
    [i \in DOMAIN ls |->
        [ls[i] EXCEPT
            !.kind = KindOf(ls, i, long, onTrack),
            !.complete = IF KindOf(ls, i, long, onTrack) \in {"stopped", "uncertain"}
                         THEN FALSE ELSE @]]

\* A lap after a stop on track has no anchor, so it cannot fly; stopped and
\* uncertain activity is never complete.
WithKinds(ls, long, onTrack) ==
    LET kind(i) == KindOf(ls, i, long, onTrack)
        unanchored(i) == i > 1 /\ kind(i - 1) = "stopped" /\ kind(i) = "flying"
    IN  [i \in DOMAIN ls |->
            [ls[i] EXCEPT
                !.kind = IF unanchored(i) THEN "out" ELSE kind(i),
                !.complete = IF unanchored(i) \/ kind(i) \in {"stopped", "uncertain"}
                             THEN FALSE ELSE @]]

\* Wrong: the laps after a complete pit lap stay in its stint.
Unbumped(ls) == ls

\* A complete pit lap closes its stint even where the counter did not.
WithBumps(ls) ==
    LET bumps(i) == /\ ls[i - 1].kind = "pit" /\ ls[i - 1].complete
                    /\ ls[i].stint = ls[i - 1].stint
    IN  [i \in DOMAIN ls |->
            [ls[i] EXCEPT !.stint = @ + Cardinality({j \in 2 .. i : bumps(j)})]]

\* Wrong: the out lap misses an instant after the stop.
LateOutPart(lap, until) ==
    [lap EXCEPT !.start = until + 1, !.kind = "out", !.startBoundary = "stationary",
                !.complete = FALSE, !.stint = @ + 1, !.stintLap = 0]

InPart(lap, from) ==
    [lap EXCEPT !.end = from, !.kind = "in", !.endBoundary = "stationary", !.complete = FALSE]

StopPart(lap, from, until) ==
    [lap EXCEPT !.start = from, !.end = until, !.complete = FALSE,
                !.startBoundary = "stationary", !.endBoundary = "stationary"]

OutPart(lap, until) ==
    [lap EXCEPT !.start = until, !.kind = "out", !.startBoundary = "stationary",
                !.complete = FALSE, !.stint = @ + 1, !.stintLap = 0]

\* The standing time of a complete pit lap becomes an interval of its own.
Carved(lap, from, until) ==
    IF /\ lap.kind = "pit" /\ lap.complete
       /\ until - from >= PitStop /\ from > lap.start /\ until < lap.end
    THEN <<InPart(lap, from), StopPart(lap, from, until), OutPart(lap, until)>>
    ELSE <<lap>>

\* The longest standstill of each lap in `long` fills it but for a margin of
\* one instant on the sides in `margins`.
Classified(long, onTrack, margins) ==
    LET ls == WithBumps(WithKinds(WithStints(InOrder(published)), long, onTrack))
        from(i) == IF "before" \in margins THEN ls[i].start + 1 ELSE ls[i].start
        until(i) == IF "after" \in margins THEN ls[i].end - 1 ELSE ls[i].end
    IN  FlattenSeq([i \in DOMAIN ls |->
            IF i \in long THEN Carved(ls[i], from(i), until(i)) ELSE <<ls[i]>>])

LongEnough(i, margins) ==
    LET lap == InOrder(published)[i]
    IN  lap.end - lap.start - Cardinality(margins) >= PitStop

-----------------------------------------------------------------------------
(***************************************************************************)
(* The fastest lap (fastest_lap).                                          *)
(***************************************************************************)
Duration(lap) == lap.end - lap.start

\* The first of the shortest laps of a list that pass a test.
Shortest(ls, Test(_)) ==
    LET passing == {i \in DOMAIN ls : Test(ls[i])}
        shortest == {i \in passing : \A j \in passing : Duration(ls[i]) <= Duration(ls[j])}
    IN  IF shortest = {} THEN {} ELSE {ls[Min(shortest)]}

\* What a source with laps of its own reports: its shortest complete lap.
Reported == Shortest(vendor, LAMBDA lap : lap.complete)

\* The reference lap bounds what is plausible, unless the source has laps.
Plausible(lap) ==
    /\ lap.complete /\ lap.kind = "flying"
    /\ Duration(lap) >= PlausibleLap
    /\ vendor = NoVendor /\ recording.reference # 0 =>
          /\ Duration(lap) >= recording.reference \div 2
          /\ Duration(lap) <= (3 * recording.reference) \div 2

SameInterval(a, b) == a.start = b.start /\ a.end = b.end

\* The lap the source reports, as it was classified; as reported when the
\* list has no such interval; never one that turned out not to be flying.
Confirmed(ls) ==
    UNION { LET found == {i \in DOMAIN ls : SameInterval(ls[i], lap)}
            IN  IF found = {} THEN {lap}
                ELSE {l \in {ls[Min(found)]} : l.kind = "flying"} : lap \in Reported }

Fastest(ls) == IF Confirmed(ls) # {} THEN Confirmed(ls) ELSE Shortest(ls, Plausible)

Classify ==
    /\ stage = "classify"
    /\ \E margins \in SUBSET {"before", "after"} :
       \E long \in SUBSET {i \in DOMAIN published : LongEnough(i, margins)} :
       \E onTrack \in SUBSET long :
          /\ published' = Classified(long, onTrack, margins)
          /\ fastest' = Fastest(published')
          /\ stops' = {InOrder(published)[i] : i \in long}
    /\ stage' = "published"
    /\ UNCHANGED <<vars, vendor, minimum, replay, cursor>>

PNext == Walk \/ Pick \/ ValidateLap \/ Validated \/ Classify

PSpec == PInit /\ [][PNext]_allVars
-----------------------------------------------------------------------------
(***************************************************************************)
(* Properties of what is published.                                        *)
(***************************************************************************)
Published == stage = "published"

\* What a source says of its laps is passed on, so some properties rest on it:
\* that its laps do not overlap, and that its stints, if all laps have one,
\* advance with time.
Disjoint(ls) ==
    \A i, j \in DOMAIN ls : i # j => ls[i].end <= ls[j].start \/ ls[j].end <= ls[i].start

StintsAscend(ls) ==
    (\A i \in DOMAIN ls : ls[i].stint # 0) =>
        \A i, j \in DOMAIN ls : Precedes(ls, i, j) => ls[i].stint <= ls[j].stint

\* Snapping boundaries onto timer resets, dropping what becomes empty and
\* carving out stops never makes laps overlap or run backwards.
PublishedInOrder ==
    Published => \A i \in DOMAIN published :
        /\ published[i].start < published[i].end
        /\ Disjoint(vendor) /\ i > 1 => published[i - 1].end <= published[i].start

\* A lap that begins with the car standing in the pits.
Standing(lap) ==
    \/ lap.startBoundary = "gps-pit-entry"
    \/ lap.startBoundary = "counter-reset" /\ StationaryAt(lap.start)

\* The walk folded no reset into such a lap.
StopsStand == \A i \in DOMAIN laps : Standing(laps[i]) => laps[i].endBoundary # "counter-reset"

TrackAnchors == {"counter-crossing", "timer-crossing"}

\* A recovered flying lap runs from accepted crossing to accepted crossing,
\* is long enough to be one, holds no long standstill and does not follow a
\* stop on track.  A crossing that validation rejected anchors neither side,
\* unless the walk folded a reset into a pit stop (see RejectedAnchorsNothing).
PublishedFlyingIsTimed ==
    Published /\ vendor = NoVendor => \A i \in DOMAIN published :
        LET lap == published[i]
        IN  /\ lap.complete <=> lap.kind = "flying"
            /\ lap.kind = "flying" =>
                 /\ lap.startBoundary \in TrackAnchors \/ ~StopsStand
                 /\ lap.endBoundary \in TrackAnchors
                 /\ lap.end - lap.start >= minimum
                 /\ ~\E s \in stops : s.start = lap.start /\ s.end = lap.end
                 /\ i > 1 => published[i - 1].kind # "stopped"

\* Stints never run backwards; a lap after a complete pit lap, and a recovered
\* lap after a reset or a pit entry, is in a later stint.
PublishedStintsAdvance ==
    Published /\ StintsAscend(vendor) => \A i \in 2 .. Len(published) :
        LET before == published[i - 1]
            later == published[i]
        IN  /\ before.stint <= later.stint
            /\ before.kind = "pit" /\ before.complete => before.stint < later.stint
            /\ vendor = NoVendor /\ before.endBoundary \in {"counter-reset", "gps-pit-entry"} =>
                  before.stint < later.stint

\* Vendor laps are only classified: a flying lap is one of the source's,
\* unchanged, that it calls complete or flying, with no long standstill in it;
\* and carving pit stops out conserves time, so that the published laps cover
\* what the source's did, in whatever order it listed them.
VendorLapsKept ==
    LET covers(ls) == UNION {ls[i].start .. (ls[i].end - 1) : i \in DOMAIN ls}
    IN  Published /\ vendor # NoVendor =>
            /\ covers(published) = covers(vendor)
            /\ \A i \in DOMAIN published : published[i].kind = "flying" =>
                 /\ \E j \in DOMAIN vendor : /\ vendor[j].start = published[i].start
                                             /\ vendor[j].end = published[i].end
                                             /\ vendor[j].complete \/ vendor[j].kind = "flying"
                 /\ Disjoint(vendor) =>
                      ~\E s \in stops : s.start = published[i].start /\ s.end = published[i].end

\* CLIENT_GUIDE.md: "The fastest lap is always the shortest plausible flying
\* lap of the list; an in-lap fragment or a pit lap is never a candidate".
FastestFlies == Published => \A lap \in fastest : lap.kind = "flying"

\* validate_crossings: "A rejected crossing clears the anchor until a subsequent
\* accepted crossing, so its following interval cannot silently remain a flying
\* lap either."
RejectedAnchorsNothing ==
    Published => \A i \in DOMAIN published :
        published[i].kind = "flying" => published[i].startBoundary # "rejected-crossing"

=============================================================================
