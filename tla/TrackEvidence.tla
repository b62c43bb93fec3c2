---------------------------- MODULE TrackEvidence ----------------------------
(***************************************************************************)
(* What GPS fixes near an atlas track say (telemetry-core/src): the visits *)
(* to a pit lane beside the start line (pit_visits in lap_evidence.rs) and *)
(* the venue two of the recording's fixes agree on (track.rs).             *)
(*                                                                         *)
(* A fix is given by its place on the centre line: progress in percent of  *)
(* the lap, distance in metres, signed to the left.                        *)
(***************************************************************************)
EXTENDS Integers, Sequences, FiniteSets, SequencesExt, FiniteSetsExt

CONSTANTS
  Traces,       \* [fixes, beacons, probes], see IsTrace
  Entry, Exit,  \* pit markers of the layout, in percent
  MinPeriod,    \* 0.2 s between fixes looked at
  MaxGap,       \* 0.25 s between fixes that follow each other
  Apart,        \* 20 s between reference beacons
  Stay,         \* 8 s in the lane
  Reach,        \* 45 s from the line to the entry or the exit
  Approach,     \* 15 s before the entry
  Return,       \* 180 s after the exit
  Separate      \* 10 s between the fixes that agree on a venue

VARIABLES
  trace,
  step,   \* "beacons", "fixes", "passages", "probes", "done"
  index,  \* index of the beacon, fix or probe looked at
  found   \* [references, kept, seen, visits, matched, minimum]

trackVars == <<trace, step, index, found>>

NoLap == -1

\* A fix is placed where the receiver has one; a beacon is a native increment
\* taken fast, at a trusted position; a probe is one of the sixteen times, here
\* fewer, with the venue there, if any, and the shortest lap of it, if the
\* atlas gives its length.
Fixes == [at : Nat, progress : 0..99, distance : Nat, signed : Int, speed : Int, error : Nat, fixed : BOOLEAN]
Beacons == [at : Nat, progress : 0..99, distance : Nat, signed : Int]
Probes == [at : Nat, venue : STRING, shortest : Nat \cup {NoLap}]

\* Samples come in order of time, and the atlas knows a venue by one length.
IsTrace(t) ==
    /\ t.fixes \in Seq(Fixes) /\ t.beacons \in Seq(Beacons) /\ t.probes \in Seq(Probes)
    /\ \A i \in DOMAIN t.fixes : i > 1 => t.fixes[i].at > t.fixes[i - 1].at
    /\ \A i \in DOMAIN t.beacons : i > 1 => t.beacons[i].at > t.beacons[i - 1].at
    /\ \A i \in DOMAIN t.probes : i > 1 => t.probes[i].at >= t.probes[i - 1].at
    /\ \A i, j \in DOMAIN t.probes :
          t.probes[i].venue = t.probes[j].venue => t.probes[i].shortest = t.probes[j].shortest

TrackInit ==
    /\ trace \in Traces
    /\ step = "beacons" /\ index = 1
    /\ found = [references |-> << >>, kept |-> << >>, seen |-> << >>, visits |-> << >>,
                matched |-> << >>, minimum |-> NoLap]

Goto(name) == step' = name /\ index' = 1

-----------------------------------------------------------------------------
(* Reference beacons and fixes                                             *)

OnTheLine(beacon) == beacon.distance <= 12 /\ (beacon.progress > 95 \/ beacon.progress < 5)

TakeBeacon ==
    /\ step = "beacons" /\ index <= Len(trace.beacons)
    /\ LET beacon == trace.beacons[index]
           spaced == found.references = << >> \/ beacon.at - Last(found.references).at >= Apart
       IN  found' = IF OnTheLine(beacon) /\ spaced
                    THEN [found EXCEPT !.references = Append(@, [at |-> beacon.at, signed |-> beacon.signed])]
                    ELSE found
    /\ index' = index + 1
    /\ UNCHANGED <<trace, step>>

Low == Min({r.signed : r \in Range(found.references)})
High == Max({r.signed : r \in Range(found.references)})

\* A lane beside the line, and a lane of the track known from two laps.
CanTell ==
    /\ Entry > Exit /\ Entry >= 75 /\ Exit <= 25
    /\ Len(found.references) >= 2 /\ High - Low <= 20

BeaconsDone ==
    /\ step = "beacons" /\ index > Len(trace.beacons)
    /\ Goto(IF CanTell THEN "fixes" ELSE "probes")
    /\ UNCHANGED <<trace, found>>

\* A receiver fix with a small error; only those are located.
Trusted(fix) == fix.fixed /\ fix.error <= 8

\* A fix closer than that to the last one looked at is passed over.
TakeFix ==
    /\ step = "fixes" /\ index <= Len(trace.fixes)
    /\ LET fix == trace.fixes[index]
           crowded == found.seen # << >> /\ fix.at - Last(found.seen) < MinPeriod
       IN  found' = IF crowded THEN found
                    ELSE [found EXCEPT !.kept = IF Trusted(fix) THEN Append(@, fix) ELSE @,
                                       !.seen = Append(@, fix.at)]
    /\ index' = index + 1
    /\ UNCHANGED <<trace, step>>

FixesDone ==
    /\ step = "fixes" /\ index > Len(trace.fixes)
    /\ step' = "passages" /\ index' = 2
    /\ UNCHANGED <<trace, found>>

-----------------------------------------------------------------------------
(* Passages of the line in the lane                                        *)

Kept(i) == found.kept[i]

Close(i) == Kept(i).at - Kept(i - 1).at <= MaxGap

PitSector(fix) == fix.progress >= Entry \/ fix.progress <= Exit

InLane(fix) ==
    LET margin == 10 + 2 * fix.error
    IN  /\ PitSector(fix) /\ fix.distance <= 60 /\ fix.speed \in 3..25
        /\ fix.signed < Low - margin \/ fix.signed > High + margin

\* The stay in the lane around a passage at fix i: from a to b.
StayFrom(i) == Min({a \in 1..i - 1 : \A k \in a..i - 1 : InLane(Kept(k)) /\ (k > a => Close(k))})
StayTo(i) == Max({b \in i..Len(found.kept) : \A k \in i..b : InLane(Kept(k)) /\ (k > i => Close(k))})

InLaneOverTheLine(i) ==
    /\ Kept(i - 1).progress >= 98 /\ Kept(i).progress <= 2
    /\ Close(i) /\ InLane(Kept(i - 1)) /\ InLane(Kept(i))

\* The lane parts from the track on its way in.
Parts(i) ==
    \E k \in StayFrom(i) + 1..i - 1 :
      Close(k) /\ Kept(k - 1).distance >= 25 /\ Kept(k).distance >= 25

Enters(i) ==
    {j \in 2..i - 1 : /\ Kept(i).at - Kept(j - 1).at <= Reach /\ Close(j)
                      /\ Kept(j - 1).progress < Entry /\ Kept(j).progress >= Entry
                      /\ Kept(j).progress > 75 /\ Kept(j).distance >= 20}

Leaves(i) ==
    {j \in i + 1..Len(found.kept) :
        /\ Kept(j).at - Kept(i).at <= Reach /\ Close(j)
        /\ Kept(j - 1).progress <= Exit /\ Kept(j).progress > Exit
        /\ Kept(j).progress < 25 /\ Kept(j).distance <= 10 /\ Kept(j).speed > 25}

\* The car was on the circuit shortly before.
CameFromCircuit(enter) ==
    \E k \in 1..enter - 1 : /\ Kept(enter).at - Kept(k).at <= Approach
                            /\ ~PitSector(Kept(k)) /\ Kept(k).distance <= 10 /\ Kept(k).speed > 10

\* Wrong: a passage within the last visit is another visit.
IsVisitAgain(i, enter, leave) ==
    /\ CameFromCircuit(enter)
    /\ \E r \in Range(found.references) :
         r.at > Kept(leave).at /\ r.at - Kept(leave).at <= Return
    /\ \A k \in enter + 1..leave : Close(k)

\* And completed a lap soon after, was seen all the time, and is not counted.
IsVisit(i, enter, leave) ==
    /\ CameFromCircuit(enter)
    /\ \E r \in Range(found.references) :
         r.at > Kept(leave).at /\ r.at - Kept(leave).at <= Return
    /\ \A k \in enter + 1..leave : Close(k)
    /\ found.visits # << >> => Kept(enter).at > Last(found.visits)[2]

Passage ==
    /\ step = "passages" /\ index <= Len(found.kept)
    /\ LET i == index
           stays == /\ InLaneOverTheLine(i)
                    /\ Kept(StayTo(i)).at - Kept(StayFrom(i)).at >= Stay
                    /\ Parts(i) /\ Enters(i) # {} /\ Leaves(i) # {}
           enter == Max(Enters(i))
           leave == Min(Leaves(i))
       IN  found' = IF stays /\ IsVisit(i, enter, leave)
                    THEN [found EXCEPT !.visits = Append(@, <<Kept(enter).at, Kept(leave).at>>)]
                    ELSE found
    /\ index' = index + 1
    /\ UNCHANGED <<trace, step>>

PassagesDone ==
    /\ step = "passages" /\ index > Len(found.kept)
    /\ Goto("probes")
    /\ UNCHANGED <<trace, found>>

-----------------------------------------------------------------------------
(* The venue                                                               *)

\* The venue to see again, and where it was first seen in a row.
Matched(before, probe) ==
    IF before # << >> /\ before[1] = probe.venue THEN before ELSE <<probe.venue, probe.at>>

\* A probe is [at, venue, shortest]: no venue without a trusted fix, and no
\* shortest lap where the atlas gives no length.
ProbeVenue ==
    /\ step = "probes" /\ index <= Len(trace.probes)
    /\ LET probe == trace.probes[index]
           matched == Matched(found.matched, probe)
       IN  IF probe.venue = "none" THEN UNCHANGED <<step, found>>
           ELSE IF matched[1] = probe.venue /\ probe.at - matched[2] >= Separate
           THEN step' = "done" /\ found' = [found EXCEPT !.minimum = probe.shortest]
           ELSE found' = [found EXCEPT !.matched = matched] /\ UNCHANGED step
    /\ index' = index + 1
    /\ UNCHANGED trace

ProbesDone ==
    /\ step = "probes" /\ index > Len(trace.probes)
    /\ Goto("done")
    /\ UNCHANGED <<trace, found>>

TrackNext ==
    \/ TakeBeacon \/ BeaconsDone \/ TakeFix \/ FixesDone
    \/ Passage \/ PassagesDone \/ ProbeVenue \/ ProbesDone

TrackSpec == TrackInit /\ [][TrackNext]_trackVars

-----------------------------------------------------------------------------
(* Properties                                                              *)

\* No fix lies behind the one before it.
Forward == \A k \in DOMAIN found.kept : k > 1 => (Kept(k).progress - Kept(k - 1).progress) % 100 < 50

\* The visits come as the lap walk takes them, entry before exit and one after
\* the other, and unless the fixes jump back the car is in the lane in each,
\* seen all the time, for as long as a stay takes (pit_visits; LapRecovery,
\* IsRecording).
VisitsAreStays ==
    LET visits == found.visits
        inside(v) == {k \in DOMAIN found.kept : v[1] <= Kept(k).at /\ Kept(k).at <= v[2]}
        stay(v, a, b) == /\ {a, b} \subseteq inside(v) /\ Kept(b).at - Kept(a).at >= Stay
                         /\ \A k \in a..b : InLane(Kept(k)) /\ (k > a => Close(k))
    IN  /\ \A i \in DOMAIN visits : /\ visits[i][1] < visits[i][2]
                                    /\ i > 1 => visits[i - 1][2] < visits[i][1]
        /\ Forward => \A v \in Range(visits) : \E a, b \in inside(v) : stay(v, a, b)

\* A shortest lap is that of a venue seen at two times apart, with no other
\* venue in between (physical_minimum_lap_ns).
VenueSeenTwice ==
    found.minimum # NoLap =>
      \E i, j \in DOMAIN trace.probes :
        /\ trace.probes[j].at - trace.probes[i].at >= Separate
        /\ \A k \in {i, j} : trace.probes[k].venue # "none" /\ trace.probes[k].shortest = found.minimum
        /\ \A k \in i..j : trace.probes[k].venue \in {"none", trace.probes[i].venue}

\* What the track evidence claims the fixes show.
TrackEvidenceHolds == VisitsAreStays /\ VenueSeenTwice

=============================================================================
