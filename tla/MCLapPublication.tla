--------------------------- MODULE MCLapPublication ---------------------------
(***************************************************************************)
(* Small recordings, lap timers and vendor lap lists for LapPublication.   *)
(* The counter recordings are those of MCLapRecovery, shorter, because the *)
(* later steps multiply every walk by timer resets and standstills.        *)
(***************************************************************************)
EXTENDS LapPublication

CONSTANTS
  Length, Top,    \* samples and largest value of a counter trace
  Spacing,        \* between samples
  VendorLaps      \* laps in a vendor list

Trace(v) == [i \in DOMAIN v |-> [at |-> Spacing * (i - 1), counter |-> v[i]]]

RecordingOf(v, pits, head, reference, completed) ==
    [samples |-> Trace(v), pitEvents |-> pits, duration |-> Spacing * (Length - 1) + 1,
     head |-> head, reference |-> reference, completed |-> completed]

\* The pit detector measures the track lane at two increments by one, of
\* which one comes after the visit.
Detects(v, visit) ==
    LET sightings == {i \in 2 .. Len(v) : v[i] = v[i - 1] + 1}
    IN  /\ Cardinality(sightings) >= 2
        /\ \E i \in sightings : Trace(v)[i].at > visit[2]

Counters == [1 .. Length -> 0 .. Top]

MCRecordings ==
    UNION { { RecordingOf(v, visit, head, reference, completed) :
                v \in {w \in Counters : visit = <<>> \/ Detects(w, visit)},
                head \in {"moving", "parked"}, reference \in {0, 8}, completed \in BOOLEAN } :
            visit \in {<<>>, <<4, 6>>, <<4, 7>>} }

\* A source with laps of its own: what its counters say is never looked at.
NoCounterRecordings ==
    { [samples |-> <<>>, pitEvents |-> <<>>, duration |-> 30, head |-> "moving",
       reference |-> 0, completed |-> FALSE] }

\* Consecutive laps five instants long, with or without a pause before each.
\* A vendor list carries kinds for all laps or for none, and so for stints.
VendorLap(from, kind, complete, number) ==
    [start |-> from, end |-> from + 5, complete |-> complete, stint |-> number,
     stintLap |-> 1, kind |-> kind, startBoundary |-> "unspecified",
     endBoundary |-> "unspecified"]

VendorKinds == {<<"unknown", TRUE>>, <<"unknown", FALSE>>, <<"flying", TRUE>>,
                <<"pit", TRUE>>, <<"pit", FALSE>>}

Paused(pauses, i) == 5 * (i - 1) + 4 * Cardinality({j \in pauses : j <= i})

UnnumberedLists ==
    { [i \in 1 .. VendorLaps |-> VendorLap(Paused(pauses, i), k[i][1], k[i][2], 0)] :
         k \in [1 .. VendorLaps -> VendorKinds], pauses \in SUBSET (2 .. VendorLaps) }

NumberedLists ==
    { [i \in DOMAIN v |-> [v[i] EXCEPT !.stint = IF i < last THEN 1 ELSE 2]] :
         v \in UnnumberedLists, last \in {VendorLaps, VendorLaps + 1} }

\* A reported time longer than its interval reaches into the lap before (LDX).
OverlappingLists == { [v EXCEPT ![VendorLaps].start = @ - 2] : v \in UnnumberedLists }

\* A source may list its laps in any order.
MCVendorLists == UnnumberedLists \cup NumberedLists \cup OverlappingLists
                    \cup {Reverse(v) : v \in UnnumberedLists}

\* A pit visit ends at the very sample at which the counter rises, and the
\* counter falls again within the confirmation window.
Late == <<0, 9, 11, 12, 14, 20>>

LateRecordings ==
    { [samples |-> [i \in DOMAIN Late |-> [at |-> Late[i], counter |-> (<<1, 2, 0>> \o v)[i]]],
       pitEvents |-> <<4, 9>>, duration |-> 21, head |-> "moving", reference |-> 0,
       completed |-> TRUE] : v \in [1 .. 3 -> 0 .. 3] }

AllRecordings == MCRecordings \cup NoCounterRecordings \cup LateRecordings
AllVendorLists == MCVendorLists \cup {NoVendor}

\* Either the source has laps of its own or the counter is walked.
MCInit ==
    /\ \/ recording \in MCRecordings /\ vendor = NoVendor
       \/ recording \in NoCounterRecordings /\ vendor \in MCVendorLists
    /\ PInit

MCSpec == MCInit /\ [][PNext]_allVars

LateSpec == PInit /\ recording \in LateRecordings /\ vendor = NoVendor /\ [][PNext]_allVars

MCTimerResets == {{}, {4, 5}, {2, 7}}
=============================================================================
