------------------------- MODULE TrackEvidenceProofs --------------------------
(***************************************************************************)
(* Proofs about TrackEvidence: a pit visit holds a stay in the lane, and a *)
(* shortest lap is that of a venue seen twice, for every trace, layout and *)
(* limit.                                                                  *)
(***************************************************************************)
EXTENDS TrackEvidence, ListProofs

(***************************************************************************)
(* The inductive invariant.                                                *)
(***************************************************************************)

References == [at : Nat, signed : Int]

FoundTyped ==
    found \in [references : Seq(References), kept : Seq(Fixes), seen : Seq(Nat),
               visits : Seq(Nat \X Nat), matched : {<< >>} \cup (STRING \X Nat),
               minimum : Nat \cup {NoLap}]

\* Fixes are only looked at for a layout whose lane straddles the line, and
\* passages once all of them were.
InTurn ==
    /\ trace \in Traces
    /\ step \in {"beacons", "fixes", "passages", "probes", "done"}
    /\ index \in Nat \ {0}
    /\ step = "beacons" => found.kept = << >>
    /\ step \in {"beacons", "fixes"} => found.visits = << >>
    /\ step \in {"fixes", "passages"} => Entry >= 75 /\ Exit <= 25
    /\ step = "passages" => index >= 2

\* The fixes kept are in order of time, and earlier than those to come.
Ordered == \A k, l \in DOMAIN found.kept : k < l => Kept(k).at < Kept(l).at

Behind ==
    \A k \in DOMAIN found.kept, m \in DOMAIN trace.fixes :
        m >= index => Kept(k).at < trace.fixes[m].at

\* The venue to see again was seen, and no other one since.
SeenInRow ==
    found.matched # << >> =>
      \E i \in DOMAIN trace.probes :
        /\ i < index
        /\ trace.probes[i].venue = found.matched[1] /\ trace.probes[i].at = found.matched[2]
        /\ trace.probes[i].venue # "none"
        /\ \A k \in i .. index - 1 : trace.probes[k].venue \in {"none", trace.probes[i].venue}

LaneInv ==
    /\ Ordered
    /\ step = "fixes" => Behind
    /\ VisitsAreStays

VenueInv ==
    /\ step # "done" => found.minimum = NoLap
    /\ step \in {"beacons", "fixes", "passages"} => found.matched = << >>
    /\ step = "probes" => SeenInRow
    /\ VenueSeenTwice

EvidenceInv == FoundTyped /\ InTurn /\ LaneInv /\ VenueInv

(***************************************************************************)
(* Fixes.                                                                  *)
(***************************************************************************)

LEMMA FixIs ==
    ASSUME NEW s \in Seq(Fixes)
    PROVE  /\ DOMAIN s = 1 .. Len(s) /\ Len(s) \in Nat
           /\ \A k \in DOMAIN s : s[k].at \in Nat /\ s[k].progress \in 0 .. 99 /\ s[k].speed \in Int
<1>1. DOMAIN s = 1 .. Len(s) /\ Len(s) \in Nat /\ \A k \in DOMAIN s : s[k] \in Fixes
    OBVIOUS
<1>2. \A f \in Fixes : f.at \in Nat /\ f.progress \in 0 .. 99 /\ f.speed \in Int
    BY DEF Fixes
<1> QED
    BY <1>1, <1>2

\* The fixes of a trace are in order of time.
LEMMA FixesAscend ==
    ASSUME NEW t, IsTrace(t)
    PROVE  \A i, j \in DOMAIN t.fixes : i < j => t.fixes[i].at < t.fixes[j].at
<1> DEFINE n == Len(t.fixes)
           x == [i \in 1 .. n |-> t.fixes[i].at]
<1>1. /\ DOMAIN t.fixes = 1 .. n /\ n \in Nat
      /\ \A i \in 1 .. n : t.fixes[i].at \in Nat
    BY FixIs DEF IsTrace
<1>2. \A i \in 1 .. n : i > 1 => t.fixes[i].at > t.fixes[i - 1].at
    BY <1>1 DEF IsTrace
<1> HIDE DEF n
<1>3. x \in [1 .. n -> Nat] /\ \A i \in 2 .. n : x[i - 1] <= x[i]
    <2>1. x \in [1 .. n -> Nat]
        BY <1>1
    <2>2. ASSUME NEW i \in 2 .. n PROVE x[i - 1] <= x[i]
        <3>1. i \in 1 .. n /\ i - 1 \in 1 .. n
            BY <1>1
        <3> QED
            BY <1>1, <1>2, <3>1
    <2> QED
        BY <2>1, <2>2
<1> HIDE DEF x
<1>4. \A i, j \in 1 .. n : i <= j => x[i] <= x[j]
    BY <1>1, <1>3, StepsAscend
<1>5. ASSUME NEW i \in 1 .. n, NEW j \in 1 .. n, i < j
      PROVE  t.fixes[i].at < t.fixes[j].at
    <2>1. j - 1 \in 1 .. n /\ i <= j - 1 /\ j > 1
        BY <1>1, <1>5
    <2>2. x[i] <= x[j - 1]
        BY <1>4, <2>1
    <2>3. x[i] = t.fixes[i].at /\ x[j - 1] = t.fixes[j - 1].at
        BY <2>1 DEF x
    <2>4. t.fixes[j].at > t.fixes[j - 1].at
        BY <1>2, <2>1
    <2> QED
        BY <1>1, <2>1, <2>2, <2>3, <2>4
<1> QED
    BY <1>1, <1>5

(***************************************************************************)
(* Passages.                                                               *)
(***************************************************************************)

\* The car is in the lane from fix a to fix b, and seen all the time.
Lane(a, b) == \A k \in a .. b : InLane(Kept(k)) /\ (k > a => Close(k))

\* The fixes seen during visit v, and that v holds a stay in the lane.
Inside(v) == {k \in DOMAIN found.kept : v[1] <= Kept(k).at /\ Kept(k).at <= v[2]}

StaysIn(v) == \E a, b \in Inside(v) : Kept(b).at - Kept(a).at >= Stay /\ Lane(a, b)

\* What there is to show of a list of visits.
AreStays(visits) ==
    /\ \A i \in DOMAIN visits : /\ visits[i][1] < visits[i][2]
                                /\ i > 1 => visits[i - 1][2] < visits[i][1]
    /\ Forward => \A i \in DOMAIN visits : StaysIn(visits[i])

LEMMA VisitsAre ==
    ASSUME NEW visits, visits = found.visits
    PROVE  VisitsAreStays <=> AreStays(visits)
BY DEF VisitsAreStays, AreStays, StaysIn, Inside, Lane, Range

LEMMA VisitsAreThen ==
    ASSUME NEW visits, visits = found'.visits
    PROVE  VisitsAreStays' <=> AreStays(visits)'
BY DEF VisitsAreStays, AreStays, StaysIn, Inside, Lane, Range

\* The fixes of the stay: none before the lane was entered, for the fix before
\* that is short of the entry, and none behind the exit, which is taken fast.
LEMMA StayIs ==
    ASSUME found.kept \in Seq(Fixes), NEW i \in 2 .. Len(found.kept), InLaneOverTheLine(i)
    PROVE  /\ StayFrom(i) \in 1 .. i - 1 /\ StayTo(i) \in i .. Len(found.kept)
           /\ Lane(StayFrom(i), StayTo(i))
<1> DEFINE n == Len(found.kept)
           A == {a \in 1 .. i - 1 : \A k \in a .. i - 1 : InLane(Kept(k)) /\ (k > a => Close(k))}
           B == {b \in i .. n : \A k \in i .. b : InLane(Kept(k)) /\ (k > i => Close(k))}
<1>1. n \in Nat /\ i \in Nat /\ 2 <= i /\ i <= n
    OBVIOUS
<1>2. InLane(Kept(i - 1)) /\ InLane(Kept(i)) /\ Close(i)
    BY DEF InLaneOverTheLine
<1>3. A \in SUBSET Nat /\ A # {}
    <2>1. i - 1 \in 1 .. i - 1 /\ \A k \in i - 1 .. i - 1 : k = i - 1
        BY <1>1
    <2>2. i - 1 \in A
        BY <1>2, <2>1
    <2>3. 1 .. i - 1 \in SUBSET Nat
        OBVIOUS
    <2> QED
        BY <2>2, <2>3
<1>4. B \in SUBSET (0 .. n) /\ B # {}
    <2>1. i \in i .. n /\ \A k \in i .. i : k = i
        BY <1>1
    <2>2. i \in B
        BY <1>2, <2>1
    <2>3. i .. n \in SUBSET (0 .. n)
        BY <1>1
    <2> QED
        BY <2>2, <2>3
<1>5. StayFrom(i) = Min(A) /\ StayTo(i) = Max(B)
    BY DEF StayFrom, StayTo
<1>6. StayFrom(i) \in A /\ StayTo(i) \in B
    <2> HIDE DEF A, B
    <2>1. Min(A) \in A
        BY <1>3, MinIs
    <2>2. Max(B) \in B
        BY <1>1, <1>4, MaxIs
    <2> QED
        BY <1>5, <2>1, <2>2
<1>7. PICK a \in 1 .. i - 1 : a = StayFrom(i) /\ \A k \in a .. i - 1 : InLane(Kept(k)) /\ (k > a => Close(k))
    BY <1>6
<1>8. PICK b \in i .. n : b = StayTo(i) /\ \A k \in i .. b : InLane(Kept(k)) /\ (k > i => Close(k))
    BY <1>6
<1>9. ASSUME NEW k \in a .. b PROVE InLane(Kept(k)) /\ (k > a => Close(k))
    <2>1. CASE k \in a .. i - 1
        BY <1>7, <2>1
    <2>2. CASE k = i
        BY <1>2, <2>2
    <2>3. CASE k \in i .. b /\ k > i
        BY <1>8, <2>3
    <2> QED
        BY <1>1, <2>1, <2>2, <2>3
<1> QED
    BY <1>7, <1>8, <1>9 DEF Lane

LEMMA StayIsInside ==
    ASSUME found.kept \in Seq(Fixes), Entry \in Nat, Exit \in Nat, Entry >= 75, Exit <= 25, Forward,
           NEW i \in 2 .. Len(found.kept), NEW enter \in Enters(i), NEW leave \in Leaves(i),
           NEW a \in 1 .. i - 1, NEW b \in i .. Len(found.kept), Lane(a, b)
    PROVE  enter <= a /\ b < leave
<1> DEFINE n == Len(found.kept)
<1>1. /\ n \in Nat /\ i \in 2 .. n
      /\ enter \in 2 .. i - 1 /\ leave \in i + 1 .. n
      /\ DOMAIN found.kept = 1 .. n
    <2>1. n \in Nat /\ DOMAIN found.kept = 1 .. n
        OBVIOUS
    <2>2. enter \in 2 .. i - 1 /\ leave \in i + 1 .. n
        BY Zenon DEF Enters, Leaves
    <2> QED
        BY <2>1, <2>2, Zenon
<1>2. \A k \in 1 .. n : Kept(k).progress \in 0 .. 99 /\ Kept(k).speed \in Int
    BY FixIs DEF Kept
<1>3. \A k \in a .. b : PitSector(Kept(k)) /\ Kept(k).speed <= 25
    <2> TAKE k \in a .. b
    <2>1. InLane(Kept(k))
        BY DEF Lane
    <2>2. Kept(k).speed \in 3 .. 25
        BY <2>1 DEF InLane
    <2>3. Kept(k).speed <= 25
        <3>1. \A v \in 3 .. 25 : v <= 25
            OBVIOUS
        <3> QED
            BY <2>2, <3>1
    <2>4. PitSector(Kept(k))
        BY <2>1 DEF InLane
    <2> QED
        BY <2>3, <2>4
<1>4. enter <= a
    <2> SUFFICES ASSUME a < enter PROVE FALSE
        BY <1>1
    <2>1. /\ enter \in 1 .. n /\ enter - 1 \in 1 .. n /\ enter - 1 \in a .. b /\ enter > 1
        BY <1>1
    <2>2. Kept(enter - 1).progress < Entry /\ Kept(enter).progress > 75
        BY DEF Enters
    <2>3. (Kept(enter).progress - Kept(enter - 1).progress) % 100 < 50
        BY <1>1, <2>1 DEF Forward
    <2>4. PICK p \in 0 .. 99 : p = Kept(enter).progress
        BY <1>2, <2>1
    <2>5. PICK q \in 0 .. 99 : q = Kept(enter - 1).progress
        BY <1>2, <2>1
    <2>6. q <= 25
        <3>1. PitSector(Kept(enter - 1))
            BY <1>3, <2>1
        <3>2. q >= Entry \/ q <= Exit
            BY <2>5, <3>1 DEF PitSector
        <3> QED
            BY <2>2, <2>5, <3>2
    <2>7. p - q \in 51 .. 99
        <3>1. p > 75
            BY <2>2, <2>4
        <3> QED
            BY <2>6, <3>1
    <2>8. \A m \in 51 .. 99 : m % 100 = m
        OBVIOUS
    <2>9. (p - q) % 100 = p - q
        BY <2>7, <2>8
    <2>10. (p - q) % 100 < 50
        BY <2>3, <2>4, <2>5
    <2> QED
        BY <2>7, <2>9, <2>10
<1>5. b < leave
    <2> SUFFICES ASSUME leave <= b PROVE FALSE
        BY <1>1
    <2>1. leave \in a .. b /\ leave \in 1 .. n
        BY <1>1
    <2>2. Kept(leave).speed > 25
        BY DEF Leaves
    <2> QED
        BY <1>2, <1>3, <2>1, <2>2
<1> QED
    BY <1>4, <1>5

\* A visit is entered before the passage and left behind it, and the stay in
\* the lane lies in between.
LEMMA VisitHasStay ==
    ASSUME found.kept \in Seq(Fixes), Ordered, Entry \in Nat, Exit \in Nat, Entry >= 75, Exit <= 25,
           NEW i \in 2 .. Len(found.kept), InLaneOverTheLine(i),
           Kept(StayTo(i)).at - Kept(StayFrom(i)).at >= Stay,
           NEW enter \in Enters(i), NEW leave \in Leaves(i)
    PROVE  /\ Kept(enter).at \in Nat /\ Kept(leave).at \in Nat /\ Kept(enter).at < Kept(leave).at
           /\ Forward => StaysIn(<<Kept(enter).at, Kept(leave).at>>)
<1> DEFINE n == Len(found.kept)
           v == <<Kept(enter).at, Kept(leave).at>>
<1>1. /\ n \in Nat /\ i \in 2 .. n
      /\ enter \in 2 .. i - 1 /\ leave \in i + 1 .. n
      /\ DOMAIN found.kept = 1 .. n
    BY DEF Enters, Leaves
<1>2. \A k \in 1 .. n : Kept(k).at \in Nat
    BY FixIs DEF Kept
<1>3. \A k, l \in 1 .. n : k <= l => Kept(k).at <= Kept(l).at
    <2> SUFFICES ASSUME NEW k \in 1 .. n, NEW l \in 1 .. n, k <= l PROVE Kept(k).at <= Kept(l).at
        OBVIOUS
    <2>1. CASE k = l
        BY <1>2, <2>1
    <2>2. CASE k < l
        <3>1. Kept(k).at < Kept(l).at
            BY <1>1, <2>2 DEF Ordered
        <3> QED
            BY <1>2, <3>1
    <2> QED
        BY <2>1, <2>2
<1>4. enter \in 1 .. n /\ leave \in 1 .. n /\ enter < leave
    BY <1>1
<1>5. Kept(enter).at < Kept(leave).at
    BY <1>1, <1>4 DEF Ordered
<1>6. ASSUME Forward PROVE StaysIn(v)
    <2>1. PICK a \in 1 .. i - 1 : a = StayFrom(i)
        BY StayIs
    <2>2. PICK b \in i .. n : b = StayTo(i)
        BY StayIs
    <2>3. Lane(a, b) /\ Kept(b).at - Kept(a).at >= Stay
        BY <2>1, <2>2, StayIs
    <2>4. enter <= a /\ b < leave
        BY <1>6, <2>3, StayIsInside
    <2>5. a \in 1 .. n /\ b \in 1 .. n /\ a <= b
        BY <1>1
    <2>6. a \in Inside(v) /\ b \in Inside(v)
        <3>1. a <= leave /\ enter <= b /\ b <= leave
            BY <1>1, <2>4, <2>5
        <3>2. /\ Kept(enter).at <= Kept(a).at /\ Kept(a).at <= Kept(leave).at
              /\ Kept(enter).at <= Kept(b).at /\ Kept(b).at <= Kept(leave).at
            BY <1>3, <1>4, <2>4, <2>5, <3>1
        <3> QED
            BY <1>1, <2>5, <3>2 DEF Inside
    <2> QED
        BY <2>3, <2>6 DEF StaysIn, Lane
<1> QED
    BY <1>2, <1>4, <1>5, <1>6

(***************************************************************************)
(* What the steps leave alone.                                             *)
(***************************************************************************)

\* The fixes looked at and the lane they tell do not change.
SameFixes == found'.kept = found.kept /\ found'.references = found.references

LEMMA SameFixesSameStays ==
    ASSUME SameFixes
    PROVE  /\ Forward' <=> Forward
           /\ Ordered' <=> Ordered
           /\ \A v : StaysIn(v)' <=> StaysIn(v)
<1>1. /\ found'.kept = found.kept /\ found'.references = found.references
    BY DEF SameFixes
<1>2. /\ \A k : Kept(k)' = Kept(k)
      /\ Low' = Low /\ High' = High
    BY <1>1 DEF Kept, Low, High
<1>3. \A k : Close(k)' <=> Close(k)
    BY <1>2 DEF Close
<1>4. \A k : InLane(Kept(k))' <=> InLane(Kept(k))
    BY <1>2 DEF InLane, PitSector
<1>5. \A a, b : Lane(a, b)' <=> Lane(a, b)
    BY <1>3, <1>4 DEF Lane
<1>6. \A v : Inside(v)' = Inside(v)
    BY <1>1, <1>2 DEF Inside
<1> QED
    BY <1>1, <1>2, <1>5, <1>6 DEF Forward, Ordered, StaysIn

LEMMA SameVisitsStay ==
    ASSUME SameFixes, found'.visits = found.visits, VisitsAreStays
    PROVE  VisitsAreStays'
<1>1. PICK visits : visits = found.visits
    OBVIOUS
<1>2. AreStays(visits)
    BY <1>1, VisitsAre
<1>3. AreStays(visits)'
    BY <1>2, SameFixesSameStays DEF AreStays
<1> QED
    BY <1>1, <1>3, VisitsAreThen

\* Without visits there is nothing to show.
LEMMA NoVisits ==
    ASSUME found'.visits = << >>
    PROVE  VisitsAreStays'
<1>1. DOMAIN found'.visits = {}
    OBVIOUS
<1> QED
    BY <1>1 DEF VisitsAreStays, Range

\* Nothing happens to the venue but by a probe.
LEMMA VenueWaits ==
    ASSUME VenueInv, trace' = trace, found'.matched = found.matched, found'.minimum = found.minimum,
           step \in {"beacons", "fixes", "passages"}, step' # "done"
    PROVE  VenueInv'
<1>1. found.matched = << >> /\ found.minimum = NoLap
    BY DEF VenueInv
<1> QED
    BY <1>1 DEF VenueInv, SeenInRow, VenueSeenTwice

(***************************************************************************)
(* The steps.                                                              *)
(***************************************************************************)

LEMMA EvidenceInit ==
    ASSUME TrackInit
    PROVE  EvidenceInv
<1>1. /\ trace \in Traces /\ step = "beacons" /\ index = 1
      /\ found = [references |-> << >>, kept |-> << >>, seen |-> << >>, visits |-> << >>,
                  matched |-> << >>, minimum |-> NoLap]
    BY DEF TrackInit
<1>2. FoundTyped
    <2>1. \A T : << >> \in Seq(T)
        BY EmptySeq
    <2> QED
        BY <1>1, <2>1 DEF FoundTyped
<1>3. found.kept = << >> /\ found.visits = << >> /\ found.matched = << >> /\ found.minimum = NoLap
    BY <1>1
<1>4. InTurn
    BY <1>1, <1>3 DEF InTurn
<1>5. LaneInv
    <2>1. VisitsAreStays
        <3>1. DOMAIN found.visits = {}
            BY <1>3
        <3> QED
            BY <3>1 DEF VisitsAreStays, Range
    <2> QED
        BY <1>1, <1>3, <2>1 DEF LaneInv, Ordered
<1>6. VenueInv
    BY <1>1, <1>3 DEF VenueInv, VenueSeenTwice
<1> QED
    BY <1>2, <1>4, <1>5, <1>6 DEF EvidenceInv

LEMMA BeaconKeeps ==
    ASSUME EvidenceInv, IsTrace(trace), TakeBeacon
    PROVE  EvidenceInv'
<1>1. /\ FoundTyped /\ InTurn /\ LaneInv /\ VenueInv
      /\ step = "beacons" /\ step' = "beacons" /\ trace' = trace /\ index' = index + 1
      /\ index \in DOMAIN trace.beacons
    <2>1. trace.beacons \in Seq(Beacons)
        BY DEF IsTrace
    <2> QED
        BY <2>1 DEF EvidenceInv, InTurn, TakeBeacon
<1>2. PICK beacon \in Beacons : beacon = trace.beacons[index]
    BY <1>1 DEF IsTrace
<1>3. [at |-> beacon.at, signed |-> beacon.signed] \in References
    BY DEF Beacons, References
<1>4. PICK r \in References : found' \in {found, [found EXCEPT !.references = Append(@, r)]}
    BY <1>2, <1>3 DEF TakeBeacon
<1>5. FoundTyped' /\ found'.kept = found.kept /\ found'.visits = found.visits
      /\ found'.matched = found.matched /\ found'.minimum = found.minimum
    <2>1. CASE found' = found
        BY <1>1, <2>1 DEF FoundTyped
    <2>2. CASE found' = [found EXCEPT !.references = Append(@, r)]
        <3>1. Append(found.references, r) \in Seq(References)
            BY <1>1 DEF FoundTyped
        <3> QED
            BY <1>1, <2>2, <3>1 DEF FoundTyped
    <2> QED
        BY <1>4, <2>1, <2>2
<1>6. InTurn'
    BY <1>1, <1>5 DEF InTurn
<1>7. LaneInv'
    <2>1. found'.kept = << >> /\ found'.visits = << >>
        BY <1>1, <1>5 DEF InTurn
    <2>2. Ordered'
        BY <2>1 DEF Ordered
    <2>3. VisitsAreStays'
        BY <2>1, NoVisits
    <2> QED
        BY <1>1, <2>2, <2>3 DEF LaneInv
<1>8. VenueInv'
    BY <1>1, <1>5, VenueWaits
<1> QED
    BY <1>5, <1>6, <1>7, <1>8 DEF EvidenceInv

LEMMA BeaconsDoneKeeps ==
    ASSUME EvidenceInv, BeaconsDone
    PROVE  EvidenceInv'
<1>1. /\ FoundTyped /\ InTurn /\ LaneInv /\ VenueInv
      /\ step = "beacons" /\ index' = 1 /\ trace' = trace /\ found' = found
      /\ step' = IF CanTell THEN "fixes" ELSE "probes"
    BY DEF EvidenceInv, BeaconsDone, Goto
<1>2. found.kept = << >> /\ found.visits = << >>
    BY <1>1 DEF InTurn
<1>3. InTurn'
    BY <1>1, <1>2 DEF InTurn, CanTell
<1>4. LaneInv'
    <2>1. VisitsAreStays'
        BY <1>1, <1>2, NoVisits
    <2> QED
        BY <1>1, <1>2, <2>1 DEF LaneInv, Ordered, Behind
<1>5. VenueInv'
    BY <1>1, VenueWaits
<1> QED
    BY <1>1, <1>3, <1>4, <1>5 DEF EvidenceInv, FoundTyped

LEMMA FixKeeps ==
    ASSUME EvidenceInv, IsTrace(trace), TakeFix
    PROVE  EvidenceInv'
<1>1. /\ FoundTyped /\ InTurn /\ LaneInv /\ VenueInv
      /\ step = "fixes" /\ step' = "fixes" /\ trace' = trace /\ index' = index + 1
      /\ index \in DOMAIN trace.fixes /\ index \in Nat
    <2>1. trace.fixes \in Seq(Fixes)
        BY DEF IsTrace
    <2> QED
        BY <2>1 DEF EvidenceInv, InTurn, TakeFix
<1>2. PICK fix \in Fixes : fix = trace.fixes[index]
    BY <1>1 DEF IsTrace
<1>3. fix.at \in Nat
    BY DEF Fixes
<1>4. PICK crowded, trusted \in BOOLEAN :
        found' = IF crowded THEN found
                 ELSE [found EXCEPT !.kept = IF trusted THEN Append(@, fix) ELSE @,
                                    !.seen = Append(@, fix.at)]
    <2>1. PICK crowded \in BOOLEAN : crowded = (found.seen # << >> /\ fix.at - Last(found.seen) < MinPeriod)
        OBVIOUS
    <2>2. PICK trusted \in BOOLEAN : trusted = Trusted(fix)
        BY DEF Trusted
    <2> QED
        BY <1>2, <2>1, <2>2 DEF TakeFix
<1>5. /\ FoundTyped' /\ found'.visits = found.visits
      /\ found'.matched = found.matched /\ found'.minimum = found.minimum
      /\ found'.kept = found.kept \/ found'.kept = Append(found.kept, fix)
    <2>1. CASE found' = found
        BY <1>1, <2>1 DEF FoundTyped
    <2> found.kept \in Seq(Fixes) /\ found.seen \in Seq(Nat)
        BY <1>1 DEF FoundTyped
    <2>2. PICK kept \in Seq(Fixes) : kept = IF trusted THEN Append(found.kept, fix) ELSE found.kept
        <3>1. Append(found.kept, fix) \in Seq(Fixes)
            OBVIOUS
        <3> QED
            BY <3>1
    <2>3. PICK seen \in Seq(Nat) : seen = Append(found.seen, fix.at)
        <3>1. Append(found.seen, fix.at) \in Seq(Nat)
            BY <1>3
        <3> QED
            BY <3>1
    <2>4. CASE ~crowded
        <3>1. found' = [found EXCEPT !.kept = kept, !.seen = seen]
            BY <1>4, <2>2, <2>3, <2>4
        <3> QED
            BY <1>1, <2>2, <3>1 DEF FoundTyped
    <2> QED
        BY <1>4, <2>1, <2>4
<1>6. InTurn'
    BY <1>1, <1>5 DEF InTurn
<1>7. Ordered' /\ Behind'
    <2>1. PICK kept \in Seq(Fixes) : kept = found.kept
        BY <1>1 DEF FoundTyped
    <2>2. PICK then \in Seq(Fixes) : then = found'.kept /\ (then = kept \/ then = Append(kept, fix))
        BY <1>5, <2>1 DEF FoundTyped
    <2>3. \A k, l \in DOMAIN kept : k < l => kept[k].at < kept[l].at
        BY <1>1, <2>1 DEF LaneInv, Ordered, Kept
    <2>4. \A k \in DOMAIN kept, m \in DOMAIN trace.fixes : m >= index => kept[k].at < trace.fixes[m].at
        BY <1>1, <2>1 DEF LaneInv, Behind, Kept
    <2>5. \A k \in DOMAIN kept : kept[k].at < fix.at
        <3>1. index \in DOMAIN trace.fixes /\ index >= index
            BY <1>1
        <3> QED
            BY <1>2, <2>4, <3>1
    <2>6. \A m \in DOMAIN trace.fixes : m >= index + 1 => fix.at < trace.fixes[m].at /\ m >= index
        <3>1. DOMAIN trace.fixes \subseteq Nat
            BY FixIs DEF IsTrace
        <3> QED
            BY <1>1, <1>2, <3>1, FixesAscend
    <2>7. \A k \in DOMAIN then :
             \/ k \in DOMAIN kept /\ then[k] = kept[k]
             \/ k = Len(kept) + 1 /\ then[k] = fix
        BY <2>2
    <2>8. \A k \in DOMAIN kept : k \in Nat /\ k <= Len(kept)
        OBVIOUS
    <2>9. ASSUME NEW k \in DOMAIN then, NEW l \in DOMAIN then, k < l PROVE then[k].at < then[l].at
        <3>1. k \in DOMAIN kept
            BY <2>7, <2>8, <2>9
        <3> QED
            BY <2>3, <2>5, <2>7, <2>9, <3>1
    <2>10. ASSUME NEW k \in DOMAIN then, NEW m \in DOMAIN trace.fixes, m >= index + 1
           PROVE  then[k].at < trace.fixes[m].at
        BY <2>4, <2>6, <2>7, <2>10
    <2>11. Ordered'
        BY <2>2, <2>9 DEF Ordered, Kept
    <2>12. Behind'
        BY <1>1, <2>2, <2>10 DEF Behind, Kept
    <2> QED
        BY <2>11, <2>12
<1>8. LaneInv'
    <2>1. VisitsAreStays'
        BY <1>1, <1>5, NoVisits DEF InTurn
    <2> QED
        BY <1>7, <2>1 DEF LaneInv
<1>9. VenueInv'
    BY <1>1, <1>5, VenueWaits
<1> QED
    BY <1>5, <1>6, <1>8, <1>9 DEF EvidenceInv

LEMMA FixesDoneKeeps ==
    ASSUME EvidenceInv, FixesDone
    PROVE  EvidenceInv'
<1>1. /\ FoundTyped /\ InTurn /\ LaneInv /\ VenueInv
      /\ step = "fixes" /\ step' = "passages" /\ index' = 2 /\ trace' = trace /\ found' = found
    BY DEF EvidenceInv, FixesDone
<1>2. SameFixes
    BY <1>1 DEF SameFixes
<1>3. InTurn'
    BY <1>1 DEF InTurn
<1>4. LaneInv'
    BY <1>1, <1>2, SameFixesSameStays, SameVisitsStay DEF LaneInv
<1>5. VenueInv'
    BY <1>1, VenueWaits
<1> QED
    BY <1>1, <1>3, <1>4, <1>5 DEF EvidenceInv, FoundTyped

LEMMA PassagesDoneKeeps ==
    ASSUME EvidenceInv, PassagesDone
    PROVE  EvidenceInv'
<1>1. /\ FoundTyped /\ InTurn /\ LaneInv /\ VenueInv
      /\ step = "passages" /\ step' = "probes" /\ index' = 1 /\ trace' = trace /\ found' = found
    BY DEF EvidenceInv, PassagesDone, Goto
<1>2. SameFixes
    BY <1>1 DEF SameFixes
<1>3. InTurn'
    BY <1>1 DEF InTurn
<1>4. LaneInv'
    BY <1>1, <1>2, SameFixesSameStays, SameVisitsStay DEF LaneInv
<1>5. VenueInv'
    BY <1>1, VenueWaits
<1> QED
    BY <1>1, <1>3, <1>4, <1>5 DEF EvidenceInv, FoundTyped

LEMMA PassageKeeps ==
    ASSUME EvidenceInv, Entry \in Nat, Exit \in Nat, Passage
    PROVE  EvidenceInv'
<1>1. /\ FoundTyped /\ InTurn /\ LaneInv /\ VenueInv
      /\ step = "passages" /\ step' = "passages" /\ trace' = trace /\ index' = index + 1
      /\ index \in Nat /\ index >= 2 /\ index <= Len(found.kept)
      /\ Entry >= 75 /\ Exit <= 25
    BY DEF EvidenceInv, InTurn, Passage
<1>2. found.kept \in Seq(Fixes) /\ found.visits \in Seq(Nat \X Nat)
    BY <1>1 DEF FoundTyped
<1>3. PICK i \in 2 .. Len(found.kept) : i = index
    BY <1>1, <1>2
<1>4. CASE found' = found
    <2>1. SameFixes
        BY <1>4 DEF SameFixes
    <2>2. LaneInv'
        BY <1>1, <1>4, <2>1, SameFixesSameStays, SameVisitsStay DEF LaneInv
    <2>3. InTurn' /\ FoundTyped' /\ VenueInv'
        BY <1>1, <1>4, VenueWaits DEF InTurn, FoundTyped
    <2> QED
        BY <2>2, <2>3 DEF EvidenceInv
<1>5. CASE found' # found
    <2>1. PICK enter, leave :
             /\ enter = Max(Enters(i)) /\ leave = Min(Leaves(i))
             /\ InLaneOverTheLine(i)
             /\ Kept(StayTo(i)).at - Kept(StayFrom(i)).at >= Stay
             /\ Enters(i) # {} /\ Leaves(i) # {}
             /\ IsVisit(i, enter, leave)
             /\ found' = [found EXCEPT !.visits = Append(@, <<Kept(enter).at, Kept(leave).at>>)]
        BY <1>3, <1>5 DEF Passage
    <2>2. enter \in Enters(i) /\ leave \in Leaves(i)
        <3>1. Enters(i) \in SUBSET (0 .. i)
            BY DEF Enters
        <3>2. Leaves(i) \in SUBSET Nat
            BY <1>2 DEF Leaves
        <3>3. i \in Nat /\ Enters(i) # {} /\ Leaves(i) # {}
            BY <1>2, <2>1
        <3>4. Max(Enters(i)) \in Enters(i)
            BY <3>1, <3>3, MaxIs
        <3>5. Min(Leaves(i)) \in Leaves(i)
            BY <3>2, <3>3, MinIs
        <3> QED
            BY <2>1, <3>4, <3>5
    <2>3. PICK v \in Nat \X Nat : v = <<Kept(enter).at, Kept(leave).at>> /\ v[1] < v[2] /\ (Forward => StaysIn(v))
        <3>1. Ordered
            BY <1>1 DEF LaneInv
        <3> QED
            BY <1>1, <1>2, <2>1, <2>2, <3>1, VisitHasStay
    <2>4. found.visits # << >> => v[1] > Last(found.visits)[2]
        BY <2>1, <2>3 DEF IsVisit
    <2>5. PICK visits \in Seq(Nat \X Nat) : visits = found.visits
        BY <1>2
    <2>6. PICK then \in Seq(Nat \X Nat) : then = Append(visits, v)
        <3>1. Append(visits, v) \in Seq(Nat \X Nat)
            OBVIOUS
        <3> QED
            BY <3>1
    <2>7. found' = [found EXCEPT !.visits = then]
        BY <2>1, <2>3, <2>5, <2>6
    <2>8. /\ FoundTyped' /\ found'.visits = then
          /\ found'.kept = found.kept /\ found'.references = found.references
          /\ found'.matched = found.matched /\ found'.minimum = found.minimum
        BY <1>1, <2>7 DEF FoundTyped
    <2>9. SameFixes
        BY <2>8 DEF SameFixes
    <2>10. AreStays(visits)
        BY <1>1, <2>5, VisitsAre DEF LaneInv
    <2>11. /\ Len(visits) \in Nat /\ DOMAIN visits = 1 .. Len(visits)
           /\ DOMAIN then = 1 .. Len(visits) + 1
           /\ \A k \in 1 .. Len(visits) : then[k] = visits[k]
           /\ then[Len(visits) + 1] = v
        BY <2>6
    <2>12. ASSUME NEW k \in DOMAIN then
           PROVE  then[k][1] < then[k][2] /\ (k > 1 => then[k - 1][2] < then[k][1])
        <3>1. CASE k \in 1 .. Len(visits)
            <4>1. k > 1 => k - 1 \in 1 .. Len(visits)
                <5>1. Len(visits) \in Nat
                    BY <2>11
                <5>2. \A n \in Nat : \A m \in 1 .. n : m > 1 => m - 1 \in 1 .. n
                    OBVIOUS
                <5> QED
                    BY <3>1, <5>1, <5>2
            <4> QED
                BY <2>10, <2>11, <3>1, <4>1 DEF AreStays
        <3>2. CASE k = Len(visits) + 1
            <4>1. then[k][1] < then[k][2]
                BY <2>3, <2>11, <3>2
            <4>2. ASSUME k > 1 PROVE then[k - 1][2] < then[k][1]
                <5>1. visits # << >> /\ Len(visits) \in 1 .. Len(visits) /\ k - 1 = Len(visits)
                    BY <2>11, <3>2, <4>2
                <5>2. v[1] > visits[Len(visits)][2]
                    BY <2>4, <2>5, <5>1 DEF Last
                <5>3. v[1] \in Nat /\ visits[Len(visits)][2] \in Nat
                    BY <5>1
                <5> QED
                    BY <2>11, <3>2, <5>1, <5>2, <5>3
            <4> QED
                BY <4>1, <4>2
        <3> QED
            BY <2>11, <3>1, <3>2
    <2>13. ASSUME Forward PROVE \A k \in DOMAIN then : StaysIn(then[k])
        <3>1. \A k \in DOMAIN visits : StaysIn(visits[k])
            BY <2>10, <2>13 DEF AreStays
        <3>2. StaysIn(v)
            BY <2>3, <2>13
        <3> TAKE k \in DOMAIN then
        <3>3. k \in 1 .. Len(visits) \/ k = Len(visits) + 1
            BY <2>11
        <3>4. CASE k \in 1 .. Len(visits)
            BY <2>11, <3>1, <3>4
        <3>5. CASE k = Len(visits) + 1
            BY <2>11, <3>2, <3>5
        <3> QED
            BY <3>3, <3>4, <3>5
    <2>14. AreStays(then)'
        BY <2>9, <2>12, <2>13, SameFixesSameStays DEF AreStays
    <2>15. LaneInv'
        BY <1>1, <2>8, <2>9, <2>14, SameFixesSameStays, VisitsAreThen DEF LaneInv
    <2>16. InTurn' /\ VenueInv'
        BY <1>1, <2>8, VenueWaits DEF InTurn
    <2> QED
        BY <2>8, <2>15, <2>16 DEF EvidenceInv
<1> QED
    BY <1>4, <1>5

(***************************************************************************)
(* The venue.                                                              *)
(***************************************************************************)

\* Nothing happens to the fixes and the visits by then.
LEMMA LaneStays ==
    ASSUME EvidenceInv, SameFixes, found'.visits = found.visits, trace' = trace,
           step = "probes", step' \in {"probes", "done"}, index' \in Nat \ {0}
    PROVE  InTurn' /\ LaneInv'
<1>1. InTurn /\ LaneInv
    BY DEF EvidenceInv
<1>2. InTurn'
    BY <1>1 DEF InTurn
<1>3. LaneInv'
    BY <1>1, SameFixesSameStays, SameVisitsStay DEF LaneInv
<1> QED
    BY <1>2, <1>3

\* What is known of the venue once a probe was looked at.
LEMMA MatchedIs ==
    ASSUME IsTrace(trace), SeenInRow, index \in Nat \ {0}, index \in DOMAIN trace.probes,
           NEW matched, matched = Matched(found.matched, trace.probes[index]),
           trace.probes[index].venue # "none"
    PROVE  /\ matched[1] = trace.probes[index].venue
           /\ \E i \in DOMAIN trace.probes :
                /\ i <= index
                /\ trace.probes[i].venue = matched[1] /\ trace.probes[i].at = matched[2]
                /\ \A k \in i .. index : trace.probes[k].venue \in {"none", matched[1]}
<1> DEFINE Venue(k) == trace.probes[k].venue
<1>1. \A i \in DOMAIN trace.probes : i \in Nat
    BY DEF IsTrace
<1>2. CASE found.matched # << >> /\ found.matched[1] = Venue(index)
    <2>1. matched = found.matched
        BY <1>2 DEF Matched
    <2>2. PICK i \in DOMAIN trace.probes :
            /\ i < index
            /\ Venue(i) = matched[1] /\ trace.probes[i].at = matched[2]
            /\ \A k \in i .. index - 1 : Venue(k) \in {"none", Venue(i)}
        BY <1>2, <2>1 DEF SeenInRow
    <2>3. \A k \in i .. index : k \in i .. index - 1 \/ k = index
        BY <1>1
    <2>4. \A k \in i .. index : Venue(k) \in {"none", matched[1]}
        BY <1>2, <2>1, <2>2, <2>3
    <2>5. i <= index
        BY <1>1, <2>2
    <2> QED
        BY <1>2, <2>1, <2>2, <2>4, <2>5
<1>3. CASE ~(found.matched # << >> /\ found.matched[1] = Venue(index))
    <2>1. matched = <<Venue(index), trace.probes[index].at>>
        BY <1>3 DEF Matched
    <2>2. \A k \in index .. index : k = index
        OBVIOUS
    <2>3. \A k \in index .. index : Venue(k) \in {"none", matched[1]}
        BY <2>1, <2>2
    <2>4. index <= index
        OBVIOUS
    <2> QED
        BY <2>1, <2>3, <2>4
<1> QED
    BY <1>2, <1>3

LEMMA ProbeKeeps ==
    ASSUME EvidenceInv, IsTrace(trace), ProbeVenue
    PROVE  EvidenceInv'
<1>1. /\ FoundTyped /\ InTurn /\ LaneInv /\ VenueInv
      /\ step = "probes" /\ trace' = trace /\ index' = index + 1
      /\ index \in Nat \ {0} /\ index \in DOMAIN trace.probes
    <2>1. trace.probes \in Seq(Probes)
        BY DEF IsTrace
    <2> QED
        BY <2>1 DEF EvidenceInv, InTurn, ProbeVenue
<1>2. SeenInRow /\ found.minimum = NoLap
    BY <1>1 DEF VenueInv
<1>3. \A i \in DOMAIN trace.probes : i \in Nat
    BY DEF IsTrace
<1>4. trace.probes[index] \in Probes
    BY <1>1 DEF IsTrace
<1>5. index' \in Nat \ {0}
    BY <1>1
<1>6. CASE trace.probes[index].venue = "none"
    <2>1. step' = "probes" /\ found' = found
        BY <1>1, <1>6 DEF ProbeVenue
    <2>2. InTurn' /\ LaneInv'
        BY <1>1, <1>5, <2>1, LaneStays DEF SameFixes
    <2>3. SeenInRow'
        <3>1. ASSUME found.matched # << >>
              PROVE \E i \in DOMAIN trace.probes :
                /\ i < index + 1
                /\ trace.probes[i].venue = found.matched[1] /\ trace.probes[i].at = found.matched[2]
                /\ trace.probes[i].venue # "none"
                /\ \A k \in i .. index + 1 - 1 : trace.probes[k].venue \in {"none", trace.probes[i].venue}
            <4>1. PICK i \in DOMAIN trace.probes :
                    /\ i < index
                    /\ trace.probes[i].venue = found.matched[1] /\ trace.probes[i].at = found.matched[2]
                    /\ trace.probes[i].venue # "none"
                    /\ \A k \in i .. index - 1 : trace.probes[k].venue \in {"none", trace.probes[i].venue}
                BY <1>2, <3>1 DEF SeenInRow
            <4>2. \A k \in i .. index + 1 - 1 : k \in i .. index - 1 \/ k = index
                BY <1>1, <1>3
            <4>3. i < index + 1
                BY <1>1, <1>3, <4>1
            <4> QED
                BY <1>6, <4>1, <4>2, <4>3
        <3> QED
            BY <1>1, <2>1, <3>1 DEF SeenInRow
    <2>4. VenueInv'
        BY <1>1, <1>2, <2>1, <2>3 DEF VenueInv, VenueSeenTwice
    <2> QED
        BY <1>1, <2>1, <2>2, <2>4 DEF EvidenceInv, FoundTyped
<1>7. CASE trace.probes[index].venue # "none"
    <2>1. PICK matched : matched = Matched(found.matched, trace.probes[index])
        OBVIOUS
    <2>2. matched[1] = trace.probes[index].venue
        BY <1>1, <1>2, <1>7, <2>1, MatchedIs
    <2>3. PICK i \in DOMAIN trace.probes :
             /\ i <= index
             /\ trace.probes[i].venue = matched[1] /\ trace.probes[i].at = matched[2]
             /\ \A k \in i .. index : trace.probes[k].venue \in {"none", matched[1]}
        BY <1>1, <1>2, <1>7, <2>1, MatchedIs
    <2>4. CASE trace.probes[index].at - matched[2] >= Separate
        <3>1. step' = "done" /\ found' = [found EXCEPT !.minimum = trace.probes[index].shortest]
            BY <1>7, <2>1, <2>2, <2>4 DEF ProbeVenue
        <3>2. trace.probes[index].shortest \in Nat \cup {NoLap}
            BY <1>4 DEF Probes
        <3>3. FoundTyped' /\ SameFixes /\ found'.visits = found.visits
              /\ found'.minimum = trace.probes[index].shortest
            BY <1>1, <3>1, <3>2 DEF FoundTyped, SameFixes
        <3>4. InTurn' /\ LaneInv'
            BY <1>1, <1>5, <3>1, <3>3, LaneStays
        <3>5. trace.probes[i].shortest = trace.probes[index].shortest
            BY <1>1, <2>2, <2>3 DEF IsTrace
        <3>6. VenueSeenTwice'
            BY <1>1, <1>7, <2>2, <2>3, <2>4, <3>3, <3>5 DEF VenueSeenTwice
        <3>7. VenueInv'
            BY <3>1, <3>6 DEF VenueInv
        <3> QED
            BY <3>3, <3>4, <3>7 DEF EvidenceInv
    <2>5. CASE ~(trace.probes[index].at - matched[2] >= Separate)
        <3>1. step' = "probes" /\ found' = [found EXCEPT !.matched = matched]
            BY <1>1, <1>7, <2>1, <2>2, <2>5 DEF ProbeVenue
        <3>2. matched \in {<< >>} \cup (STRING \X Nat)
            <4>1. trace.probes[index].venue \in STRING /\ trace.probes[index].at \in Nat
                BY <1>4 DEF Probes
            <4> QED
                BY <1>1, <2>1, <4>1 DEF Matched, FoundTyped
        <3>3. FoundTyped' /\ SameFixes /\ found'.visits = found.visits
              /\ found'.minimum = NoLap /\ found'.matched = matched
            BY <1>1, <1>2, <3>1, <3>2 DEF FoundTyped, SameFixes
        <3>4. InTurn' /\ LaneInv'
            BY <1>1, <1>5, <3>1, <3>3, LaneStays
        <3>5. SeenInRow'
            <4>1. i < index + 1 /\ index + 1 - 1 = index
                BY <1>1, <1>3, <2>3
            <4> QED
                BY <1>1, <1>7, <2>2, <2>3, <3>3, <4>1 DEF SeenInRow
        <3>6. VenueInv'
            BY <3>1, <3>3, <3>5 DEF VenueInv, VenueSeenTwice
        <3> QED
            BY <3>3, <3>4, <3>6 DEF EvidenceInv
    <2> QED
        BY <2>4, <2>5
<1> QED
    BY <1>6, <1>7

LEMMA ProbesDoneKeeps ==
    ASSUME EvidenceInv, ProbesDone
    PROVE  EvidenceInv'
<1>1. /\ FoundTyped /\ InTurn /\ LaneInv /\ VenueInv
      /\ step = "probes" /\ step' = "done" /\ index' = 1 /\ trace' = trace /\ found' = found
    BY DEF EvidenceInv, ProbesDone, Goto
<1>2. InTurn' /\ LaneInv'
    BY <1>1, LaneStays DEF SameFixes
<1>3. VenueInv'
    BY <1>1 DEF VenueInv, VenueSeenTwice
<1> QED
    BY <1>1, <1>2, <1>3 DEF EvidenceInv, FoundTyped

LEMMA EvidenceNext ==
    ASSUME \A t \in Traces : IsTrace(t), Entry \in Nat, Exit \in Nat, EvidenceInv, [TrackNext]_trackVars
    PROVE  EvidenceInv'
<1>1. IsTrace(trace)
    BY DEF EvidenceInv, InTurn
<1>2. CASE UNCHANGED trackVars
    <2>1. trace' = trace /\ step' = step /\ index' = index /\ found' = found
        BY <1>2 DEF trackVars
    <2>2. FoundTyped' /\ InTurn' /\ SameFixes
        BY <2>1 DEF EvidenceInv, FoundTyped, InTurn, SameFixes
    <2>3. LaneInv'
        BY <2>1, <2>2, SameFixesSameStays, SameVisitsStay DEF EvidenceInv, LaneInv, Behind, Kept
    <2>4. VenueInv'
        BY <2>1 DEF EvidenceInv, VenueInv, SeenInRow, VenueSeenTwice
    <2> QED
        BY <2>2, <2>3, <2>4 DEF EvidenceInv
<1> QED
    BY <1>1, <1>2, BeaconKeeps, BeaconsDoneKeeps, FixKeeps, FixesDoneKeeps, PassageKeeps,
       PassagesDoneKeeps, ProbeKeeps, ProbesDoneKeeps DEF TrackNext

\* For every layout and all limits: visits are in order and apart, and unless
\* the fixes jump back each holds a stay in the lane that was seen throughout
\* (pit_visits); and a shortest lap is that of one venue seen twice, apart,
\* with no other in between (physical_minimum_lap_ns).
THEOREM EvidenceHolds ==
    ASSUME \A t \in Traces : IsTrace(t), Entry \in Nat, Exit \in Nat
    PROVE  TrackSpec => []TrackEvidenceHolds
<1>1. TrackInit => EvidenceInv
    BY EvidenceInit
<1>2. EvidenceInv /\ [TrackNext]_trackVars => EvidenceInv'
    BY EvidenceNext
<1>3. EvidenceInv => TrackEvidenceHolds
    BY DEF EvidenceInv, LaneInv, VenueInv, TrackEvidenceHolds
<1> QED
    BY <1>1, <1>2, <1>3, PTL DEF TrackSpec

=============================================================================
