------------------------ MODULE DerivedChannelsProofs ------------------------
(***************************************************************************)
(* Proofs about DerivedChannels: what gps.clean leaves of any recording is *)
(* plausible, whatever the limits of speed, gap and insistence.            *)
(***************************************************************************)
EXTENDS DerivedChannels, ListProofs

(***************************************************************************)
(* Standing still.                                                         *)
(***************************************************************************)

\* The samples of a recording have their types.
Speeds == [at : Nat, speed : Int]

LEMMA SpeedTyped ==
    ASSUME IsInput(input)
    PROVE  /\ input.speeds \in Seq(Speeds)
           /\ \A i \in DOMAIN input.speeds : input.speeds[i].at \in Nat
<1>1. input.speeds \in Seq(Speeds)
    BY DEF IsInput, Speeds
<1>2. \A v \in Speeds : v.at \in Nat
    BY DEF Speeds
<1>3. \A i \in DOMAIN input.speeds : input.speeds[i] \in Speeds
    BY <1>1
<1> QED
    BY <1>1, <1>2, <1>3

LEMMA FixTyped ==
    ASSUME IsInput(input)
    PROVE  /\ input.fixes \in Seq(GpsFixes)
           /\ DOMAIN input.fixes = 1 .. Len(input.fixes) /\ Len(input.fixes) \in Nat
           /\ \A i \in DOMAIN input.fixes :
                 /\ input.fixes[i].at \in Nat
                 /\ input.fixes[i].place \in Int
<1>1. input.fixes \in Seq(GpsFixes)
    BY DEF IsInput
<1>2. \A f \in GpsFixes : f.at \in Nat /\ f.place \in Int
    BY DEF GpsFixes, Nan
<1>3. \A i \in DOMAIN input.fixes : input.fixes[i] \in GpsFixes
    BY <1>1
<1>4. DOMAIN input.fixes = 1 .. Len(input.fixes) /\ Len(input.fixes) \in Nat
    BY <1>1
<1> QED
    BY <1>1, <1>2, <1>3, <1>4

\* Samples in order of time are so in all pairs.
LEMMA AscendsAll ==
    ASSUME NEW T, NEW s \in Seq(T), \A x \in T : x.at \in Nat, Ascends(s)
    PROVE  \A i, j \in DOMAIN s : i <= j => s[i].at <= s[j].at
<1> DEFINE x == [i \in 1 .. Len(s) |-> s[i].at]
<1>1. x \in [1 .. Len(s) -> Nat] /\ Len(s) \in Nat /\ DOMAIN s = 1 .. Len(s)
    OBVIOUS
<1>2. \A i \in 2 .. Len(s) : x[i - 1] <= x[i]
    <2> SUFFICES ASSUME NEW i \in 2 .. Len(s) PROVE x[i - 1] <= x[i]
        OBVIOUS
    <2>1. i - 1 \in 1 .. Len(s) /\ i \in 1 .. Len(s)
        OBVIOUS
    <2>2. x[i - 1] = s[i - 1].at /\ x[i] = s[i].at
        BY <2>1
    <2>3. s[i].at \in Nat /\ s[i - 1].at \in Nat /\ s[i].at >= s[i - 1].at
        BY <2>1 DEF Ascends
    <2> QED
        BY <2>2, <2>3
<1>3. \A i, j \in 1 .. Len(s) : i <= j => x[i] <= x[j]
    BY <1>1, <1>2, StepsAscend
<1> QED
    BY <1>1, <1>3

\* The car stands since an instant before f only if it was seen to, all along.
LEMMA StandingIsSeen ==
    ASSUME IsInput(input), NEW time \in Nat, StationaryLeadIn(time) < time
    PROVE  /\ StationaryLeadIn(time) \in Nat
           /\ StandsFrom(StationaryLeadIn(time), time)
<1> DEFINE S == {time} \cup {s \in {input.speeds[i].at : i \in DOMAIN input.speeds} : StandsFrom(s, time)}
<1>1. \A i \in DOMAIN input.speeds : input.speeds[i].at \in Nat
    BY SpeedTyped
<1>2. S \in SUBSET Nat /\ S # {}
    BY <1>1
<1>3. Min(S) \in S
    BY <1>2, MinIs
<1>4. StationaryLeadIn(time) = Min(S)
    BY DEF StationaryLeadIn
<1> QED
    BY <1>2, <1>3, <1>4

LEMMA StoodWhileFilled ==
    ASSUME IsInput(input), Ascends(input.fixes), Ascends(input.speeds), SpeedGap \in Nat,
           NEW i \in DOMAIN input.fixes, NEW j \in DOMAIN input.fixes, i <= j,
           StationaryLeadIn(FixAt(j).at) < FixAt(j).at, FixAt(i).at >= StationaryLeadIn(FixAt(j).at)
    PROVE  StoodBetween(i, j)
<1> DEFINE time == FixAt(j).at
           since == StationaryLeadIn(FixAt(j).at)
           n == Len(input.speeds)
           At(k) == input.speeds[k].at
           within == {k \in DOMAIN input.speeds : At(k) >= since /\ At(k) <= time}
           seen == {k \in DOMAIN input.speeds : At(k) >= FixAt(i).at - SpeedGap /\ At(k) <= FixAt(j).at}
<1>1. time \in Nat /\ FixAt(i).at \in Nat /\ FixAt(i).at <= time
    <2>1. \A f \in GpsFixes : f.at \in Nat
        BY DEF GpsFixes
    <2> QED
        BY <2>1, FixTyped, AscendsAll DEF FixAt
<1>2. since \in Nat /\ StandsFrom(since, time)
    BY <1>1, StandingIsSeen
<1>3. n \in Nat /\ DOMAIN input.speeds = 1 .. n /\ \A k \in 1 .. n : At(k) \in Nat
    BY SpeedTyped
<1>4. \A k, l \in 1 .. n : k <= l => At(k) <= At(l)
    <2>1. \A v \in Speeds : v.at \in Nat
        BY DEF Speeds
    <2> QED
        BY <1>3, <2>1, SpeedTyped, AscendsAll
<1>5. /\ within # {} /\ At(Min(within)) = since
      /\ time - At(Max(within)) <= SpeedGap
      /\ \A k \in within : /\ input.speeds[k].speed = 0
                           /\ k + 1 \in within => At(k + 1) - At(k) <= SpeedGap
    BY <1>2 DEF StandsFrom
<1>6. within \in SUBSET Nat /\ within \in SUBSET (0 .. n)
    BY <1>3
<1>7. Min(within) \in within /\ Max(within) \in within /\ \A k \in within : k <= Max(within)
    BY <1>3, <1>5, <1>6, MinIs, MaxIs
<1> HIDE DEF time, since, n, At, within, seen
<1>8. ASSUME NEW t \in FixAt(i).at .. FixAt(j).at
      PROVE  \E k \in seen : /\ At(k) <= t /\ t - At(k) <= SpeedGap
                             /\ \A l \in seen : l >= k /\ At(l) <= t => input.speeds[l].speed = 0
    <2> DEFINE past == {k \in within : At(k) <= t}
    <2>1. t \in Nat /\ FixAt(i).at <= t /\ t <= time /\ since <= t
        BY <1>1, <1>2 DEF time, since
    <2>2. past \in SUBSET (0 .. n) /\ Min(within) \in past
        BY <1>5, <1>6, <1>7, <2>1
    <2>3. PICK k \in past : \A l \in past : l <= k
        BY <1>3, <2>2, GreatestNatural
    <2>4. k \in 1 .. n /\ At(k) \in Nat /\ At(k) >= since /\ At(k) <= time /\ At(k) <= t
        BY <1>3, <2>3 DEF within
    <2>5. t - At(k) <= SpeedGap
        <3>1. CASE k + 1 \in within
            <4>1. At(k + 1) > t
                <5>1. ~(k + 1 <= k)
                    BY <2>4
                <5>2. k + 1 \notin past
                    BY <2>3, <5>1
                <5>3. k + 1 \in 1 .. n
                    BY <1>3, <3>1 DEF within
                <5>4. At(k + 1) \in Nat
                    BY <1>3, <5>3
                <5> QED
                    BY <2>1, <3>1, <5>2, <5>4
            <4>2. At(k + 1) - At(k) <= SpeedGap
                BY <1>5, <2>3, <3>1
            <4>3. At(k + 1) \in Nat
                BY <1>3, <3>1 DEF within
            <4> QED
                BY <2>1, <2>4, <4>1, <4>2, <4>3
        <3>2. CASE k + 1 \notin within
            <4> DEFINE m == Max(within)
            <4>1. m \in 1 .. n /\ At(m) \in Nat /\ At(m) <= time /\ k <= m
                BY <1>3, <1>7, <2>3 DEF within
            <4>2. m = k
                <5> SUFFICES ASSUME m # k PROVE FALSE
                    OBVIOUS
                <5>1. k + 1 \in 1 .. n /\ k <= k + 1 /\ k + 1 <= m
                    BY <1>3, <2>4, <4>1
                <5>2. At(k) <= At(k + 1) /\ At(k + 1) <= At(m) /\ At(k + 1) \in Nat
                    BY <1>3, <1>4, <2>4, <4>1, <5>1
                <5>3. At(k + 1) >= since /\ At(k + 1) <= time
                    BY <1>1, <1>2, <2>4, <4>1, <5>2 DEF time, since
                <5> QED
                    BY <1>3, <3>2, <5>1, <5>3 DEF within
            <4>3. time - At(k) <= SpeedGap
                BY <1>5, <4>2
            <4>4. time \in Nat
                BY <1>1 DEF time
            <4> QED
                BY <2>1, <2>4, <4>3, <4>4
        <3> QED
            BY <3>1, <3>2
    <2>6. k \in seen
        BY <1>1, <1>3, <2>1, <2>4, <2>5 DEF seen, time
    <2>7. ASSUME NEW l \in seen, l >= k, At(l) <= t PROVE input.speeds[l].speed = 0
        <3>1. l \in 1 .. n /\ At(l) \in Nat
            BY <1>3 DEF seen
        <3>2. At(k) <= At(l)
            BY <1>4, <2>4, <2>7, <3>1
        <3>3. At(l) >= since /\ At(l) <= time
            BY <1>2, <1>1, <2>1, <2>4, <2>7, <3>1, <3>2 DEF time, since
        <3>4. l \in within
            BY <1>3, <3>1, <3>3 DEF within
        <3> QED
            BY <1>5, <3>4
    <2> QED
        BY <2>4, <2>5, <2>6, <2>7
<1> QED
    BY <1>8 DEF StoodBetween, seen, At

(***************************************************************************)
(* The inductive invariant.                                                *)
(***************************************************************************)
Count == Len(derived.clean)

TrustedIn(a, b) == {k \in a .. b : Reliable(k)}

\* The samples behind a, the fix accepted last (none when a = 0), are masked,
\* and the streak counts those of them that the receiver insisted on.
Anchored(a) ==
    /\ a = 0 <=> derived.accepted = NoFix
    /\ a > 0 => /\ derived.accepted = <<[at |-> FixAt(a).at, place |-> FixAt(a).place]>>
                /\ Own(a)
                /\ derived.streak = Cardinality(TrustedIn(a + 1, Count))
    /\ derived.gap = IF a = Count THEN 0 ELSE a + 1
    /\ \A k \in (a + 1) .. Count : derived.clean[k] = Nan

DerivedTyped ==
    /\ derived = [valid |-> derived.valid, sigma |-> derived.sigma, clean |-> derived.clean,
                  accepted |-> derived.accepted, streak |-> derived.streak, gap |-> derived.gap,
                  odometer |-> derived.odometer, doubt |-> derived.doubt, gaps |-> derived.gaps,
                  held |-> derived.held]
    /\ derived.valid \in Seq(BOOLEAN)
    /\ derived.clean \in Seq(Int)

\* How far the passes are: every fix is graded or none, and cleaning has come
\* to the sample before the next.
Progress ==
    /\ input \in Inputs
    /\ cursor \in Nat
    /\ pass \in {"gps.quality", "gps.clean", "speed.distance", "done"}
    /\ pass = "gps.quality" => /\ cursor <= Len(input.fixes) + 1
                               /\ Len(derived.valid) = IF cursor = 0 THEN 0 ELSE cursor - 1
    /\ pass # "gps.quality" => Len(derived.valid) \in {0, Len(input.fixes)}
    /\ pass = "gps.quality" \/ (pass = "gps.clean" /\ cursor = 0) =>
          derived.clean = << >> /\ derived.accepted = NoFix /\ derived.gap = 0
    /\ pass = "gps.clean" /\ cursor > 0 =>
          /\ cursor <= Len(input.fixes) + 1 /\ Count = cursor - 1
          /\ Ascends(input.fixes)
          /\ \E a \in 0 .. Count : Anchored(a)
    /\ Count <= Len(input.fixes)

\* The two halves of CleanIsPlausible, for one sample and for two.
Explained(i) ==
    \E j \in DOMAIN derived.clean :
        Own(j) /\ j > i /\ derived.clean[j] = derived.clean[i] /\ StoodBetween(i, j)

Jump(i, j) ==
    /\ Own(i) /\ Own(j) /\ i < j
    /\ \A k \in (i + 1) .. (j - 1) : ~(k \in DOMAIN derived.clean /\ Own(k))
    /\ FixAt(j).at > FixAt(i).at
    /\ Distance(FixAt(i).place, FixAt(j).place) > MaxSpeed * (FixAt(j).at - FixAt(i).at)

Insisted(i, j) ==
    {k \in (i + 1) .. (j - 1) : Sane(FixAt(k).place) /\ (derived.valid # << >> => derived.valid[k])}

Believed(i, j) == Cardinality(Insisted(i, j)) >= ReanchorAfter \/ Explained(j)

FillsExplained == \A i \in DOMAIN derived.clean : derived.clean[i] = Nan \/ Own(i) \/ Explained(i)

JumpsBelieved == \A i, j \in DOMAIN derived.clean : Jump(i, j) => Believed(i, j)

CleanInv ==
    /\ Progress
    /\ DerivedTyped
    /\ Ascends(input.speeds) => FillsExplained /\ JumpsBelieved

LEMMA PlausibleIs == FillsExplained /\ JumpsBelieved => CleanIsPlausible
<1> SUFFICES ASSUME FillsExplained, JumpsBelieved PROVE CleanIsPlausible
    OBVIOUS
<1>1. ASSUME NEW i \in DOMAIN derived.clean, derived.clean[i] # Nan, ~Own(i)
      PROVE  \E j \in DOMAIN derived.clean :
                Own(j) /\ j > i /\ derived.clean[j] = derived.clean[i] /\ StoodBetween(i, j)
    BY <1>1 DEF FillsExplained, Explained
<1>2. ASSUME NEW i \in DOMAIN derived.clean, NEW j \in DOMAIN derived.clean, Jump(i, j)
      PROVE  \/ Cardinality(Insisted(i, j)) >= ReanchorAfter
             \/ \E k \in DOMAIN derived.clean :
                   Own(k) /\ k > j /\ derived.clean[k] = derived.clean[j] /\ StoodBetween(j, k)
    BY <1>2 DEF JumpsBelieved, Believed, Explained
<1> QED
    BY <1>1, <1>2 DEF CleanIsPlausible, Jump, Insisted

(***************************************************************************)
(* A masked sample.                                                        *)
(***************************************************************************)

LEMMA MaskedIs ==
    ASSUME DerivedTyped, NEW s, derived' = Masked(s)
    PROVE  /\ DerivedTyped'
           /\ derived'.clean = Append(derived.clean, Nan)
           /\ derived'.valid = derived.valid /\ derived'.accepted = derived.accepted
           /\ derived'.streak = s
           /\ derived'.gap = IF derived.gap = 0 THEN cursor ELSE derived.gap
<1>1. /\ derived'.clean = Append(derived.clean, Nan)
      /\ derived'.valid = derived.valid /\ derived'.accepted = derived.accepted
      /\ derived'.streak = s
      /\ derived'.gap = IF derived.gap = 0 THEN cursor ELSE derived.gap
      /\ derived' = [valid |-> derived'.valid, sigma |-> derived'.sigma, clean |-> derived'.clean,
                     accepted |-> derived'.accepted, streak |-> derived'.streak, gap |-> derived'.gap,
                     odometer |-> derived'.odometer, doubt |-> derived'.doubt, gaps |-> derived'.gaps,
                     held |-> derived'.held]
    BY DEF Masked, DerivedTyped
<1>2. derived'.clean \in Seq(Int)
    BY <1>1 DEF DerivedTyped, Nan
<1> QED
    BY <1>1, <1>2 DEF DerivedTyped

\* Whether a sample is the receiver's own depends on it alone.
LEMMA OwnKept ==
    ASSUME input' = input, derived'.valid = derived.valid, NEW i,
           derived'.clean[i] = derived.clean[i]
    PROVE  Own(i)' <=> Own(i)
BY DEF Own, FixAt

LEMMA OwnIsNumber ==
    ASSUME DerivedTyped, IsInput(input), NEW i \in DOMAIN derived.clean, Own(i)
    PROVE  derived.clean[i] # Nan
<1>1. derived.clean[i] = FixAt(i).place /\ Sane(FixAt(i).place)
    BY DEF Own
<1>2. derived.clean[i] > 0
    BY <1>1 DEF Sane
<1> QED
    BY <1>2 DEF Nan

LEMMA MaskKeeps ==
    ASSUME DerivedTyped, DerivedTyped', IsInput(input), input' = input,
           derived'.valid = derived.valid, derived'.clean = Append(derived.clean, Nan),
           FillsExplained, JumpsBelieved
    PROVE  FillsExplained' /\ JumpsBelieved'
<1>1. PICK n \in Nat :
         /\ DOMAIN derived.clean = 1 .. n /\ DOMAIN derived'.clean = 1 .. n + 1
         /\ \A i \in 1 .. n : derived'.clean[i] = derived.clean[i]
         /\ derived'.clean[n + 1] = Nan
    <2>1. derived.clean \in Seq(Int)
        BY DEF DerivedTyped
    <2> QED
        BY <2>1
<1>2. \A i \in 1 .. n : Own(i)' <=> Own(i)
    BY <1>1, OwnKept
<1>3. ~Own(n + 1)'
    <2> SUFFICES ASSUME Own(n + 1)' PROVE FALSE
        OBVIOUS
    <2>1. FixAt(n + 1)'.place = Nan /\ Sane(FixAt(n + 1)'.place)
        BY <1>1 DEF Own
    <2> QED
        BY <2>1 DEF Sane, Nan
<1>4. ASSUME NEW i \in 1 .. n, Explained(i) PROVE Explained(i)'
    <2>1. PICK j \in DOMAIN derived.clean :
              Own(j) /\ j > i /\ derived.clean[j] = derived.clean[i] /\ StoodBetween(i, j)
        BY <1>4 DEF Explained
    <2>2. StoodBetween(i, j)'
        BY <2>1 DEF StoodBetween, FixAt
    <2>3. j \in 1 .. n /\ j \in DOMAIN derived'.clean /\ Own(j)'
        BY <1>1, <1>2, <2>1
    <2> QED
        BY <1>1, <2>1, <2>2, <2>3 DEF Explained
<1>5. FillsExplained'
    <2> SUFFICES ASSUME NEW i \in 1 .. n + 1
                 PROVE  derived'.clean[i] = Nan \/ Own(i)' \/ Explained(i)'
        BY <1>1 DEF FillsExplained
    <2>1. CASE i \in 1 .. n
        BY <1>1, <1>2, <1>4, <2>1 DEF FillsExplained
    <2>2. CASE i = n + 1
        BY <1>1, <2>2
    <2> QED
        BY <1>1, <2>1, <2>2
<1>6. JumpsBelieved'
    <2> SUFFICES ASSUME NEW i \in 1 .. n + 1, NEW j \in 1 .. n + 1, Jump(i, j)' PROVE Believed(i, j)'
        BY <1>1 DEF JumpsBelieved
    <2>1. Own(i)' /\ Own(j)' /\ i < j
        BY DEF Jump
    <2>2. i \in 1 .. n /\ j \in 1 .. n
        BY <1>1, <1>3, <2>1
    <2>3. Jump(i, j)
        <3>1. \A k \in (i + 1) .. (j - 1) : ~(k \in DOMAIN derived.clean /\ Own(k))
            <4> SUFFICES ASSUME NEW k \in (i + 1) .. (j - 1), k \in DOMAIN derived.clean, Own(k) PROVE FALSE
                OBVIOUS
            <4>1. k \in DOMAIN derived'.clean /\ Own(k)'
                BY <1>1, <1>2
            <4> QED
                BY <4>1 DEF Jump
        <3>2. Own(i) /\ Own(j)
            BY <1>2, <2>1, <2>2
        <3> QED
            BY <2>1, <3>1, <3>2 DEF Jump, FixAt
    <2>4. Believed(i, j)
        BY <1>1, <2>2, <2>3 DEF JumpsBelieved
    <2>5. Insisted(i, j)' = Insisted(i, j)
        BY DEF Insisted, FixAt
    <2> QED
        BY <1>4, <2>2, <2>4, <2>5 DEF Believed
<1> QED
    BY <1>5, <1>6

\* The streak goes on counting.
LEMMA MaskAnchors ==
    ASSUME DerivedTyped, DerivedTyped', input' = input, NEW n \in Nat, Count = n, cursor = n + 1,
           NEW a \in 0 .. n, Anchored(a), NEW s, derived' = Masked(s),
           Reliable(cursor) => s = derived.streak + 1,
           ~Reliable(cursor) => s = derived.streak
    PROVE  Count' = n + 1 /\ Anchored(a)'
<1>1. /\ derived'.clean = Append(derived.clean, Nan)
      /\ derived'.valid = derived.valid /\ derived'.accepted = derived.accepted
      /\ derived'.streak = s
      /\ derived'.gap = IF derived.gap = 0 THEN cursor ELSE derived.gap
    BY MaskedIs
<1>2. /\ Count' = n + 1
      /\ \A k \in 1 .. n : derived'.clean[k] = derived.clean[k]
      /\ derived'.clean[n + 1] = Nan
    <2>1. derived.clean \in Seq(Int) /\ n = Len(derived.clean)
        BY DEF DerivedTyped, Count
    <2> QED
        BY <1>1, <2>1 DEF Count
<1>3. \A k : Reliable(k)' <=> Reliable(k)
    BY <1>1 DEF Reliable
<1>4. TrustedIn(a + 1, n + 1)' = {k \in (a + 1) .. (n + 1) : Reliable(k)}
    BY <1>3 DEF TrustedIn
<1>5. TrustedIn(a + 1, n) = {k \in (a + 1) .. n : Reliable(k)}
    BY DEF TrustedIn
<1>6. ASSUME a > 0 PROVE derived'.streak = Cardinality(TrustedIn(a + 1, n + 1)')
    <2> DEFINE old == TrustedIn(a + 1, n)
    <2>1. IsFiniteSet(old) /\ Cardinality(old) \in Nat
        <3>1. IsFiniteSet((a + 1) .. n) /\ old \in SUBSET ((a + 1) .. n)
            BY <1>5, FS_Interval
        <3> QED
            BY <3>1, FS_Subset, FS_CardinalityType
    <2>2. derived.streak = Cardinality(old)
        BY <1>6 DEF Anchored
    <2>3. CASE Reliable(cursor)
        <3>1. TrustedIn(a + 1, n + 1)' = old \cup {n + 1} /\ n + 1 \notin old
            BY <1>4, <1>5, <2>3
        <3>2. Cardinality(old \cup {n + 1}) = Cardinality(old) + 1
            BY <2>1, <3>1, FS_AddElement
        <3> QED
            BY <1>1, <2>2, <2>3, <3>1, <3>2
    <2>4. CASE ~Reliable(cursor)
        <3>1. TrustedIn(a + 1, n + 1)' = old
            BY <1>4, <1>5, <2>4
        <3> QED
            BY <1>1, <2>2, <2>4, <3>1
    <2> QED
        BY <2>3, <2>4
<1>7. ASSUME a > 0 PROVE Own(a)'
    <2>1. a \in 1 .. n /\ Own(a)
        BY <1>7 DEF Anchored
    <2> QED
        BY <1>1, <1>2, <2>1, OwnKept
<1>8. derived'.gap = IF a = n + 1 THEN 0 ELSE a + 1
    BY <1>1 DEF Anchored
<1>9. \A k \in (a + 1) .. (n + 1) : derived'.clean[k] = Nan
    BY <1>2 DEF Anchored
<1>10. a = 0 <=> derived'.accepted = NoFix
    BY <1>1 DEF Anchored, NoFix
<1>11. a > 0 => derived'.accepted = <<[at |-> FixAt(a).at, place |-> FixAt(a).place]>>'
    BY <1>1 DEF Anchored, FixAt
<1> QED
    BY <1>2, <1>6, <1>7, <1>8, <1>9, <1>10, <1>11 DEF Anchored

(***************************************************************************)
(* An accepted sample.                                                     *)
(***************************************************************************)

LEMMA AcceptedIs ==
    ASSUME DerivedTyped, NEW f, f.place \in Int, derived' = Accepted(f)
    PROVE  /\ DerivedTyped'
           /\ derived'.clean = Append(Filled(f), f.place)
           /\ Filled(f) \in Seq(Int)
           /\ derived'.valid = derived.valid
           /\ derived'.accepted = <<[at |-> f.at, place |-> f.place]>>
           /\ derived'.streak = 0 /\ derived'.gap = 0
<1>1. /\ derived'.clean = Append(Filled(f), f.place)
      /\ derived'.valid = derived.valid
      /\ derived'.accepted = <<[at |-> f.at, place |-> f.place]>>
      /\ derived'.streak = 0 /\ derived'.gap = 0
      /\ derived' = [valid |-> derived'.valid, sigma |-> derived'.sigma, clean |-> derived'.clean,
                     accepted |-> derived'.accepted, streak |-> derived'.streak, gap |-> derived'.gap,
                     odometer |-> derived'.odometer, doubt |-> derived'.doubt, gaps |-> derived'.gaps,
                     held |-> derived'.held]
    BY DEF Accepted, DerivedTyped
<1>2. Filled(f) \in Seq(Int)
    <2>1. PICK n \in Nat : DOMAIN derived.clean = 1 .. n /\ \A i \in 1 .. n : derived.clean[i] \in Int
        BY DEF DerivedTyped
    <2>2. Filled(f) \in [1 .. n -> Int]
        BY <2>1 DEF Filled
    <2> QED
        BY <2>2, SeqOfFunction
<1>3. derived'.clean \in Seq(Int)
    BY <1>1, <1>2
<1> QED
    BY <1>1, <1>2, <1>3 DEF DerivedTyped

\* The position found after a gap is given to its masked samples only, and to
\* those during which the car stood.
LEMMA FilledIs ==
    ASSUME DerivedTyped, NEW n \in Nat, Count = n, NEW a \in 0 .. n, Anchored(a), NEW f
    PROVE  /\ Len(Filled(f)) = n
           /\ \A i \in 1 .. a : Filled(f)[i] = derived.clean[i]
           /\ \A i \in (a + 1) .. n :
                 \/ Filled(f)[i] = Nan
                 \/ /\ Filled(f)[i] = f.place
                    /\ StationaryLeadIn(f.at) < f.at
                    /\ input.fixes[i].at >= StationaryLeadIn(f.at)
<1>1. DOMAIN derived.clean = 1 .. n
    BY DEF DerivedTyped, Count
<1>2. DOMAIN Filled(f) = 1 .. n /\ Filled(f) \in [1 .. n -> {f.place} \cup {derived.clean[i] : i \in 1 .. n}]
    BY <1>1 DEF Filled
<1>3. Len(Filled(f)) = n
    BY <1>2
<1>4. ASSUME NEW i \in 1 .. a PROVE Filled(f)[i] = derived.clean[i]
    <2>1. i \in 1 .. n /\ ~(derived.gap # 0 /\ i >= derived.gap)
        BY DEF Anchored
    <2> QED
        BY <1>1, <2>1 DEF Filled
<1>5. ASSUME NEW i \in (a + 1) .. n
      PROVE  \/ Filled(f)[i] = Nan
             \/ /\ Filled(f)[i] = f.place
                /\ StationaryLeadIn(f.at) < f.at
                /\ input.fixes[i].at >= StationaryLeadIn(f.at)
    <2>1. i \in 1 .. n /\ derived.clean[i] = Nan
        BY DEF Anchored
    <2> QED
        BY <1>1, <2>1 DEF Filled
<1> QED
    BY <1>3, <1>4, <1>5

LEMMA AcceptAnchors ==
    ASSUME DerivedTyped, DerivedTyped', input' = input, NEW n \in Nat, Count = n, cursor = n + 1,
           NEW a \in 0 .. n, Anchored(a), Reliable(cursor), cursor \in DOMAIN input.fixes,
           derived.valid # << >> => Len(derived.valid) = Len(input.fixes),
           IsInput(input), derived' = Accepted(input.fixes[cursor])
    PROVE  Count' = n + 1 /\ Own(n + 1)' /\ Anchored(n + 1)'
<1> DEFINE f == input.fixes[n + 1]
<1>1. f.place \in Int /\ derived' = Accepted(f)
    BY FixTyped
<1> HIDE DEF f
<1>2. /\ derived'.clean = Append(Filled(f), f.place)
      /\ Filled(f) \in Seq(Int)
      /\ derived'.valid = derived.valid
      /\ derived'.accepted = <<[at |-> f.at, place |-> f.place]>>
      /\ derived'.streak = 0 /\ derived'.gap = 0
    BY <1>1, AcceptedIs
<1>3. Len(Filled(f)) = n
    BY FilledIs
<1>4. Count' = n + 1 /\ derived'.clean[n + 1] = f.place
    BY <1>2, <1>3 DEF Count
<1>5. Own(n + 1)'
    <2>1. Sane(f.place) /\ (n + 1 \in DOMAIN derived.valid => derived.valid[n + 1])
        BY DEF Reliable, f
    <2>2. derived.valid # << >> => n + 1 \in DOMAIN derived.valid
        BY FixTyped DEF DerivedTyped
    <2> QED
        BY <1>2, <1>4, <2>1, <2>2 DEF Own, FixAt, f
<1>6. derived'.streak = Cardinality(TrustedIn((n + 1) + 1, Count))'
    <2>1. TrustedIn((n + 1) + 1, Count)' = {}
        BY <1>4 DEF TrustedIn
    <2> QED
        BY <1>2, <2>1, FS_EmptySet
<1>7. \A k \in ((n + 1) + 1) .. Count' : derived'.clean[k] = Nan
    BY <1>4
<1>8. derived'.accepted = <<[at |-> FixAt(n + 1).at, place |-> FixAt(n + 1).place]>>'
    BY <1>2 DEF FixAt, f
<1>9. derived'.accepted # NoFix
    BY <1>2 DEF NoFix
<1> QED
    BY <1>2, <1>4, <1>5, <1>6, <1>7, <1>8, <1>9 DEF Anchored

LEMMA AcceptKeeps ==
    ASSUME DerivedTyped, DerivedTyped', input' = input, NEW n \in Nat, Count = n, cursor = n + 1,
           NEW a \in 0 .. n, Anchored(a), Reliable(cursor), cursor \in DOMAIN input.fixes,
           derived.valid # << >> => Len(derived.valid) = Len(input.fixes),
           IsInput(input), derived' = Accepted(input.fixes[cursor]),
           Teleports(input.fixes[cursor]) => derived.streak >= ReanchorAfter,
           Ascends(input.fixes), Ascends(input.speeds), SpeedGap \in Nat, MaxSpeed \in Nat,
           FillsExplained, JumpsBelieved
    PROVE  FillsExplained' /\ JumpsBelieved'
<1>1. PICK f : f = input.fixes[n + 1] /\ f.place \in Int /\ f.at \in Nat
    BY FixTyped
<1>2. /\ DOMAIN derived'.clean = 1 .. n + 1 /\ DOMAIN derived.clean = 1 .. n
      /\ derived'.valid = derived.valid
      /\ derived'.clean[n + 1] = f.place
      /\ \A i \in 1 .. a : derived'.clean[i] = derived.clean[i]
      /\ \A i \in (a + 1) .. n :
            \/ derived'.clean[i] = Nan
            \/ /\ derived'.clean[i] = f.place
               /\ StationaryLeadIn(f.at) < f.at
               /\ input.fixes[i].at >= StationaryLeadIn(f.at)
    <2>1. derived' = Accepted(f)
        BY <1>1
    <2>2. /\ derived'.clean = Append(Filled(f), f.place) /\ Filled(f) \in Seq(Int)
          /\ derived'.valid = derived.valid
        BY <1>1, <2>1, AcceptedIs
    <2>3. /\ Len(Filled(f)) = n
          /\ \A i \in 1 .. a : Filled(f)[i] = derived.clean[i]
          /\ \A i \in (a + 1) .. n :
                \/ Filled(f)[i] = Nan
                \/ /\ Filled(f)[i] = f.place
                   /\ StationaryLeadIn(f.at) < f.at
                   /\ input.fixes[i].at >= StationaryLeadIn(f.at)
        BY FilledIs
    <2>4. /\ DOMAIN derived'.clean = 1 .. n + 1 /\ derived'.clean[n + 1] = f.place
          /\ \A i \in 1 .. n : derived'.clean[i] = Filled(f)[i]
        <3>1. PICK g \in Seq(Int) : g = Filled(f) /\ Len(g) = n
            BY <2>2, <2>3
        <3>2. f.place \in Int
            BY <1>1
        <3>3. derived'.clean = Append(g, f.place)
            BY <2>2, <3>1
        <3> QED
            BY <3>1, <3>2, <3>3
    <2>5. DOMAIN derived.clean = 1 .. n
        BY DEF DerivedTyped, Count
    <2>6. (\A i \in 1 .. a : i \in 1 .. n) /\ (\A i \in (a + 1) .. n : i \in 1 .. n)
        OBVIOUS
    <2>7. \A i \in 1 .. a : derived'.clean[i] = derived.clean[i]
        BY <2>3, <2>4, <2>6, Zenon
    <2>8. \A i \in (a + 1) .. n :
             \/ derived'.clean[i] = Nan
             \/ /\ derived'.clean[i] = f.place
                /\ StationaryLeadIn(f.at) < f.at
                /\ input.fixes[i].at >= StationaryLeadIn(f.at)
        BY <2>3, <2>4, <2>6, Zenon
    <2> QED
        BY <2>2, <2>4, <2>5, <2>7, <2>8, Zenon
<1>3. \A i \in 1 .. a : Own(i)' <=> Own(i)
    BY <1>2, OwnKept
<1>4. Own(n + 1)' /\ FixAt(n + 1) = f /\ FixAt(n + 1)' = f /\ n + 1 \in DOMAIN input.fixes
    BY <1>1, AcceptAnchors DEF FixAt
<1>5. \A i \in 1 .. n : Own(i) => i <= a
    <2> SUFFICES ASSUME NEW i \in 1 .. n, Own(i), ~(i <= a) PROVE FALSE
        OBVIOUS
    <2>1. derived.clean[i] # Nan
        BY <1>2, OwnIsNumber
    <2> QED
        BY <2>1 DEF Anchored
<1>6. ASSUME NEW i \in 1 .. a, Explained(i) PROVE Explained(i)'
    <2>1. PICK j \in DOMAIN derived.clean :
              Own(j) /\ j > i /\ derived.clean[j] = derived.clean[i] /\ StoodBetween(i, j)
        BY <1>6 DEF Explained
    <2>2. StoodBetween(i, j)'
        BY <2>1 DEF StoodBetween, FixAt
    <2>3. j \in 1 .. a /\ j \in DOMAIN derived'.clean /\ Own(j)'
        BY <1>2, <1>3, <1>5, <2>1
    <2> QED
        BY <1>2, <2>1, <2>2, <2>3 DEF Explained
<1>7. ASSUME NEW i \in (a + 1) .. n, derived'.clean[i] # Nan
      PROVE  derived'.clean[i] = f.place /\ Explained(i)'
    <2>1. /\ derived'.clean[i] = f.place
          /\ StationaryLeadIn(f.at) < f.at
          /\ input.fixes[i].at >= StationaryLeadIn(f.at)
        BY <1>2, <1>7
    <2>2. i \in DOMAIN input.fixes /\ i <= n + 1 /\ n + 1 > i
        BY FixTyped
    <2>3. StoodBetween(i, n + 1)
        BY <1>4, <2>1, <2>2, StoodWhileFilled DEF FixAt
    <2>4. StoodBetween(i, n + 1)'
        BY <2>3 DEF StoodBetween, FixAt
    <2>5. n + 1 \in DOMAIN derived'.clean
        BY <1>2
    <2> QED
        BY <1>2, <1>4, <2>1, <2>2, <2>4, <2>5 DEF Explained
<1>8. FillsExplained'
    <2> SUFFICES ASSUME NEW i \in 1 .. n + 1
                 PROVE  derived'.clean[i] = Nan \/ Own(i)' \/ Explained(i)'
        BY <1>2 DEF FillsExplained
    <2>1. CASE i \in 1 .. a
        <3>1. derived.clean[i] = Nan \/ Own(i) \/ Explained(i)
            BY <1>2, <2>1 DEF FillsExplained
        <3> QED
            BY <1>2, <1>3, <1>6, <2>1, <3>1
    <2>2. CASE i \in (a + 1) .. n
        BY <1>7, <2>2
    <2>3. CASE i = n + 1
        BY <1>4, <2>3
    <2> QED
        BY <2>1, <2>2, <2>3
<1>9. JumpsBelieved'
    <2> SUFFICES ASSUME NEW i \in 1 .. n + 1, NEW j \in 1 .. n + 1, Jump(i, j)' PROVE Believed(i, j)'
        BY <1>2 DEF JumpsBelieved
    <2>1. /\ Own(i)' /\ Own(j)' /\ i < j
          /\ FixAt(j).at > FixAt(i).at
          /\ Distance(FixAt(i).place, FixAt(j).place) > MaxSpeed * (FixAt(j).at - FixAt(i).at)
        BY DEF Jump, FixAt, Distance
    <2>2. Insisted(i, j)' = Insisted(i, j)
        BY <1>2 DEF Insisted, FixAt
    <2>3. CASE j \in 1 .. a
        <3>1. i \in 1 .. a
            BY <2>1, <2>3
        <3>2. Own(i) /\ Own(j)
            BY <1>3, <2>1, <2>3, <3>1
        <3>3. \A k \in (i + 1) .. (j - 1) : ~(k \in DOMAIN derived.clean /\ Own(k))
            <4> SUFFICES ASSUME NEW k \in (i + 1) .. (j - 1), k \in DOMAIN derived.clean, Own(k) PROVE FALSE
                OBVIOUS
            <4>1. k \in 1 .. a
                BY <2>3
            <4>2. k \in DOMAIN derived'.clean /\ Own(k)'
                BY <1>2, <1>3, <4>1
            <4> QED
                BY <4>2 DEF Jump
        <3>4. Jump(i, j)
            BY <2>1, <3>2, <3>3 DEF Jump
        <3>5. Believed(i, j)
            BY <1>2, <2>3, <3>1, <3>4 DEF JumpsBelieved
        <3> QED
            BY <1>6, <2>2, <2>3, <3>5 DEF Believed
    <2>4. CASE j \in (a + 1) .. n
        <3>1. derived'.clean[j] # Nan
            <4>1. derived'.clean[j] > 0
                BY <2>1 DEF Own, Sane
            <4> QED
                BY <4>1 DEF Nan
        <3> QED
            BY <1>7, <2>4, <3>1 DEF Believed
    <2>5. CASE j = n + 1
        <3>1. FixAt(i).at \in Nat /\ FixAt(i).place \in Int
            BY <2>1, <2>5, FixTyped DEF FixAt
        <3>2. CASE i \in (a + 1) .. n
            <4>1. derived'.clean[i] = FixAt(i).place /\ derived'.clean[i] > 0
                BY <2>1 DEF Own, Sane, FixAt
            <4>2. FixAt(i).place = f.place
                BY <1>7, <3>2, <4>1 DEF Nan
            <4>3. Distance(FixAt(i).place, FixAt(j).place) = 0
                BY <1>1, <1>4, <2>5, <4>2 DEF Distance
            <4>4. FixAt(j).at - FixAt(i).at \in Nat
                BY <1>1, <1>4, <2>1, <2>5, <3>1
            <4>5. MaxSpeed * (FixAt(j).at - FixAt(i).at) \in Nat
                BY <4>4
            <4> QED
                BY <2>1, <4>3, <4>5
        <3>3. CASE i \in 1 .. a
            <4>1. a > 0 /\ Own(a)
                BY <3>3 DEF Anchored
            <4>2. a = i
                <5> SUFFICES ASSUME a # i PROVE FALSE
                    OBVIOUS
                <5>1. a \in 1 .. a /\ a \in (i + 1) .. (j - 1) /\ a \in 1 .. n + 1
                    BY <2>5, <3>3
                <5>2. Own(a)' /\ a \in DOMAIN derived'.clean
                    BY <1>2, <1>3, <4>1, <5>1
                <5> QED
                    BY <5>1, <5>2 DEF Jump
            <4>3. derived.accepted = <<[at |-> FixAt(i).at, place |-> FixAt(i).place]>>
                BY <4>1, <4>2 DEF Anchored
            <4>4. Teleports(f)
                BY <1>4, <2>1, <2>5, <4>3 DEF Teleports, NoFix
            <4>5. derived.streak >= ReanchorAfter /\ derived.streak = Cardinality(TrustedIn(i + 1, n))
                BY <1>1, <4>1, <4>2, <4>4 DEF Anchored
            <4>6. TrustedIn(i + 1, n) = Insisted(i, j)
                <5>1. ASSUME NEW k \in (i + 1) .. n
                      PROVE  derived.valid # << >> => k \in DOMAIN derived.valid
                    BY FixTyped DEF DerivedTyped
                <5>2. (i + 1) .. (j - 1) = (i + 1) .. n
                    BY <2>5
                <5>3. derived.valid = << >> => \A k : k \notin DOMAIN derived.valid
                    OBVIOUS
                <5> QED
                    BY <5>1, <5>2, <5>3 DEF TrustedIn, Insisted, Reliable, FixAt
            <4> QED
                BY <2>2, <4>5, <4>6 DEF Believed
        <3> QED
            BY <2>1, <2>5, <3>2, <3>3
    <2> QED
        BY <2>3, <2>4, <2>5
<1> QED
    BY <1>8, <1>9

(***************************************************************************)
(* The invariant holds at first, and every step keeps it.                  *)
(***************************************************************************)

LEMMA PassesFollow ==
    /\ Following("gps.quality") = "gps.clean"
    /\ Following("gps.clean") = "speed.distance"
    /\ Following("speed.distance") = "done"
<1>1. /\ DOMAIN Passes = 1 .. 3 /\ Len(Passes) = 3
      /\ Passes[1] = "gps.quality" /\ Passes[2] = "gps.clean" /\ Passes[3] = "speed.distance"
    BY DEF Passes
<1>2. (CHOOSE k \in DOMAIN Passes : Passes[k] = "gps.quality") = 1
    BY <1>1
<1>3. (CHOOSE k \in DOMAIN Passes : Passes[k] = "gps.clean") = 2
    BY <1>1
<1>4. (CHOOSE k \in DOMAIN Passes : Passes[k] = "speed.distance") = 3
    BY <1>1
<1> QED
    BY <1>1, <1>2, <1>3, <1>4 DEF Following

LEMMA NothingPlausible ==
    ASSUME derived.clean = << >>
    PROVE  FillsExplained /\ JumpsBelieved
<1>1. DOMAIN derived.clean = {}
    OBVIOUS
<1> QED
    BY <1>1 DEF FillsExplained, JumpsBelieved

LEMMA StillPlausible ==
    ASSUME input' = input, derived'.valid = derived.valid, derived'.clean = derived.clean,
           FillsExplained, JumpsBelieved
    PROVE  FillsExplained' /\ JumpsBelieved'
<1>1. \A i : Own(i)' <=> Own(i)
    BY DEF Own, FixAt
<1>2. \A i, j : StoodBetween(i, j)' <=> StoodBetween(i, j)
    BY DEF StoodBetween, FixAt
<1>3. \A i : Explained(i)' <=> Explained(i)
    BY <1>1, <1>2 DEF Explained
<1>4. FillsExplained'
    BY <1>1, <1>3 DEF FillsExplained
<1>5. \A i, j : Jump(i, j)' <=> Jump(i, j)
    BY <1>1 DEF Jump, FixAt, Distance
<1>6. \A i, j : Insisted(i, j)' = Insisted(i, j)
    BY DEF Insisted, FixAt
<1>7. JumpsBelieved'
    BY <1>3, <1>5, <1>6 DEF JumpsBelieved, Believed
<1> QED
    BY <1>4, <1>7

LEMMA CleanInit ==
    ASSUME \A r \in Inputs : IsInput(r), PassInit
    PROVE  CleanInv
<1>1. /\ input \in Inputs /\ pass = "gps.quality" /\ cursor = 0
      /\ derived.valid = << >> /\ derived.clean = << >> /\ derived.accepted = NoFix
      /\ derived.gap = 0
    BY DEF PassInit
<1>2. DerivedTyped
    BY DEF PassInit, DerivedTyped
<1>3. Count = 0 /\ Len(derived.valid) = 0
    BY <1>1 DEF Count
<1>4. Len(input.fixes) \in Nat
    BY <1>1, FixTyped
<1>5. Progress
    BY <1>1, <1>3, <1>4 DEF Progress
<1> QED
    BY <1>1, <1>2, <1>5, NothingPlausible DEF CleanInv

LEMMA CheckKeeps ==
    ASSUME CleanInv, IsInput(input), Check PROVE CleanInv'
<1>1. /\ input' = input /\ derived' = derived /\ pass # "done" /\ cursor = 0
      /\ \/ Start(pass) /\ cursor' = 1 /\ pass' = pass
         \/ cursor' = 0 /\ pass' = Following(pass)
    BY DEF Check
<1>2. DerivedTyped' /\ Count' = Count /\ Count \in Nat
    BY <1>1 DEF CleanInv, DerivedTyped, Count
<1>3. Ascends(input'.speeds) => FillsExplained' /\ JumpsBelieved'
    BY <1>1, StillPlausible DEF CleanInv
<1>4. Len(input.fixes) \in Nat
    BY FixTyped
<1>5. Progress'
    <2>1. CASE Start(pass) /\ cursor' = 1 /\ pass' = pass
        <3>1. CASE pass = "gps.clean"
            <4>1. derived.clean = << >> /\ derived.accepted = NoFix /\ derived.gap = 0 /\ Count = 0
                BY <1>1, <3>1 DEF CleanInv, Progress, Count
            <4>2. Ascends(input.fixes)
                BY <2>1, <3>1 DEF Start
            <4>3. Anchored(0)
                BY <4>1 DEF Anchored
            <4>4. Anchored(0)'
                BY <1>1, <4>1, <1>2 DEF Anchored
            <4>5. 0 \in 0 .. Count'
                BY <1>2, <4>1
            <4>6. \E a \in 0 .. Count' : Anchored(a)'
                BY <4>4, <4>5
            <4> QED
                BY <1>1, <1>2, <1>4, <2>1, <3>1, <4>1, <4>2, <4>6 DEF CleanInv, Progress
        <3>2. CASE pass # "gps.clean"
            BY <1>1, <1>2, <1>4, <2>1, <3>2 DEF CleanInv, Progress
        <3> QED
            BY <3>1, <3>2
    <2>2. CASE cursor' = 0 /\ pass' = Following(pass)
        BY <1>1, <1>2, <1>4, <2>2, PassesFollow DEF CleanInv, Progress
    <2> QED
        BY <1>1, <2>1, <2>2
<1> QED
    BY <1>2, <1>3, <1>5 DEF CleanInv

LEMMA FinishKeeps ==
    ASSUME CleanInv, IsInput(input), Finish PROVE CleanInv'
<1>1. /\ input' = input /\ derived' = derived /\ pass # "done" /\ cursor > Len(Samples)
      /\ cursor' = 0 /\ pass' = Following(pass)
    BY DEF Finish
<1>2. DerivedTyped' /\ Count' = Count /\ Count \in Nat
    BY <1>1 DEF CleanInv, DerivedTyped, Count
<1>3. Ascends(input'.speeds) => FillsExplained' /\ JumpsBelieved'
    BY <1>1, StillPlausible DEF CleanInv
<1>4. Len(input.fixes) \in Nat
    BY FixTyped
<1>5. pass = "gps.quality" => Samples = input.fixes
    BY DEF Samples
<1>6. Progress'
    BY <1>1, <1>2, <1>4, <1>5, PassesFollow DEF CleanInv, Progress
<1> QED
    BY <1>2, <1>3, <1>6 DEF CleanInv

LEMMA GradeKeeps ==
    ASSUME CleanInv, IsInput(input), Grade PROVE CleanInv'
<1> DEFINE f == input.fixes[cursor]
<1>1. /\ input' = input /\ pass' = pass /\ cursor' = cursor + 1
      /\ pass = "gps.quality" /\ cursor \in DOMAIN input.fixes
      /\ derived' = [derived EXCEPT !.valid = Append(@, Valid(f)), !.sigma = Append(@, Sigma(f))]
    BY DEF Grade, Takes, Advance, Samples
<1>2. Valid(f) \in BOOLEAN
    BY DEF Valid, Sane, Solved
<1> HIDE DEF f
<1>3. /\ derived'.valid = Append(derived.valid, Valid(f)) /\ derived'.clean = derived.clean
      /\ derived'.accepted = derived.accepted /\ derived'.gap = derived.gap
      /\ derived' = [valid |-> derived'.valid, sigma |-> derived'.sigma, clean |-> derived'.clean,
                     accepted |-> derived'.accepted, streak |-> derived'.streak, gap |-> derived'.gap,
                     odometer |-> derived'.odometer, doubt |-> derived'.doubt, gaps |-> derived'.gaps,
                     held |-> derived'.held]
    BY <1>1 DEF CleanInv, DerivedTyped
<1>4. /\ derived.valid \in Seq(BOOLEAN) /\ derived'.valid \in Seq(BOOLEAN)
      /\ Len(derived'.valid) = Len(derived.valid) + 1
    BY <1>2, <1>3 DEF CleanInv, DerivedTyped
<1>5. DerivedTyped'
    BY <1>3, <1>4 DEF CleanInv, DerivedTyped
<1>6. derived.clean = << >>
    BY <1>1 DEF CleanInv, Progress
<1>7. FillsExplained' /\ JumpsBelieved'
    <2>1. DOMAIN derived'.clean = {}
        BY <1>3, <1>6
    <2> QED
        BY <2>1 DEF FillsExplained, JumpsBelieved
<1>8. cursor \in 1 .. Len(input.fixes) /\ Len(input.fixes) \in Nat
    BY <1>1, FixTyped
<1>9. Progress'
    <2>1. /\ input \in Inputs /\ cursor \in Nat /\ Len(derived.valid) = cursor - 1
          /\ derived.accepted = NoFix /\ derived.gap = 0
        BY <1>1, <1>8 DEF CleanInv, Progress
    <2>2. cursor' \in Nat /\ cursor' # 0 /\ cursor' <= Len(input.fixes) + 1 /\ Len(derived'.valid) = cursor' - 1
        BY <1>1, <1>4, <1>8, <2>1
    <2>3. derived'.clean = << >> /\ derived'.accepted = NoFix /\ derived'.gap = 0
        BY <1>3, <1>6, <2>1
    <2>4. pass' = "gps.quality" /\ input' = input
        BY <1>1
    <2>5. Count' = 0 /\ 0 <= Len(input'.fixes)
        BY <1>8, <2>3, <2>4 DEF Count
    <2> QED
        BY <2>1, <2>2, <2>3, <2>4, <2>5 DEF Progress
<1> QED
    BY <1>5, <1>7, <1>9 DEF CleanInv

LEMMA IntegrateKeeps ==
    ASSUME CleanInv, IsInput(input), Integrate PROVE CleanInv'
<1>1. /\ input' = input /\ pass' = pass /\ cursor' = cursor + 1 /\ pass = "speed.distance"
      /\ \E o, g, d, h : derived' = [derived EXCEPT !.odometer = o, !.gaps = g, !.doubt = d, !.held = h]
    <2> DEFINE sample == input.speeds[cursor]
               speed == SpeedHeld(sample.speed)
               dt == sample.at - derived.held[1]
               first == derived.held = << >>
               twice == IF first THEN 0 ELSE (derived.held[2] + speed) * dt
               driven == twice + IF first THEN 0 ELSE Last(derived.odometer)
               gaps == derived.gaps + IF ~first /\ dt > SpeedGap THEN twice ELSE 0
    <2>1. derived' = [derived EXCEPT !.odometer = Append(@, driven), !.gaps = gaps,
                                     !.doubt = Append(@, driven + 100 * gaps),
                                     !.held = <<sample.at, speed>>]
        BY Zenon DEF Integrate
    <2> HIDE DEF sample, speed, dt, first, twice, driven, gaps
    <2>2. \E o, g, d, h : derived' = [derived EXCEPT !.odometer = o, !.gaps = g, !.doubt = d, !.held = h]
        BY <2>1, Zenon
    <2>3. Takes("speed.distance") /\ Advance
        BY Zenon DEF Integrate
    <2> QED
        BY <2>2, <2>3 DEF Takes, Advance
<1>2. /\ derived'.valid = derived.valid /\ derived'.clean = derived.clean
      /\ derived' = [valid |-> derived'.valid, sigma |-> derived'.sigma, clean |-> derived'.clean,
                     accepted |-> derived'.accepted, streak |-> derived'.streak, gap |-> derived'.gap,
                     odometer |-> derived'.odometer, doubt |-> derived'.doubt, gaps |-> derived'.gaps,
                     held |-> derived'.held]
    BY <1>1 DEF CleanInv, DerivedTyped
<1>3. DerivedTyped' /\ Count' = Count
    BY <1>2 DEF CleanInv, DerivedTyped, Count
<1>4. Ascends(input'.speeds) => FillsExplained' /\ JumpsBelieved'
    BY <1>1, <1>2, StillPlausible DEF CleanInv
<1>5. Progress'
    BY <1>1, <1>2, <1>3 DEF CleanInv, Progress
<1> QED
    BY <1>3, <1>4, <1>5 DEF CleanInv

\* What a step of gps.clean starts from.
LEMMA Cleaning ==
    ASSUME CleanInv, IsInput(input), Takes("gps.clean")
    PROVE  /\ DerivedTyped /\ pass = "gps.clean" /\ cursor \in DOMAIN input.fixes
           /\ Count \in Nat /\ cursor = Count + 1 /\ cursor <= Len(input.fixes)
           /\ \E a \in 0 .. Count : Anchored(a)
           /\ Ascends(input.fixes)
           /\ derived.valid # << >> => Len(derived.valid) = Len(input.fixes)
           /\ Ascends(input.speeds) => FillsExplained /\ JumpsBelieved
<1>1. pass = "gps.clean" /\ cursor \in DOMAIN input.fixes
    BY DEF Takes, Samples
<1>2. cursor \in 1 .. Len(input.fixes) /\ Len(input.fixes) \in Nat
    BY <1>1, FixTyped
<1>3. /\ cursor <= Len(input.fixes) + 1 /\ Count = cursor - 1 /\ Ascends(input.fixes)
      /\ \E a \in 0 .. Count : Anchored(a)
    BY <1>1, <1>2 DEF CleanInv, Progress
<1>4. derived.valid # << >> => Len(derived.valid) = Len(input.fixes)
    BY <1>1 DEF CleanInv, Progress, DerivedTyped
<1> QED
    BY <1>1, <1>2, <1>3, <1>4 DEF CleanInv

\* And what it ends with.
LEMMA Cleaned ==
    ASSUME CleanInv, IsInput(input), Takes("gps.clean"), Advance, DerivedTyped',
           derived'.valid = derived.valid, Count' = Count + 1,
           \E a \in 0 .. Count + 1 : Anchored(a)',
           Ascends(input.speeds) => FillsExplained' /\ JumpsBelieved'
    PROVE  CleanInv'
<1>1. /\ pass = "gps.clean" /\ cursor \in Nat /\ Count \in Nat /\ cursor = Count + 1
      /\ cursor <= Len(input.fixes) /\ Len(input.fixes) \in Nat /\ Ascends(input.fixes)
    BY Cleaning, FixTyped
<1>2. cursor' = cursor + 1 /\ input' = input /\ pass' = pass
    BY DEF Advance
<1>3. \E a \in 0 .. Count' : Anchored(a)'
    BY DEF CleanInv
<1>4. input \in Inputs /\ Len(derived.valid) \in {0, Len(input.fixes)}
    BY <1>1 DEF CleanInv, Progress
<1>5. Progress'
    BY <1>1, <1>2, <1>3, <1>4 DEF Progress
<1> QED
    BY <1>2, <1>5 DEF CleanInv

LEMMA MaskingKeeps ==
    ASSUME CleanInv, IsInput(input), MaskTeleport \/ MaskInvalid PROVE CleanInv'
<1>1. /\ Takes("gps.clean") /\ Advance
      /\ \/ Reliable(cursor) /\ Teleports(input.fixes[cursor]) /\ derived' = Masked(derived.streak + 1)
         \/ ~Reliable(cursor) /\ derived' = Masked(derived.streak)
    BY DEF MaskTeleport, MaskInvalid
<1>2. PICK s : /\ derived' = Masked(s)
               /\ Reliable(cursor) => s = derived.streak + 1
               /\ ~Reliable(cursor) => s = derived.streak
    BY <1>1
<1>3. input' = input
    BY <1>1 DEF Advance
<1>4. PICK n \in Nat : n = Count /\ cursor = n + 1
    BY <1>1, Cleaning
<1>5. PICK a \in 0 .. n : Anchored(a)
    BY <1>1, <1>4, Cleaning
<1>6. DerivedTyped /\ (Ascends(input.speeds) => FillsExplained /\ JumpsBelieved)
    BY <1>1, Cleaning
<1>7. /\ DerivedTyped' /\ derived'.clean = Append(derived.clean, Nan)
      /\ derived'.valid = derived.valid
    BY <1>2, <1>6, MaskedIs
<1>8. Count' = n + 1 /\ Anchored(a)'
    BY <1>2, <1>3, <1>4, <1>5, <1>6, <1>7, MaskAnchors
<1>9. Ascends(input.speeds) => FillsExplained' /\ JumpsBelieved'
    BY <1>3, <1>6, <1>7, MaskKeeps
<1>10. \E b \in 0 .. Count + 1 : Anchored(b)'
    BY <1>4, <1>8
<1> QED
    BY <1>1, <1>4, <1>7, <1>8, <1>9, <1>10, Cleaned

LEMMA AcceptingKeeps ==
    ASSUME CleanInv, IsInput(input), SpeedGap \in Nat, MaxSpeed \in Nat, Accept \/ Reanchor
    PROVE  CleanInv'
<1>1. /\ Takes("gps.clean") /\ Advance /\ Reliable(cursor)
      /\ derived' = Accepted(input.fixes[cursor])
      /\ Teleports(input.fixes[cursor]) => derived.streak >= ReanchorAfter
    BY DEF Accept, Reanchor
<1>2. input' = input
    BY <1>1 DEF Advance
<1>3. PICK n \in Nat : n = Count /\ cursor = n + 1
    BY <1>1, Cleaning
<1>4. PICK a \in 0 .. n : Anchored(a)
    BY <1>1, <1>3, Cleaning
<1>5. /\ DerivedTyped /\ cursor \in DOMAIN input.fixes /\ Ascends(input.fixes)
      /\ derived.valid # << >> => Len(derived.valid) = Len(input.fixes)
      /\ Ascends(input.speeds) => FillsExplained /\ JumpsBelieved
    BY <1>1, Cleaning
<1>6. input.fixes[cursor].place \in Int
    BY <1>5, FixTyped
<1>7. DerivedTyped' /\ derived'.valid = derived.valid
    BY <1>1, <1>5, <1>6, AcceptedIs
<1>8. Count' = n + 1 /\ Anchored(n + 1)'
    BY <1>1, <1>2, <1>3, <1>4, <1>5, <1>7, AcceptAnchors
<1>9. Ascends(input.speeds) => FillsExplained' /\ JumpsBelieved'
    BY <1>1, <1>2, <1>3, <1>4, <1>5, <1>7, AcceptKeeps
<1>10. \E b \in 0 .. Count + 1 : Anchored(b)'
    <2>1. n + 1 \in 0 .. Count + 1
        BY <1>3
    <2> QED
        BY <1>8, <2>1
<1> QED
    BY <1>1, <1>3, <1>7, <1>8, <1>9, <1>10, Cleaned

LEMMA CleanNext ==
    ASSUME \A r \in Inputs : IsInput(r), SpeedGap \in Nat, MaxSpeed \in Nat,
           CleanInv, [PassNext]_passVars
    PROVE  CleanInv'
<1>1. IsInput(input)
    BY DEF CleanInv, Progress
<1>2. CASE Check
    BY <1>1, <1>2, CheckKeeps
<1>3. CASE Finish
    BY <1>1, <1>3, FinishKeeps
<1>4. CASE Grade
    BY <1>1, <1>4, GradeKeeps
<1>5. CASE Accept \/ Reanchor
    BY <1>1, <1>5, AcceptingKeeps
<1>6. CASE MaskTeleport \/ MaskInvalid
    BY <1>1, <1>6, MaskingKeeps
<1>7. CASE Integrate
    BY <1>1, <1>7, IntegrateKeeps
<1>8. CASE UNCHANGED passVars
    <2>1. /\ input' = input /\ pass' = pass /\ cursor' = cursor /\ derived' = derived
        BY <1>8 DEF passVars
    <2>2. (Ascends(input'.speeds) => FillsExplained' /\ JumpsBelieved')
        BY <2>1, StillPlausible DEF CleanInv
    <2>3. \A a : Anchored(a)' <=> Anchored(a)
        BY <2>1 DEF Anchored, Own, FixAt, Count, TrustedIn, Reliable
    <2>4. Progress' /\ DerivedTyped'
        BY <2>1, <2>3 DEF CleanInv, Progress, DerivedTyped, Count
    <2> QED
        BY <2>2, <2>4 DEF CleanInv
<1> QED
    BY <1>2, <1>3, <1>4, <1>5, <1>6, <1>7, <1>8 DEF PassNext

(* For every recording whose speeds are in order of time, and all limits:  *)
(* no position that gps.clean leaves is made up, but from a standstill     *)
(* that was seen, and no impossible jump, but one the receiver insisted on *)
(* or one to where the car is then found standing (GpsClean::derive).      *)
THEOREM CleanHolds ==
    ASSUME \A r \in Inputs : IsInput(r), SpeedGap \in Nat, MaxSpeed \in Nat
    PROVE  PassSpec => [](Ascends(input.speeds) => CleanIsPlausible)
<1>1. PassInit => CleanInv
    BY CleanInit
<1>2. CleanInv /\ [PassNext]_passVars => CleanInv'
    BY CleanNext
<1>3. CleanInv => (Ascends(input.speeds) => CleanIsPlausible)
    BY PlausibleIs DEF CleanInv
<1> QED
    BY <1>1, <1>2, <1>3, PTL DEF PassSpec

=============================================================================
