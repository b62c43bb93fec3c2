------------------------- MODULE MotionEvidenceProofs -------------------------
(***************************************************************************)
(* Proofs about what is read from a channel and concluded from a speed     *)
(* channel, for every channel, question and limit: random access answers   *)
(* with the sample that holds, on a grid as with its times written down;   *)
(* departures, lead-ins and stops are witnessed by the samples.            *)
(***************************************************************************)
EXTENDS MotionEvidence, ListProofs

(***************************************************************************)
(* Counting samples over chunks.                                           *)
(***************************************************************************)

\* What the recursion does with the number of samples of the chunks before.
CountStep(f, chunks, c) == IF c = 0 THEN 0 ELSE f[c - 1] + chunks[c].count

LEMMA CountedExists ==
    ASSUME NEW chunks, NEW n \in Nat
    PROVE  \E f : f = [c \in 0 .. n |-> CountStep(f, chunks, c)]
<1> DEFINE P == {m \in Nat : \E f : f = [c \in 0 .. m |-> CountStep(f, chunks, c)]}
<1>1. 0 \in P
    <2> DEFINE f == [c \in 0 .. 0 |-> 0]
    <2>1. f = [c \in 0 .. 0 |-> CountStep(f, chunks, c)]
        BY DEF CountStep
    <2> QED
        BY <2>1
<1>2. ASSUME NEW m \in Nat, m \in P PROVE m + 1 \in P
    <2>1. PICK f : f = [c \in 0 .. m |-> CountStep(f, chunks, c)]
        BY <1>2
    <2> DEFINE g == [c \in 0 .. (m + 1) |-> IF c = m + 1 THEN CountStep(f, chunks, c) ELSE f[c]]
    <2>2. \A c \in 0 .. (m + 1) : CountStep(g, chunks, c) = g[c]
        <3> SUFFICES ASSUME NEW c \in 0 .. (m + 1) PROVE CountStep(g, chunks, c) = g[c]
            OBVIOUS
        <3>1. c # 0 => g[c - 1] = f[c - 1]
            OBVIOUS
        <3>2. CountStep(g, chunks, c) = CountStep(f, chunks, c)
            BY <3>1 DEF CountStep
        <3>3. c # m + 1 => f[c] = CountStep(f, chunks, c)
            BY <2>1
        <3> QED
            BY <3>2, <3>3
    <2>3. g = [c \in 0 .. (m + 1) |-> CountStep(g, chunks, c)]
        BY <2>2
    <2> HIDE DEF g
    <2> QED
        BY <2>3
<1> HIDE DEF P
<1>3. Nat \subseteq P
    BY <1>1, <1>2, NaturalInduction
<1> QED
    BY <1>3 DEF P

LEMMA CountedSteps ==
    ASSUME NEW chunks, Len(chunks) \in Nat
    PROVE  /\ Counted(chunks)[0] = 0
           /\ \A c \in 1 .. Len(chunks) : Counted(chunks)[c] = Counted(chunks)[c - 1] + chunks[c].count
<1> DEFINE g == CHOOSE f : f = [c \in 0 .. Len(chunks) |-> CountStep(f, chunks, c)]
<1>1. g = [c \in 0 .. Len(chunks) |-> CountStep(g, chunks, c)]
    BY CountedExists
<1>2. Counted(chunks) = g
    BY DEF Counted, CountStep
<1> HIDE DEF g
<1>3. \A c \in 0 .. Len(chunks) : g[c] = CountStep(g, chunks, c)
    BY <1>1
<1> QED
    BY <1>2, <1>3 DEF CountStep

\* The types of a channel, and that sums and starts of chunks ascend.
LEMMA LaidOut ==
    ASSUME NEW channel, IsSignal(channel)
    PROVE  /\ Len(channel.chunks) \in Nat
           /\ \A c \in 1 .. Len(channel.chunks) :
                /\ channel.chunks[c].at \in Nat /\ channel.chunks[c].period \in Nat
                /\ channel.chunks[c].count \in Nat
           /\ \A c \in 0 .. Len(channel.chunks) : Counted(channel.chunks)[c] \in Nat
           /\ \A c, d \in 0 .. Len(channel.chunks) :
                c <= d => Counted(channel.chunks)[c] <= Counted(channel.chunks)[d]
           /\ \A c, d \in 1 .. Len(channel.chunks) : c <= d => channel.chunks[c].at <= channel.chunks[d].at
<1>1. PICK n : n = Len(channel.chunks)
    OBVIOUS
<1>2. PICK chunks : chunks = channel.chunks
    OBVIOUS
<1>3. chunks \in Seq(Chunks) /\ n = Len(chunks) /\ n \in Nat
    BY <1>1, <1>2 DEF IsSignal, Channels, Chunks
<1>4. \A c \in 1 .. n : chunks[c] \in Chunks
    BY <1>3
<1>5. \A c \in 1 .. n : chunks[c].at \in Nat /\ chunks[c].period \in Nat /\ chunks[c].count \in Nat
    BY <1>4 DEF Chunks
<1>6. \A c \in 2 .. n : chunks[c].at >= chunks[c - 1].at
    BY <1>1, <1>2 DEF IsSignal, Channels
<1>7. PICK b : b = Counted(chunks)
    OBVIOUS
<1>8. b[0] = 0 /\ \A c \in 1 .. n : b[c] = b[c - 1] + chunks[c].count
    BY <1>3, <1>7, CountedSteps
<1>9. \A c \in 0 .. n : b[c] \in Nat
    <2> DEFINE P == {c \in Nat : c <= n => b[c] \in Nat}
    <2>1. 0 \in P
        BY <1>8
    <2>2. ASSUME NEW c \in Nat, c \in P PROVE c + 1 \in P
        <3> SUFFICES ASSUME c + 1 <= n PROVE b[c + 1] \in Nat
            OBVIOUS
        <3>1. c + 1 \in 1 .. n /\ (c + 1) - 1 = c /\ b[c] \in Nat
            BY <1>3, <2>2
        <3>2. b[c + 1] = b[c] + chunks[c + 1].count
            BY <1>8, <3>1
        <3> QED
            BY <1>5, <3>1, <3>2
    <2> HIDE DEF P
    <2>3. Nat \subseteq P
        BY <2>1, <2>2, NaturalInduction
    <2> QED
        BY <1>3, <2>3 DEF P
<1>10. \A c, d \in 0 .. n : c <= d => b[c] <= b[d]
    <2> DEFINE x == [i \in 1 .. n + 1 |-> b[i - 1]]
    <2>1. n + 1 \in Nat /\ x \in [1 .. n + 1 -> Nat]
        BY <1>3, <1>9
    <2>2. \A i \in 2 .. n + 1 : x[i - 1] <= x[i]
        <3> SUFFICES ASSUME NEW i \in 2 .. n + 1 PROVE x[i - 1] <= x[i]
            OBVIOUS
        <3>1. i - 1 \in 1 .. n /\ i - 1 \in 1 .. n + 1 /\ i \in 1 .. n + 1 /\ i - 1 \in 0 .. n /\ (i - 1) - 1 \in 0 .. n
            BY <1>3
        <3>2. b[i - 1] = b[(i - 1) - 1] + chunks[i - 1].count /\ chunks[i - 1].count \in Nat
            BY <1>5, <1>8, <3>1
        <3>3. b[i - 1] \in Nat /\ b[(i - 1) - 1] \in Nat
            BY <1>9, <3>1
        <3> QED
            BY <3>1, <3>2, <3>3
    <2>3. \A i, j \in 1 .. n + 1 : i <= j => x[i] <= x[j]
        <3> HIDE DEF x
        <3> QED
            BY <2>1, <2>2, StepsAscend
    <2> SUFFICES ASSUME NEW c \in 0 .. n, NEW d \in 0 .. n, c <= d PROVE b[c] <= b[d]
        OBVIOUS
    <2>4. c + 1 \in 1 .. n + 1 /\ d + 1 \in 1 .. n + 1 /\ c + 1 <= d + 1 /\ (c + 1) - 1 = c /\ (d + 1) - 1 = d
        BY <1>3
    <2>5. x[c + 1] <= x[d + 1]
        BY <2>3, <2>4
    <2> QED
        BY <2>4, <2>5
<1>11. \A c, d \in 1 .. n : c <= d => chunks[c].at <= chunks[d].at
    <2> DEFINE x == [i \in 1 .. n |-> chunks[i].at]
    <2>1. x \in [1 .. n -> Nat]
        BY <1>5
    <2>2. \A i \in 2 .. n : x[i - 1] <= x[i]
        <3> SUFFICES ASSUME NEW i \in 2 .. n PROVE x[i - 1] <= x[i]
            OBVIOUS
        <3>1. i - 1 \in 1 .. n /\ i \in 1 .. n
            BY <1>3
        <3>2. chunks[i].at >= chunks[i - 1].at /\ chunks[i].at \in Nat /\ chunks[i - 1].at \in Nat
            BY <1>5, <1>6, <3>1
        <3> QED
            BY <3>1, <3>2
    <2>3. \A i, j \in 1 .. n : i <= j => x[i] <= x[j]
        <3> HIDE DEF x
        <3> QED
            BY <1>3, <2>1, <2>2, StepsAscend
    <2> QED
        BY <2>3
<1> QED
    BY <1>1, <1>2, <1>3, <1>5, <1>7, <1>9, <1>10, <1>11

\* Sample k is sample l of chunk c.
IsPlace(channel, k, c, l) ==
    /\ c \in 1 .. Len(channel.chunks) /\ l \in 1 .. channel.chunks[c].count
    /\ k = SampleBase(channel, c) + l

LEMMA BaseIs ==
    ASSUME NEW channel, IsSignal(channel), NEW c \in 1 .. Len(channel.chunks)
    PROVE  /\ SampleBase(channel, c) \in Nat
           /\ Counted(channel.chunks)[c] = SampleBase(channel, c) + channel.chunks[c].count
           /\ Counted(channel.chunks)[c] \in Nat
<1>1. c - 1 \in 0 .. Len(channel.chunks) /\ c \in 0 .. Len(channel.chunks) /\ Len(channel.chunks) \in Nat
    BY LaidOut
<1>2. Counted(channel.chunks)[c - 1] \in Nat /\ Counted(channel.chunks)[c] \in Nat
    BY <1>1, LaidOut
<1>3. Counted(channel.chunks)[c] = Counted(channel.chunks)[c - 1] + channel.chunks[c].count
    BY <1>1, CountedSteps
<1> QED
    BY <1>2, <1>3 DEF SampleBase

\* Bases ascend by the samples in between.
LEMMA BasesAscend ==
    ASSUME NEW channel, IsSignal(channel), NEW c \in 1 .. Len(channel.chunks),
           NEW d \in 1 .. Len(channel.chunks), c < d
    PROVE  SampleBase(channel, c) + channel.chunks[c].count <= SampleBase(channel, d)
<1>1. c \in 0 .. Len(channel.chunks) /\ d - 1 \in 0 .. Len(channel.chunks) /\ c <= d - 1
    BY LaidOut
<1>2. Counted(channel.chunks)[c] <= Counted(channel.chunks)[d - 1]
    BY <1>1, LaidOut
<1> QED
    BY <1>2, BaseIs DEF SampleBase

LEMMA PlaceIsSample ==
    ASSUME NEW channel, IsSignal(channel), NEW k, NEW c, NEW l, IsPlace(channel, k, c, l)
    PROVE  k \in 1 .. Len(channel.values)
<1>1. c \in 1 .. Len(channel.chunks) /\ l \in 1 .. channel.chunks[c].count /\ k = SampleBase(channel, c) + l
    BY DEF IsPlace
<1>2. /\ SampleBase(channel, c) \in Nat
      /\ Counted(channel.chunks)[c] = SampleBase(channel, c) + channel.chunks[c].count
      /\ channel.chunks[c].count \in Nat
    BY <1>1, BaseIs, LaidOut
<1>3. c \in 0 .. Len(channel.chunks) /\ Len(channel.chunks) \in 0 .. Len(channel.chunks) /\ c <= Len(channel.chunks)
    BY <1>1, LaidOut
<1>4. Counted(channel.chunks)[c] <= Counted(channel.chunks)[Len(channel.chunks)]
    BY <1>3, LaidOut
<1>5. Len(channel.values) = Counted(channel.chunks)[Len(channel.chunks)]
    BY DEF IsSignal, Channels
<1>6. Len(channel.values) \in Nat /\ k \in Nat /\ k >= 1 /\ k <= Counted(channel.chunks)[c]
    <2>1. Len(channel.values) \in Nat
        BY <1>3, <1>5, LaidOut
    <2>2. PICK base \in Nat, count \in Nat : base = SampleBase(channel, c) /\ count = channel.chunks[c].count
        BY <1>2
    <2>3. l \in 1 .. count /\ k = base + l /\ Counted(channel.chunks)[c] = base + count
        BY <1>1, <1>2, <2>2
    <2> QED
        BY <2>1, <2>3
<1> QED
    BY <1>2, <1>4, <1>5, <1>6

\* chunk_for_global answers with the place of a sample.
LEMMA PlaceIsFound ==
    ASSUME NEW channel, IsSignal(channel), NEW k, NEW c, NEW l, IsPlace(channel, k, c, l)
    PROVE  ChunkForGlobal(channel, k) = <<c, l>>
<1> DEFINE S == {i \in DOMAIN channel.chunks : SampleBase(channel, i) < k}
<1>1. c \in 1 .. Len(channel.chunks) /\ l \in 1 .. channel.chunks[c].count /\ k = SampleBase(channel, c) + l
    BY DEF IsPlace
<1>2. PICK n \in Nat : n = Len(channel.chunks)
    BY LaidOut
<1>3. DOMAIN channel.chunks = 1 .. n
    BY <1>2 DEF IsSignal, Channels
<1>4. SampleBase(channel, c) \in Nat /\ channel.chunks[c].count \in Nat /\ l \in Nat /\ l >= 1
    BY <1>1, BaseIs, LaidOut
<1>5. c \in S
    BY <1>1, <1>2, <1>3, <1>4
<1>6. \A i \in S : i <= c
    <2> SUFFICES ASSUME NEW i \in S, c < i PROVE FALSE
        BY <1>1, <1>2, <1>3
    <2>1. i \in 1 .. Len(channel.chunks) /\ SampleBase(channel, i) < k
        BY <1>2, <1>3
    <2>2. SampleBase(channel, c) + channel.chunks[c].count <= SampleBase(channel, i) /\ SampleBase(channel, i) \in Nat
        BY <1>1, <2>1, BasesAscend, BaseIs
    <2> QED
        BY <1>1, <1>4, <2>1, <2>2
<1>7. S \in SUBSET (0 .. n) /\ S # {}
    BY <1>3, <1>5
<1> HIDE DEF S
<1>8. Max(S) \in S /\ \A y \in S : y <= Max(S)
    BY <1>7, MaxIs
<1>9. Max(S) = c
    <2> PICK m : m = Max(S)
        OBVIOUS
    <2>1. m \in S /\ c <= m /\ m <= c
        BY <1>5, <1>6, <1>8
    <2>2. m \in 0 .. n /\ c \in 0 .. n
        BY <1>5, <1>7, <2>1
    <2> QED
        BY <2>1, <2>2
<1>10. ChunkForGlobal(channel, k) = <<Max(S), k - SampleBase(channel, Max(S))>>
    BY DEF S, ChunkForGlobal
<1> QED
    BY <1>1, <1>4, <1>9, <1>10

\* Every sample has its place.
LEMMA SampleHasPlace ==
    ASSUME NEW channel, IsSignal(channel), NEW k \in 1 .. Len(channel.values)
    PROVE  \E c, l : IsPlace(channel, k, c, l)
<1>1. PICK n \in Nat : n = Len(channel.chunks)
    BY LaidOut
<1>2. PICK b : b = Counted(channel.chunks)
    OBVIOUS
<1>3. /\ b[0] = 0 /\ \A c \in 0 .. n : b[c] \in Nat
      /\ \A c \in 1 .. n : b[c] = b[c - 1] + channel.chunks[c].count
      /\ Len(channel.values) = b[n]
    BY <1>1, <1>2, LaidOut, CountedSteps DEF IsSignal, Channels
<1>4. k \in Nat /\ 1 <= k /\ k <= b[n]
    BY <1>1, <1>3
<1> DEFINE S == {c \in 0 .. n : k <= b[c]}
<1>5. S \in SUBSET Nat /\ S # {}
    BY <1>4
<1>6. PICK c \in S : \A d \in S : c <= d
    BY <1>5, LeastNatural
<1>7. c \in 1 .. n /\ c - 1 \in 0 .. n
    BY <1>3, <1>4, <1>6
<1>8. ~(k <= b[c - 1])
    BY <1>6, <1>7
<1>9. b[c] = b[c - 1] + channel.chunks[c].count /\ b[c - 1] \in Nat /\ b[c] \in Nat /\ k <= b[c]
    BY <1>3, <1>6, <1>7
<1>10. channel.chunks[c].count \in Nat
    BY <1>1, <1>7, LaidOut
<1>11. PICK l : l = k - b[c - 1]
    OBVIOUS
<1>12. l \in 1 .. channel.chunks[c].count /\ k = b[c - 1] + l
    <2>1. PICK many \in Nat, base \in Nat : many = channel.chunks[c].count /\ base = b[c - 1]
        BY <1>9, <1>10
    <2>2. k \in Nat /\ k <= base + many /\ ~(k <= base) /\ l = k - base
        BY <1>4, <1>8, <1>9, <1>11, <2>1
    <2>3. l \in 1 .. many /\ k = base + l
        BY <2>2
    <2> QED
        BY <2>1, <2>3
<1> QED
    BY <1>1, <1>2, <1>7, <1>12 DEF IsPlace, SampleBase

-----------------------------------------------------------------------------
(* Searching in ascending keys.                                            *)

AscendingKeys(keys, n) ==
    /\ DOMAIN keys = 1 .. n /\ \A i \in 1 .. n : keys[i] \in Nat
    /\ \A i, j \in 1 .. n : i <= j => keys[i] <= keys[j]

LEMMA CountOfAscending ==
    ASSUME NEW keys, NEW n \in Nat, AscendingKeys(keys, n), NEW time \in Nat
    PROVE  /\ CountUpTo(keys, time) \in 0 .. n
           /\ \A i \in 1 .. n : keys[i] <= time <=> i <= CountUpTo(keys, time)
<1> USE DEF AscendingKeys
<1> DEFINE S == {i \in 1 .. n : keys[i] <= time}
<1>1. CountUpTo(keys, time) = Cardinality(S)
    BY DEF CountUpTo
<1>2. CASE S = {}
    <2>1. Cardinality(S) = 0
        BY <1>2, FS_EmptySet
    <2>2. CountUpTo(keys, time) = 0
        BY <1>1, <2>1
    <2>3. \A i \in 1 .. n : ~(keys[i] <= time)
        BY <1>2
    <2>4. \A i \in 1 .. n : ~(i <= 0)
        OBVIOUS
    <2> QED
        BY <2>2, <2>3, <2>4
<1>3. CASE S # {}
    <2>1. S \in SUBSET (0 .. n)
        OBVIOUS
    <2>2. PICK m \in S : \A i \in S : i <= m
        BY <1>3, <2>1, GreatestNatural
    <2>3. S = 1 .. m
        <3>1. ASSUME NEW i \in 1 .. m PROVE i \in S
            <4>1. i \in 1 .. n /\ m \in 1 .. n /\ i <= m /\ keys[m] <= time
                BY <2>2, <3>1
            <4>2. keys[i] <= keys[m] /\ keys[i] \in Int /\ keys[m] \in Int
                BY <4>1
            <4> QED
                BY <4>1, <4>2
        <3>2. ASSUME NEW i \in S PROVE i \in 1 .. m
            BY <2>2, <3>2
        <3> QED
            BY <3>1, <3>2
    <2>4. m \in 1 .. n
        BY <2>2
    <2>5. Cardinality(1 .. m) = m
        BY <2>4, FS_Interval
    <2>6. CountUpTo(keys, time) = m
        BY <1>1, <2>3, <2>5
    <2>7. \A i \in 1 .. n : keys[i] <= time <=> i <= m
        BY <2>3, <2>4
    <2> QED
        BY <2>4, <2>6, <2>7
<1> QED
    BY <1>2, <1>3

-----------------------------------------------------------------------------
(* The samples of the channel asked about.                                 *)

\* The channel and the question are of a case.
Put ==
    /\ IsSignal(signal) /\ \A k \in DOMAIN signal.values : signal.values[k] \in Nat \cup {Bad}
    /\ question.from \in Nat /\ question.to \in Nat

Samples == 1 .. Len(signal.values)

\* The samples inside the interval.
Asked == Window(question.from, question.to)

LEMMA PlaceTyped ==
    ASSUME NEW channel, IsSignal(channel), NEW k, NEW c, NEW l, IsPlace(channel, k, c, l)
    PROVE  SampleTime(channel, c, l) \in Nat
<1>1. c \in 1 .. Len(channel.chunks) /\ l \in 1 .. channel.chunks[c].count /\ k = SampleBase(channel, c) + l
    BY DEF IsPlace
<1>2. channel.chunks[c].at \in Nat /\ channel.chunks[c].period \in Nat /\ channel.chunks[c].count \in Nat
    BY <1>1, LaidOut
<1>3. k \in 1 .. Len(channel.values)
    BY PlaceIsSample
<1>4. CASE channel.explicit
    <2>1. channel.stamps \in Seq(Nat) /\ Len(channel.stamps) = Len(channel.values)
        BY <1>4 DEF IsSignal, Channels
    <2>2. channel.stamps[k] \in Nat
        BY <1>3, <2>1
    <2> QED
        BY <1>1, <1>4, <2>2 DEF SampleTime
<1>5. CASE ~channel.explicit
    <2>1. l \in Nat /\ l >= 1
        BY <1>1, <1>2
    <2>2. PICK m \in Nat : m = l - 1
        BY <2>1
    <2>3. m * channel.chunks[c].period \in Nat
        BY <1>2
    <2>4. GridTime(channel.chunks[c], l) = channel.chunks[c].at + m * channel.chunks[c].period
        BY <2>2 DEF GridTime
    <2> QED
        BY <1>2, <1>5, <2>3, <2>4 DEF SampleTime
<1> QED
    BY <1>4, <1>5

LEMMA SamplesTyped ==
    ASSUME Put
    PROVE  /\ Len(signal.values) \in Nat /\ DOMAIN signal.values = Samples
           /\ \A k \in Samples : TimeOf(k) \in Nat /\ SpeedOf(k) \in Nat \cup {Bad}
<1>1. Len(signal.values) \in Nat /\ DOMAIN signal.values = Samples
    BY DEF Put, IsSignal, Channels, Samples
<1>2. ASSUME NEW k \in Samples PROVE TimeOf(k) \in Nat
    <2>1. PICK c, l : IsPlace(signal, k, c, l)
        BY <1>2, SampleHasPlace DEF Put, Samples
    <2>2. ChunkForGlobal(signal, k) = <<c, l>>
        BY <2>1, PlaceIsFound DEF Put
    <2>3. SampleTime(signal, c, l) \in Nat
        BY <2>1, PlaceTyped DEF Put
    <2>4. TimeOf(k) = SampleTime(signal, ChunkForGlobal(signal, k)[1], ChunkForGlobal(signal, k)[2])
        BY DEF TimeOf
    <2> QED
        BY <2>2, <2>3, <2>4
<1> QED
    BY <1>1, <1>2 DEF Put, SpeedOf

LEMMA TimesAscend ==
    ASSUME Put, InOrder
    PROVE  \A i, j \in Samples : /\ i < j => TimeOf(i) < TimeOf(j)
                                 /\ i <= j => TimeOf(i) <= TimeOf(j)
<1>1. PICK n \in Nat : n = Len(signal.values)
    BY SamplesTyped
<1> DEFINE x == [k \in 1 .. n |-> TimeOf(k)]
<1>2. \A k \in 1 .. n : TimeOf(k) \in Nat
    BY <1>1, SamplesTyped DEF Samples
<1>3. x \in [1 .. n -> Nat] /\ \A k \in 1 .. n : x[k] = TimeOf(k)
    BY <1>2
<1>4. \A k \in 2 .. n : x[k - 1] < x[k]
    BY <1>1, <1>3 DEF InOrder
<1> HIDE DEF x
<1>5. \A k \in 2 .. n : x[k - 1] <= x[k]
    <2> SUFFICES ASSUME NEW k \in 2 .. n PROVE x[k - 1] <= x[k]
        OBVIOUS
    <2>1. k \in 1 .. n /\ k - 1 \in 1 .. n /\ x[k - 1] < x[k]
        BY <1>4
    <2>2. x[k] \in Nat /\ x[k - 1] \in Nat
        BY <1>3, <2>1
    <2> QED
        BY <2>1, <2>2
<1>6. \A i, j \in 1 .. n : i <= j => x[i] <= x[j]
    BY <1>3, <1>5, StepsAscend
<1>7. ASSUME NEW i \in 1 .. n, NEW j \in 1 .. n, i < j PROVE x[i] < x[j]
    <2>1. j \in 2 .. n /\ j - 1 \in 1 .. n /\ i <= j - 1
        BY <1>7
    <2>2. x[i] <= x[j - 1] /\ x[j - 1] < x[j]
        BY <1>4, <1>6, <2>1
    <2>3. x[i] \in Nat /\ x[j] \in Nat /\ x[j - 1] \in Nat
        BY <1>3, <2>1
    <2> QED
        BY <2>2, <2>3
<1> QED
    BY <1>1, <1>3, <1>6, <1>7 DEF Samples

\* The samples inside the interval follow on each other.
LEMMA AskedTogether ==
    ASSUME Put, InOrder
    PROVE  /\ Asked \subseteq Samples
           /\ \A k \in Samples : k \in Asked <=> TimeOf(k) >= question.from /\ TimeOf(k) < question.to
           /\ \A i, k \in Asked : \A j \in i .. k : j \in Asked
<1>1. Asked = {k \in Samples : TimeOf(k) >= question.from /\ TimeOf(k) < question.to}
    BY SamplesTyped DEF Asked, Window
<1>2. ASSUME NEW i \in Asked, NEW k \in Asked, NEW j \in i .. k PROVE j \in Asked
    <2>1. i \in Samples /\ k \in Samples /\ j \in Samples /\ i <= j /\ j <= k
        BY <1>1, <1>2, SamplesTyped DEF Samples
    <2>2. TimeOf(i) <= TimeOf(j) /\ TimeOf(j) <= TimeOf(k)
        BY <2>1, TimesAscend
    <2>3. TimeOf(i) \in Nat /\ TimeOf(j) \in Nat /\ TimeOf(k) \in Nat /\ question.from \in Nat /\ question.to \in Nat
        BY <2>1, SamplesTyped DEF Put
    <2>4. TimeOf(i) >= question.from /\ TimeOf(k) < question.to
        BY <1>1
    <2> QED
        BY <1>1, <2>1, <2>2, <2>3, <2>4
<1> QED
    BY <1>1, <1>2

-----------------------------------------------------------------------------
(* Departures: what the walk over the samples remembers.                   *)

Instants == Nat \cup {None}

Scans ==
    [position : Nat, stopped : Instants, movement : Instants, fast : Instants, previous : Instants,
     best : {<< >>} \cup (Nat \X Nat), observed : Nat, driven : Nat, top : Instants]

\* A sample the walk has seen before is too far from this one.
Severed(s, time) == s.previous # None /\ ~Follows(s.previous, time)

LEMMA ForgottenIs ==
    ASSUME NEW s \in Scans
    PROVE  /\ Forgotten(s) \in Scans
           /\ Forgotten(s).stopped = None /\ Forgotten(s).movement = None /\ Forgotten(s).fast = None
           /\ Forgotten(s).previous = s.previous /\ Forgotten(s).position = s.position
BY DEF Forgotten, Scans, Instants

LEMMA RememberedIs ==
    ASSUME NEW s \in Scans, NEW time \in Nat
    PROVE  /\ [s EXCEPT !.previous = time] \in Scans
           /\ [s EXCEPT !.previous = time].previous = time
           /\ [s EXCEPT !.previous = time].stopped = s.stopped
           /\ [s EXCEPT !.previous = time].movement = s.movement
           /\ [s EXCEPT !.previous = time].fast = s.fast
           /\ [s EXCEPT !.previous = time].position = s.position
BY DEF Scans, Instants

LEMMA StoppedIs ==
    ASSUME NEW s \in Scans, NEW time \in Nat
    PROVE  /\ [s EXCEPT !.stopped = time] \in Scans
           /\ [s EXCEPT !.stopped = time].previous = s.previous
           /\ [s EXCEPT !.stopped = time].stopped = time
           /\ [s EXCEPT !.stopped = time].movement = s.movement
           /\ [s EXCEPT !.stopped = time].fast = s.fast
           /\ [s EXCEPT !.stopped = time].position = s.position
BY DEF Scans, Instants

LEMMA MovedIs ==
    ASSUME NEW s \in Scans, NEW time \in Nat, NEW v
    PROVE  /\ Moved(s, time, v) \in Scans
           /\ Moved(s, time, v).previous = s.previous /\ Moved(s, time, v).position = s.position
           /\ Moved(s, time, v).stopped = s.stopped
           /\ Moved(s, time, v).movement =
                IF s.movement = None /\ s.stopped # None THEN time ELSE s.movement
           /\ HalfCruise(v) => Moved(s, time, v).fast = IF s.fast = None THEN time ELSE s.fast
           /\ ~HalfCruise(v) => Moved(s, time, v).fast = None
<1>1. PICK movement : movement = IF s.movement = None /\ s.stopped # None THEN time ELSE s.movement
    OBVIOUS
<1>2. PICK fast : fast = IF s.fast = None THEN time ELSE s.fast
    OBVIOUS
<1>3. movement \in Instants /\ fast \in Instants /\ None \in Instants
    BY <1>1, <1>2 DEF Scans, Instants
<1>4. CASE HalfCruise(v)
    <2>1. Moved(s, time, v) = [s EXCEPT !.movement = movement, !.fast = fast]
        BY <1>1, <1>2, <1>4 DEF Moved
    <2>2. [s EXCEPT !.movement = movement, !.fast = fast] \in Scans
        BY <1>3 DEF Scans
    <2> QED
        BY <1>1, <1>2, <1>4, <2>1, <2>2 DEF Scans
<1>5. CASE ~HalfCruise(v)
    <2>1. Moved(s, time, v) = [s EXCEPT !.movement = movement, !.fast = None]
        BY <1>1, <1>5 DEF Moved
    <2>2. [s EXCEPT !.movement = movement, !.fast = None] \in Scans
        BY <1>3 DEF Scans
    <2> QED
        BY <1>1, <1>5, <2>1, <2>2 DEF Scans
<1> QED
    BY <1>4, <1>5

LEMMA SeenIs ==
    ASSUME NEW s \in Scans, NEW time \in Nat, NEW v \in Nat \cup {Bad}
    PROVE  \E seen \in Scans :
              /\ seen = [Seen(s, time, v) EXCEPT !.previous = time]
              /\ seen.previous = time /\ seen.position = s.position
              /\ v = Bad \/ Severed(s, time) =>
                   seen.stopped = None /\ seen.movement = None /\ seen.fast = None
              /\ ~(v = Bad \/ Severed(s, time)) =>
                   seen.stopped = s.stopped /\ seen.movement = s.movement /\ seen.fast = s.fast
<1>1. PICK r : r = Seen(s, time, v)
    OBVIOUS
<1>4. r \in Scans =>
          \E seen \in Scans :
              /\ seen = [r EXCEPT !.previous = time]
              /\ seen.previous = time /\ seen.stopped = r.stopped /\ seen.movement = r.movement
              /\ seen.fast = r.fast /\ seen.position = r.position
    BY RememberedIs
<1>2. CASE v = Bad \/ Severed(s, time)
    <2>1. r = Forgotten(s)
        BY <1>1, <1>2 DEF Seen, Severed
    <2>2. r \in Scans /\ r.stopped = None /\ r.movement = None /\ r.fast = None /\ r.position = s.position
        BY <2>1, ForgottenIs
    <2> QED
        BY <1>1, <1>2, <1>4, <2>2
<1>3. CASE ~(v = Bad \/ Severed(s, time))
    <2>1. r = s
        BY <1>1, <1>3 DEF Seen, Severed
    <2> QED
        BY <1>1, <1>3, <1>4, <2>1
<1> QED
    BY <1>2, <1>3

\* One sample of the walk, by what the car does in it.
LEMMA AfterSampleIs ==
    ASSUME NEW s \in Scans, NEW time \in Nat, NEW v \in Nat \cup {Bad}
    PROVE  \E after \in Scans :
              /\ after = AfterSample(s, time, v)
              /\ after.previous = time /\ after.position = s.position
              /\ v = 0 => after.stopped = time /\ after.movement = None /\ after.fast = None
              /\ v = Bad => after.stopped = None /\ after.movement = None /\ after.fast = None
              /\ v > 0 /\ Severed(s, time) =>
                   /\ after.stopped = None /\ after.movement = None
                   /\ after.fast = IF HalfCruise(v) THEN time ELSE None
              /\ v > 0 /\ ~Severed(s, time) =>
                   /\ after.stopped = s.stopped
                   /\ after.movement = IF s.movement = None /\ s.stopped # None THEN time ELSE s.movement
                   /\ HalfCruise(v) => after.fast = IF s.fast = None THEN time ELSE s.fast
                   /\ ~HalfCruise(v) => after.fast = None
<1>1. PICK seen \in Scans :
          /\ seen = [Seen(s, time, v) EXCEPT !.previous = time]
          /\ seen.previous = time /\ seen.position = s.position
          /\ v = Bad \/ Severed(s, time) =>
               seen.stopped = None /\ seen.movement = None /\ seen.fast = None
          /\ ~(v = Bad \/ Severed(s, time)) =>
               seen.stopped = s.stopped /\ seen.movement = s.movement /\ seen.fast = s.fast
    BY SeenIs
<1>2. v = 0 \/ v = Bad \/ (v > 0 /\ v # Bad /\ v # 0)
    BY DEF Bad
<1>3. CASE v = 0
    <2>1. AfterSample(s, time, v) = [Forgotten(seen) EXCEPT !.stopped = time]
        BY <1>1, <1>3 DEF AfterSample
    <2>2. v # Bad /\ ~(v > 0)
        BY <1>3 DEF Bad
    <2>3. PICK f : f = Forgotten(seen)
        OBVIOUS
    <2>4. /\ f \in Scans /\ f.movement = None /\ f.fast = None
          /\ f.previous = time /\ f.position = s.position
        BY <1>1, <2>3, ForgottenIs
    <2>5. PICK after : after = [f EXCEPT !.stopped = time]
        OBVIOUS
    <2>6. /\ after \in Scans /\ after.stopped = time /\ after.movement = None /\ after.fast = None
          /\ after.previous = time /\ after.position = s.position
        BY <2>4, <2>5, StoppedIs
    <2>7. after = AfterSample(s, time, v)
        BY <2>1, <2>3, <2>5
    <2> QED
        BY <1>3, <2>2, <2>6, <2>7
<1>4. CASE v = Bad
    <2>1. v # 0 /\ ~(v > 0)
        BY <1>4 DEF Bad
    <2>2. AfterSample(s, time, v) = seen
        BY <1>1, <2>1 DEF AfterSample
    <2> QED
        BY <1>1, <1>4, <2>1, <2>2
<1>5. CASE v > 0 /\ v # Bad /\ v # 0
    <2>1. AfterSample(s, time, v) = Moved(seen, time, v)
        BY <1>1, <1>5 DEF AfterSample
    <2>2. /\ Moved(seen, time, v) \in Scans
          /\ Moved(seen, time, v).previous = seen.previous /\ Moved(seen, time, v).position = seen.position
          /\ Moved(seen, time, v).stopped = seen.stopped
          /\ Moved(seen, time, v).movement =
               IF seen.movement = None /\ seen.stopped # None THEN time ELSE seen.movement
          /\ HalfCruise(v) => Moved(seen, time, v).fast = IF seen.fast = None THEN time ELSE seen.fast
          /\ ~HalfCruise(v) => Moved(seen, time, v).fast = None
        BY MovedIs
    <2>3. CASE Severed(s, time)
        BY <1>1, <1>5, <2>1, <2>2, <2>3
    <2>4. CASE ~Severed(s, time)
        BY <1>1, <1>5, <2>1, <2>2, <2>4
    <2> QED
        BY <2>3, <2>4
<1> QED
    BY <1>2, <1>3, <1>4, <1>5

\* From sample i to sample j the car is seen fast.
FastFrom(i, j) ==
    /\ \A k \in i .. j : SpeedOf(k) > 0 /\ HalfCruise(SpeedOf(k))
    /\ \A k \in i + 1 .. j : Follows(TimeOf(k - 1), TimeOf(k))

LastStop(s, q) ==
    s.stopped # None =>
      \E j \in Asked : /\ j <= q /\ SpeedOf(j) = 0 /\ TimeOf(j) = s.stopped /\ Moving(j + 1, q)
                       /\ s.movement = IF j = q THEN None ELSE TimeOf(j + 1)

EveryStop(s, q) ==
    \A i \in Samples : i \in Asked /\ SpeedOf(i) = 0 /\ Moving(i + 1, q) /\ i <= q => s.stopped = TimeOf(i)

FastSince(s, q) == s.fast # None => \E f \in Asked : f <= q /\ TimeOf(f) = s.fast /\ FastFrom(f, q)

EveryFast(s, q) == \A m \in Asked : m <= q /\ FastFrom(m, q) => s.fast # None /\ s.fast <= TimeOf(m)

\* What the walk remembers when it has seen sample q: the last stop since the
\* last gap and whether the car moved since, and since when it is fast.
Walked(s, q) ==
    /\ s \in Scans /\ s.previous = TimeOf(q)
    /\ s.stopped = None => s.movement = None
    /\ LastStop(s, q) /\ EveryStop(s, q) /\ FastSince(s, q) /\ EveryFast(s, q)

Unwalked(s) == s \in Scans /\ s.previous = None /\ s.stopped = None /\ s.movement = None /\ s.fast = None

LEMMA WalkIntoStop ==
    ASSUME Put, InOrder, NEW q \in Asked, NEW s, SpeedOf(q) = 0, s \in Scans,
           s.previous = TimeOf(q), s.stopped = TimeOf(q), s.movement = None, s.fast = None
    PROVE  Walked(s, q)
<1>1. q \in Samples /\ q \in Nat /\ TimeOf(q) \in Nat
    BY AskedTogether, SamplesTyped DEF Samples
<1>2. Moving(q + 1, q)
    BY <1>1 DEF Moving
<1>3. s.stopped # None
    BY <1>1 DEF None
<1>4. LastStop(s, q)
    BY <1>1, <1>2 DEF LastStop
<1>5. EveryStop(s, q)
    <2> SUFFICES ASSUME NEW i \in Samples, i \in Asked, Moving(i + 1, q), i <= q, i # q
                 PROVE  FALSE
        BY DEF EveryStop
    <2>1. q \in i + 1 .. q
        BY <1>1 DEF Samples
    <2>2. SpeedOf(q) > 0
        BY <2>1 DEF Moving
    <2> QED
        BY <2>2
<1>6. EveryFast(s, q)
    <2> SUFFICES ASSUME NEW m \in Asked, m <= q, FastFrom(m, q) PROVE FALSE
        BY DEF EveryFast
    <2>1. m \in Samples
        BY AskedTogether
    <2>2. q \in m .. q
        BY <1>1, <2>1 DEF Samples
    <2>3. SpeedOf(q) > 0
        BY <2>2 DEF FastFrom
    <2> QED
        BY <2>3
<1> QED
    BY <1>3, <1>4, <1>5, <1>6 DEF Walked, FastSince

\* Nothing is remembered across a bad sample.
LEMMA WalkIntoBad ==
    ASSUME Put, InOrder, NEW q \in Asked, NEW s, SpeedOf(q) = Bad, s \in Scans,
           s.previous = TimeOf(q), s.stopped = None, s.movement = None, s.fast = None
    PROVE  Walked(s, q)
<1>1. q \in Samples /\ q \in Nat
    BY AskedTogether DEF Samples
<1>2. ~(SpeedOf(q) > 0) /\ SpeedOf(q) # 0
    BY DEF Bad
<1>3. EveryStop(s, q)
    <2> SUFFICES ASSUME NEW i \in Samples, i \in Asked, SpeedOf(i) = 0, Moving(i + 1, q), i <= q
                 PROVE  FALSE
        BY DEF EveryStop
    <2>1. i # q
        BY <1>2
    <2>2. q \in i + 1 .. q
        BY <1>1, <2>1 DEF Samples
    <2>3. SpeedOf(q) > 0
        BY <2>2 DEF Moving
    <2> QED
        BY <1>2, <2>3
<1>4. EveryFast(s, q)
    <2> SUFFICES ASSUME NEW m \in Asked, m <= q, FastFrom(m, q) PROVE FALSE
        BY DEF EveryFast
    <2>1. m \in Samples
        BY AskedTogether
    <2>2. q \in m .. q
        BY <1>1, <2>1 DEF Samples
    <2>3. SpeedOf(q) > 0
        BY <2>2 DEF FastFrom
    <2> QED
        BY <1>2, <2>3
<1> QED
    BY <1>3, <1>4 DEF Walked, FastSince, LastStop

\* Moving without anything before it, or behind a gap.
LEMMA WalkAfresh ==
    ASSUME Put, InOrder, NEW q \in Asked, NEW s, SpeedOf(q) > 0, s \in Scans,
           s.previous = TimeOf(q), s.stopped = None, s.movement = None,
           s.fast = IF HalfCruise(SpeedOf(q)) THEN TimeOf(q) ELSE None,
           q - 1 \in Asked => ~Follows(TimeOf(q - 1), TimeOf(q))
    PROVE  Walked(s, q)
<1>1. q \in Samples /\ q \in Nat /\ TimeOf(q) \in Nat /\ SpeedOf(q) # 0
    BY AskedTogether, SamplesTyped DEF Samples
<1>2. ASSUME NEW m \in Asked, m < q PROVE m + 1 <= q /\ m + 1 \in Nat /\ m \in Nat /\ ~Follows(TimeOf(q - 1), TimeOf(q))
    <2>1. m \in Samples /\ m \in Nat
        BY AskedTogether DEF Samples
    <2>2. q - 1 \in m .. q
        BY <1>1, <1>2, <2>1
    <2>3. q - 1 \in Asked
        BY <2>2, AskedTogether
    <2> QED
        BY <1>1, <1>2, <2>1, <2>3
<1>3. EveryStop(s, q)
    <2> SUFFICES ASSUME NEW i \in Samples, i \in Asked, SpeedOf(i) = 0, Moving(i + 1, q), i <= q
                 PROVE  FALSE
        BY DEF EveryStop
    <2>1. i # q /\ i \in Nat
        BY <1>1 DEF Samples
    <2>2. i < q
        BY <1>1, <2>1
    <2>3. ~Follows(TimeOf(q - 1), TimeOf(q)) /\ q \in i + 1 .. q
        BY <1>1, <1>2, <2>2
    <2> QED
        BY <2>3 DEF Moving
<1>4. FastSince(s, q)
    <2> SUFFICES ASSUME s.fast # None PROVE FastFrom(q, q) /\ TimeOf(q) = s.fast
        BY <1>1 DEF FastSince
    <2>1. HalfCruise(SpeedOf(q)) /\ s.fast = TimeOf(q)
        OBVIOUS
    <2>2. \A k \in q .. q : k = q
        BY <1>1
    <2>3. \A k \in q + 1 .. q : FALSE
        BY <1>1
    <2> QED
        BY <2>1, <2>2, <2>3 DEF FastFrom
<1>5. EveryFast(s, q)
    <2> SUFFICES ASSUME NEW m \in Asked, m <= q, FastFrom(m, q) PROVE s.fast # None /\ s.fast <= TimeOf(m)
        BY DEF EveryFast
    <2>1. m \in Samples /\ m \in Nat
        BY AskedTogether DEF Samples
    <2>2. m = q
        <3> SUFFICES ASSUME m # q PROVE FALSE
            OBVIOUS
        <3>1. m < q
            BY <1>1, <2>1
        <3>2. ~Follows(TimeOf(q - 1), TimeOf(q)) /\ q \in m + 1 .. q
            BY <1>1, <1>2, <3>1
        <3> QED
            BY <3>2 DEF FastFrom
    <2>3. HalfCruise(SpeedOf(q))
        <3>1. q \in m .. q
            BY <1>1, <2>2
        <3> QED
            BY <3>1 DEF FastFrom
    <2> QED
        BY <1>1, <2>2, <2>3 DEF None
<1> QED
    BY <1>3, <1>4, <1>5 DEF Walked, LastStop

\* A stretch to a sample is one to the sample before it.
LEMMA Shorter ==
    ASSUME NEW q \in Nat, NEW i \in Nat, i < q
    PROVE  /\ FastFrom(i, q) => FastFrom(i, q - 1)
           /\ Moving(i + 1, q) => Moving(i + 1, q - 1) /\ SpeedOf(q) > 0 /\ Follows(TimeOf(q - 1), TimeOf(q))
<1>1. i .. (q - 1) \subseteq i .. q /\ (i + 1) .. (q - 1) \subseteq (i + 1) .. q /\ q \in (i + 1) .. q
    OBVIOUS
<1> QED
    BY <1>1 DEF FastFrom, Moving

\* And the other way round, when the sample belongs to it.
LEMMA Longer ==
    ASSUME NEW q \in Nat, NEW i \in Nat, i < q, SpeedOf(q) > 0, Follows(TimeOf(q - 1), TimeOf(q))
    PROVE  /\ FastFrom(i, q - 1) /\ HalfCruise(SpeedOf(q)) => FastFrom(i, q)
           /\ Moving(i + 1, q - 1) => Moving(i + 1, q)
<1>1. /\ \A k \in i .. q : k \in i .. (q - 1) \/ k = q
      /\ \A k \in (i + 1) .. q : k \in (i + 1) .. (q - 1) \/ k = q
    OBVIOUS
<1>2. ASSUME FastFrom(i, q - 1), HalfCruise(SpeedOf(q)) PROVE FastFrom(i, q)
    BY <1>1, <1>2 DEF FastFrom
<1>3. ASSUME Moving(i + 1, q - 1) PROVE Moving(i + 1, q)
    BY <1>1, <1>3 DEF Moving
<1> QED
    BY <1>2, <1>3

LEMMA FastAlone ==
    ASSUME NEW q \in Nat, SpeedOf(q) > 0, HalfCruise(SpeedOf(q))
    PROVE  FastFrom(q, q)
<1>1. (\A k \in q .. q : k = q) /\ \A k \in q + 1 .. q : FALSE
    OBVIOUS
<1> QED
    BY <1>1 DEF FastFrom

LEMMA FastIsFast ==
    ASSUME NEW q \in Nat, NEW i \in Nat, i <= q, FastFrom(i, q)
    PROVE  SpeedOf(q) > 0 /\ HalfCruise(SpeedOf(q))
<1>1. q \in i .. q
    OBVIOUS
<1> QED
    BY <1>1 DEF FastFrom

\* Moving on from the sample before.
LEMMA WalkOn ==
    ASSUME Put, InOrder, NEW q \in Asked, q - 1 \in Asked, NEW s, NEW r, Walked(r, q - 1),
           SpeedOf(q) > 0, Follows(TimeOf(q - 1), TimeOf(q)),
           s \in Scans, s.previous = TimeOf(q), s.stopped = r.stopped,
           s.movement = IF r.movement = None /\ r.stopped # None THEN TimeOf(q) ELSE r.movement,
           HalfCruise(SpeedOf(q)) => s.fast = IF r.fast = None THEN TimeOf(q) ELSE r.fast,
           ~HalfCruise(SpeedOf(q)) => s.fast = None
    PROVE  Walked(s, q)
<1>1. q \in Samples /\ q \in Nat /\ TimeOf(q) \in Nat /\ SpeedOf(q) # 0 /\ q - 1 \in Nat /\ q - 1 < q
    BY AskedTogether, SamplesTyped DEF Samples
<1>2. \A m \in Asked : m \in Samples /\ m \in Nat /\ TimeOf(m) \in Nat /\ (m <= q => m = q \/ (m < q /\ m <= q - 1))
    BY <1>1, AskedTogether, SamplesTyped DEF Samples
<1>3. s.stopped = None => s.movement = None
    BY DEF Walked
<1>4. LastStop(s, q)
    <2> SUFFICES ASSUME s.stopped # None PROVE LastStop(s, q)
        BY DEF LastStop
    <2>1. PICK j \in Asked : /\ j <= q - 1 /\ SpeedOf(j) = 0 /\ TimeOf(j) = r.stopped /\ Moving(j + 1, q - 1)
                             /\ r.movement = IF j = q - 1 THEN None ELSE TimeOf(j + 1)
        BY DEF Walked, LastStop
    <2>2. j \in Nat /\ j < q /\ j <= q /\ j # q /\ j + 1 <= q
        BY <1>1, <1>2, <2>1
    <2>3. Moving(j + 1, q)
        BY <1>1, <2>1, <2>2, Longer
    <2>4. s.movement = TimeOf(j + 1)
        <3>1. CASE j = q - 1
            <4>1. j + 1 = q
                BY <1>1, <3>1
            <4> QED
                BY <2>1, <3>1, <4>1
        <3>2. CASE j # q - 1
            <4>1. r.movement = TimeOf(j + 1)
                BY <2>1, <3>2
            <4>2. j \in j .. q /\ j + 1 \in j .. q
                BY <1>1, <2>2
            <4>3. j + 1 \in Asked
                BY <2>1, <4>2, AskedTogether
            <4>4. TimeOf(j + 1) # None
                BY <1>2, <4>3 DEF None
            <4> QED
                BY <4>1, <4>4
        <3> QED
            BY <3>1, <3>2
    <2> QED
        BY <2>1, <2>2, <2>3, <2>4 DEF LastStop
<1>5. EveryStop(s, q)
    <2> SUFFICES ASSUME NEW i \in Samples, i \in Asked, SpeedOf(i) = 0, Moving(i + 1, q), i <= q
                 PROVE  s.stopped = TimeOf(i)
        BY DEF EveryStop
    <2>1. i \in Nat /\ i < q /\ i <= q - 1
        BY <1>1, <1>2
    <2>2. Moving(i + 1, q - 1)
        BY <1>1, <2>1, Shorter
    <2> QED
        BY <2>1, <2>2 DEF Walked, EveryStop
<1>6. FastSince(s, q)
    <2> SUFFICES ASSUME s.fast # None PROVE \E f \in Asked : f <= q /\ TimeOf(f) = s.fast /\ FastFrom(f, q)
        BY DEF FastSince
    <2>1. HalfCruise(SpeedOf(q))
        OBVIOUS
    <2>2. CASE r.fast = None
        BY <1>1, <2>1, <2>2, FastAlone
    <2>3. CASE r.fast # None
        <3>1. PICK f \in Asked : f <= q - 1 /\ TimeOf(f) = r.fast /\ FastFrom(f, q - 1)
            BY <2>3 DEF Walked, FastSince
        <3>2. f \in Nat /\ f < q /\ f <= q
            BY <1>1, <1>2, <3>1
        <3>3. FastFrom(f, q)
            BY <1>1, <2>1, <3>1, <3>2, Longer
        <3> QED
            BY <2>1, <2>3, <3>1, <3>2, <3>3
    <2> QED
        BY <2>2, <2>3
<1>7. EveryFast(s, q)
    <2> SUFFICES ASSUME NEW m \in Asked, m <= q, FastFrom(m, q) PROVE s.fast # None /\ s.fast <= TimeOf(m)
        BY DEF EveryFast
    <2>1. HalfCruise(SpeedOf(q))
        BY <1>1, <1>2, FastIsFast
    <2>2. CASE m = q
        <3>1. CASE r.fast = None
            BY <1>1, <2>1, <2>2, <3>1 DEF None
        <3>2. CASE r.fast # None
            <4>1. PICK f \in Asked : f <= q - 1 /\ TimeOf(f) = r.fast
                BY <3>2 DEF Walked, FastSince
            <4>2. f \in Samples /\ f <= q
                BY <1>1, <1>2, <4>1
            <4>3. TimeOf(f) <= TimeOf(q)
                BY <1>1, <4>2, TimesAscend
            <4> QED
                BY <2>1, <2>2, <3>2, <4>1, <4>3
        <3> QED
            BY <3>1, <3>2
    <2>3. CASE m # q
        <3>1. m \in Nat /\ m < q /\ m <= q - 1
            BY <1>2, <2>3
        <3>2. FastFrom(m, q - 1)
            BY <1>1, <3>1, Shorter
        <3>3. r.fast # None /\ r.fast <= TimeOf(m)
            BY <3>1, <3>2 DEF Walked, EveryFast
        <3> QED
            BY <2>1, <3>3
    <2> QED
        BY <2>2, <2>3
<1> QED
    BY <1>3, <1>4, <1>5, <1>6, <1>7 DEF Walked

\* Every sample of the interval.
LEMMA WalkSample ==
    ASSUME Put, InOrder, NEW q \in Asked, NEW r,
           \/ q - 1 \in Asked /\ Walked(r, q - 1)
           \/ q - 1 \notin Asked /\ Unwalked(r)
    PROVE  Walked(AfterSample(r, TimeOf(q), SpeedOf(q)), q)
<1>1. q \in Samples /\ q \in Nat /\ TimeOf(q) \in Nat /\ SpeedOf(q) \in Nat \cup {Bad}
    BY AskedTogether, SamplesTyped DEF Samples
<1>2. PICK time \in Nat, v \in Nat \cup {Bad} : time = TimeOf(q) /\ v = SpeedOf(q)
    BY <1>1
<1>3. r \in Scans
    BY DEF Walked, Unwalked
<1>4. PICK after \in Scans :
          /\ after = AfterSample(r, time, v)
          /\ after.previous = time /\ after.position = r.position
          /\ v = 0 => after.stopped = time /\ after.movement = None /\ after.fast = None
          /\ v = Bad => after.stopped = None /\ after.movement = None /\ after.fast = None
          /\ v > 0 /\ Severed(r, time) =>
               /\ after.stopped = None /\ after.movement = None
               /\ after.fast = IF HalfCruise(v) THEN time ELSE None
          /\ v > 0 /\ ~Severed(r, time) =>
               /\ after.stopped = r.stopped
               /\ after.movement = IF r.movement = None /\ r.stopped # None THEN time ELSE r.movement
               /\ HalfCruise(v) => after.fast = IF r.fast = None THEN time ELSE r.fast
               /\ ~HalfCruise(v) => after.fast = None
    BY <1>3, AfterSampleIs
<1>5. CASE v = 0
    BY <1>2, <1>4, <1>5, WalkIntoStop
<1>6. CASE v = Bad
    BY <1>2, <1>4, <1>6, WalkIntoBad
<1>7. CASE v > 0
    <2>1. CASE q - 1 \in Asked /\ Walked(r, q - 1)
        <3>1. r.previous = TimeOf(q - 1) /\ TimeOf(q - 1) # None
            BY <2>1, AskedTogether, SamplesTyped DEF Walked, None
        <3>2. Severed(r, time) <=> ~Follows(TimeOf(q - 1), TimeOf(q))
            BY <1>2, <3>1 DEF Severed
        <3>3. CASE Severed(r, time)
            <4>1. after.stopped = None /\ after.movement = None
                  /\ after.fast = IF HalfCruise(SpeedOf(q)) THEN TimeOf(q) ELSE None
                BY <1>2, <1>4, <1>7, <3>3
            <4> QED
                BY <1>2, <1>4, <1>7, <3>2, <3>3, <4>1, WalkAfresh
        <3>4. CASE ~Severed(r, time)
            <4>1. /\ after.stopped = r.stopped
                  /\ after.movement = IF r.movement = None /\ r.stopped # None THEN TimeOf(q) ELSE r.movement
                  /\ HalfCruise(SpeedOf(q)) => after.fast = IF r.fast = None THEN TimeOf(q) ELSE r.fast
                  /\ ~HalfCruise(SpeedOf(q)) => after.fast = None
                BY <1>2, <1>4, <1>7, <3>4
            <4> QED
                BY <1>2, <1>4, <1>7, <2>1, <3>2, <3>4, <4>1, WalkOn
        <3> QED
            BY <3>3, <3>4
    <2>2. CASE q - 1 \notin Asked /\ Unwalked(r)
        <3>1. ~Severed(r, time) /\ r.stopped = None /\ r.movement = None /\ r.fast = None
            BY <2>2 DEF Severed, Unwalked
        <3>2. after.stopped = None /\ after.movement = None
              /\ after.fast = IF HalfCruise(SpeedOf(q)) THEN TimeOf(q) ELSE None
            BY <1>2, <1>4, <1>7, <3>1
        <3> QED
            BY <1>2, <1>4, <1>7, <2>2, <3>2, WalkAfresh
    <2> QED
        BY <2>1, <2>2
<1> QED
    BY <1>1, <1>2, <1>4, <1>5, <1>6, <1>7

NotYet(p) == \A k, l \in Asked : l < p => ~DrivenFast(k, l)

\* The inductive invariant of the walk to a departure.
DepartureScan(s) ==
    /\ s \in Scans /\ s.position \in 1 .. Len(signal.values) + 1
    /\ (\A m \in Asked : m >= s.position) => Unwalked(s)
    /\ s.position - 1 \in Asked => Walked(s, s.position - 1)
    /\ NotYet(s.position)

\* What is said of an answer.
IsDeparture(found) ==
    IF found = None
    THEN \A i, j \in Asked : i - 1 \in Asked /\ DrivesOff(i, j) => \E k, l \in Asked : l < i /\ DrivenFast(k, l)
    ELSE \E i, j \in Asked :
           /\ i - 1 \in Asked /\ DrivesOff(i, j) /\ TimeOf(i) = found
           /\ question.from < found /\ found < question.to
           /\ \A k, l \in Asked : DrivenFast(k, l) => j <= l

LEMMA DrivenIs ==
    ASSUME NEW i, NEW j
    PROVE  DrivenFast(i, j) <=> TimeOf(j) - TimeOf(i) >= 3 * Second /\ FastFrom(i, j)
BY DEF DrivenFast, FastFrom

LEMMA PositionIs ==
    ASSUME NEW s \in Scans, NEW p \in Nat
    PROVE  LET t == [s EXCEPT !.position = p]
           IN  /\ t \in Scans /\ t.position = p /\ t.stopped = s.stopped /\ t.movement = s.movement
               /\ t.fast = s.fast /\ t.previous = s.previous
BY DEF Scans

LEMMA SameWalk ==
    ASSUME NEW s \in Scans, NEW t \in Scans, NEW q, t.stopped = s.stopped, t.movement = s.movement,
           t.fast = s.fast, t.previous = s.previous
    PROVE  (Walked(s, q) => Walked(t, q)) /\ (Unwalked(s) => Unwalked(t))
BY DEF Walked, Unwalked, LastStop, EveryStop, FastSince, EveryFast

LEMMA DrivenForward ==
    ASSUME Put, InOrder, NEW k \in Asked, NEW l \in Asked, DrivenFast(k, l)
    PROVE  k < l /\ k \in Nat /\ l \in Nat
<1>1. k \in Samples /\ l \in Samples /\ TimeOf(k) \in Nat /\ TimeOf(l) \in Nat
    BY AskedTogether, SamplesTyped
<1>2. TimeOf(l) - TimeOf(k) >= 3 * Second /\ Second \in Nat \ {0}
    BY MotionAssumption DEF DrivenFast
<1>3. TimeOf(k) < TimeOf(l)
    BY <1>1, <1>2
<1>4. k \in Nat /\ l \in Nat
    BY <1>1 DEF Samples
<1>5. l <= k => TimeOf(l) <= TimeOf(k)
    BY <1>1, TimesAscend
<1> QED
    BY <1>1, <1>3, <1>4, <1>5

\* Samples outside the interval are passed over.
LEMMA DepartureSkips ==
    ASSUME Put, InOrder, NEW s, DepartureScan(s), s.position \in Samples, s.position \notin Asked
    PROVE  DepartureScan([s EXCEPT !.position = s.position + 1])
<1>1. PICK p \in Nat : p = s.position /\ p \in Samples /\ p \notin Asked
    BY DEF Scans, DepartureScan
<1>2. PICK t : t = [s EXCEPT !.position = p + 1]
    OBVIOUS
<1>3. /\ s \in Scans /\ t \in Scans /\ t.position = p + 1 /\ t.stopped = s.stopped /\ t.movement = s.movement
      /\ t.fast = s.fast /\ t.previous = s.previous
    BY <1>1, <1>2, PositionIs DEF DepartureScan
<1>4. p + 1 \in 1 .. Len(signal.values) + 1 /\ (p + 1) - 1 = p
    BY <1>1, SamplesTyped DEF Samples
<1>5. \A m \in Asked : m \in Nat /\ m # p
    BY <1>1, AskedTogether DEF Samples
<1>6. (\A m \in Asked : m >= p + 1) => Unwalked(t)
    <2> SUFFICES ASSUME \A m \in Asked : m >= p + 1 PROVE Unwalked(t)
        OBVIOUS
    <2>1. \A m \in Asked : m >= p
        BY <1>5
    <2> QED
        BY <1>1, <1>3, <2>1, SameWalk DEF DepartureScan
<1>7. NotYet(p + 1)
    <2>1. \A l \in Asked : l < p + 1 => l < p
        BY <1>5
    <2> QED
        BY <1>1, <2>1 DEF DepartureScan, NotYet
<1> QED
    BY <1>1, <1>2, <1>3, <1>4, <1>6, <1>7 DEF DepartureScan

\* What the sample at the position of the walk is to it.
LEMMA DepartureWalks ==
    ASSUME Put, InOrder, NEW s, DepartureScan(s), s.position \in Asked
    PROVE  Walked(AfterSample(s, TimeOf(s.position), SpeedOf(s.position)), s.position)
<1>1. PICK p \in Asked : p = s.position
    OBVIOUS
<1>2. p \in Nat
    BY AskedTogether DEF Samples
<1>3. CASE p - 1 \in Asked
    BY <1>1, <1>3, WalkSample DEF DepartureScan
<1>4. CASE p - 1 \notin Asked
    <2>1. ASSUME NEW m \in Asked, m < p PROVE FALSE
        <3>1. m \in Nat
            BY AskedTogether DEF Samples
        <3>2. p - 1 \in m .. p
            BY <1>2, <2>1, <3>1
        <3> QED
            BY <1>4, <3>2, AskedTogether
    <2>2. \A m \in Asked : m >= p
        BY <1>2, <2>1, AskedTogether DEF Samples
    <2>3. Unwalked(s)
        BY <1>1, <2>2 DEF DepartureScan
    <2> QED
        BY <1>1, <1>4, <2>3, WalkSample
<1> QED
    BY <1>3, <1>4

\* The car has left when, and only when, it is seen fast for three seconds.
Left(s, after) ==
    /\ SpeedOf(s.position) > 0 /\ HalfCruise(SpeedOf(s.position))
    /\ TimeOf(s.position) - after.fast >= 3 * Second

LEMMA LeftIsDriven ==
    ASSUME Put, InOrder, NEW s, NEW after, NEW p \in Asked, p = s.position, Walked(after, p)
    PROVE  Left(s, after) <=> \E k \in Asked : DrivenFast(k, p)
<1>1. p \in Nat /\ p \in Samples /\ TimeOf(p) \in Nat
    BY AskedTogether, SamplesTyped DEF Samples
<1>2. Second \in Nat
    BY MotionAssumption
<1>3. ASSUME NEW k \in Asked, DrivenFast(k, p) PROVE Left(s, after)
    <2>1. k \in Nat /\ k <= p /\ FastFrom(k, p) /\ TimeOf(p) - TimeOf(k) >= 3 * Second
        BY <1>3, DrivenForward, DrivenIs
    <2>2. SpeedOf(p) > 0 /\ HalfCruise(SpeedOf(p))
        BY <1>1, <2>1, FastIsFast
    <2>3. after.fast # None /\ after.fast <= TimeOf(k)
        BY <1>3, <2>1 DEF Walked, EveryFast
    <2>4. after.fast \in Nat /\ TimeOf(k) \in Nat
        BY <2>3, AskedTogether, SamplesTyped DEF Walked, Scans, Instants
    <2>5. TimeOf(p) - after.fast >= 3 * Second
        <3>1. PICK x, y, z, w : x = TimeOf(p) /\ y = TimeOf(k) /\ z = after.fast /\ w = 3 * Second
            OBVIOUS
        <3>2. x \in Nat /\ y \in Nat /\ z \in Nat /\ w \in Nat /\ x - y >= w /\ z <= y
            BY <1>1, <1>2, <2>1, <2>3, <2>4, <3>1
        <3>3. x - z >= w
            BY <3>2
        <3> QED
            BY <3>1, <3>3
    <2> QED
        BY <2>2, <2>5 DEF Left
<1>4. ASSUME Left(s, after) PROVE \E k \in Asked : DrivenFast(k, p)
    <2>1. FastFrom(p, p)
        BY <1>1, <1>4, FastAlone DEF Left
    <2>2. after.fast # None
        BY <1>1, <2>1 DEF Walked, EveryFast
    <2>3. PICK f \in Asked : TimeOf(f) = after.fast /\ FastFrom(f, p)
        BY <2>2 DEF Walked, FastSince
    <2> QED
        BY <1>4, <2>3, DrivenIs DEF Left
<1> QED
    BY <1>3, <1>4

\* The walk goes on past samples at which the car has not left.
LEMMA DepartureGoesOn ==
    ASSUME Put, InOrder, NEW s, DepartureScan(s), s.position \in Asked, NEW after,
           after = AfterSample(s, TimeOf(s.position), SpeedOf(s.position)), ~Left(s, after)
    PROVE  DepartureScan([after EXCEPT !.position = s.position + 1])
<1>1. PICK p \in Asked : p = s.position
    OBVIOUS
<1>2. Walked(after, p)
    BY <1>1, DepartureWalks
<1>3. PICK t : t = [after EXCEPT !.position = p + 1]
    OBVIOUS
<1>4. p \in Nat /\ p \in Samples /\ p + 1 \in Nat
    BY AskedTogether DEF Samples
<1>5. /\ after \in Scans /\ t \in Scans /\ t.position = p + 1 /\ t.stopped = after.stopped
      /\ t.movement = after.movement /\ t.fast = after.fast /\ t.previous = after.previous
    BY <1>2, <1>3, <1>4, PositionIs DEF Walked
<1>6. p + 1 \in 1 .. Len(signal.values) + 1 /\ (p + 1) - 1 = p /\ ~(p >= p + 1)
    BY <1>4, SamplesTyped DEF Samples
<1>7. Walked(t, p)
    BY <1>2, <1>5, SameWalk
<1>8. NotYet(p + 1)
    <2> SUFFICES ASSUME NEW k \in Asked, NEW l \in Asked, l < p + 1, DrivenFast(k, l) PROVE FALSE
        BY DEF NotYet
    <2>1. l \in Nat
        BY AskedTogether DEF Samples
    <2>2. l # p
        BY <1>1, <1>2, LeftIsDriven
    <2>3. l < p
        BY <1>4, <2>1, <2>2
    <2> QED
        BY <1>1, <2>3 DEF DepartureScan, NotYet
<1> QED
    BY <1>1, <1>3, <1>5, <1>6, <1>7, <1>8 DEF DepartureScan

\* A car driving off is seen fast before its last sample.
LEMMA DrivesOffFast ==
    ASSUME Put, InOrder, NEW i \in Asked, NEW j \in Asked, DrivesOff(i, j)
    PROVE  \E k \in Asked : i <= k /\ k <= j /\ DrivenFast(k, j)
<1>1. PICK k \in i .. j : DrivenFast(k, j)
    BY DEF DrivesOff
<1>2. k \in Asked /\ i <= k /\ k <= j
    BY AskedTogether DEF Samples
<1> QED
    BY <1>1, <1>2

\* At the end of the channel nobody has left.
LEMMA DepartureEnds ==
    ASSUME Put, InOrder, NEW s, DepartureScan(s), s.position > Len(signal.values)
    PROVE  IsDeparture(None)
<1>1. \A l \in Asked : l < s.position
    BY AskedTogether, SamplesTyped DEF Samples, DepartureScan
<1>2. \A k, l \in Asked : ~DrivenFast(k, l)
    BY <1>1 DEF DepartureScan, NotYet
<1>3. \A i, j \in Asked : ~DrivesOff(i, j)
    BY <1>2, DrivesOffFast
<1> QED
    BY <1>3 DEF IsDeparture

\* Moving until a sample is moving until one before it.
LEMMA MovingPart ==
    ASSUME NEW i \in Nat, NEW p \in Nat, NEW j \in Nat, p <= j, Moving(i, j)
    PROVE  Moving(i, p)
<1>1. i .. p \subseteq i .. j
    OBVIOUS
<1> QED
    BY <1>1 DEF Moving

\* When the car has left, the last stop is the one it left from.
LEMMA DepartureFound ==
    ASSUME Put, InOrder, NEW s, DepartureScan(s), s.position \in Asked, NEW after,
           after = AfterSample(s, TimeOf(s.position), SpeedOf(s.position)), Left(s, after)
    PROVE  IsDeparture(after.movement)
<1>1. PICK p \in Asked : p = s.position
    OBVIOUS
<1>2. Walked(after, p)
    BY <1>1, DepartureWalks
<1>3. PICK f \in Asked : DrivenFast(f, p)
    BY <1>1, <1>2, LeftIsDriven
<1>4. f < p /\ f \in Nat /\ p \in Nat /\ FastFrom(f, p)
    BY <1>3, DrivenForward, DrivenIs
<1>5. ASSUME NEW k \in Asked, NEW l \in Asked, DrivenFast(k, l) PROVE p <= l
    <2>1. l \in Nat /\ ~(l < p)
        BY <1>1, <1>5, DrivenForward DEF DepartureScan, NotYet
    <2> QED
        BY <1>4, <2>1
<1>6. CASE after.movement = None
    <2> SUFFICES ASSUME NEW i \in Asked, NEW j \in Asked, i - 1 \in Asked, DrivesOff(i, j)
                 PROVE  \E k, l \in Asked : l < i /\ DrivenFast(k, l)
        BY <1>6 DEF IsDeparture
    <2>1. i \in Nat /\ j \in Nat /\ i - 1 \in Nat /\ i - 1 \in Samples
        BY AskedTogether DEF Samples
    <2>2. p <= j
        BY <1>5, DrivesOffFast
    <2>3. CASE p < i
        BY <1>3, <2>3
    <2>4. CASE i <= p
        <3>1. Moving(i, p) /\ SpeedOf(i - 1) = 0
            BY <1>4, <2>1, <2>2, MovingPart DEF DrivesOff
        <3>2. (i - 1) + 1 = i /\ i - 1 <= p
            BY <1>4, <2>1, <2>4
        <3>3. after.stopped = TimeOf(i - 1)
            BY <1>2, <2>1, <3>1, <3>2 DEF Walked, EveryStop
        <3>4. after.stopped # None
            BY <2>1, <3>3, SamplesTyped DEF None
        <3>5. PICK j0 \in Asked : /\ j0 <= p /\ SpeedOf(j0) = 0
                                  /\ after.movement = IF j0 = p THEN None ELSE TimeOf(j0 + 1)
            BY <1>2, <3>4 DEF Walked, LastStop
        <3>6. j0 # p
            BY <1>4, <3>5, FastIsFast
        <3>7. j0 \in Nat /\ j0 + 1 \in j0 .. p
            BY <1>4, <3>5, <3>6, AskedTogether DEF Samples
        <3>8. j0 + 1 \in Asked
            BY <3>7, AskedTogether
        <3>9. TimeOf(j0 + 1) # None
            BY <3>8, AskedTogether, SamplesTyped DEF None
        <3> QED
            BY <1>6, <3>5, <3>6, <3>9
    <2> QED
        BY <1>4, <2>1, <2>3, <2>4
<1>7. CASE after.movement # None
    <2>1. after.stopped # None
        BY <1>2, <1>7 DEF Walked
    <2>2. PICK j \in Asked : /\ j <= p /\ SpeedOf(j) = 0 /\ Moving(j + 1, p)
                             /\ after.movement = IF j = p THEN None ELSE TimeOf(j + 1)
        BY <1>2, <2>1 DEF Walked, LastStop
    <2>3. j # p /\ after.movement = TimeOf(j + 1)
        BY <1>7, <2>2
    <2>4. PICK i \in Nat : i = j + 1 /\ i \in j .. p /\ i - 1 = j /\ j < i /\ j \in Nat
        BY <1>4, <2>2, <2>3, AskedTogether DEF Samples
    <2>5. i \in Asked
        BY <2>4, AskedTogether
    <2>6. f \in i .. p
        <3> SUFFICES ASSUME f < i PROVE FALSE
            BY <1>4, <2>4
        <3>1. j \in f .. p
            BY <1>4, <2>2, <2>4
        <3>2. SpeedOf(j) > 0
            BY <1>4, <3>1 DEF FastFrom
        <3> QED
            BY <2>2, <3>2
    <2>7. DrivesOff(i, p)
        BY <1>3, <2>2, <2>4, <2>6 DEF DrivesOff
    <2>8. question.from < TimeOf(i) /\ TimeOf(i) < question.to
        <3>1. i \in Samples /\ j \in Samples /\ TimeOf(i) \in Nat /\ TimeOf(j) \in Nat /\ question.from \in Nat
            BY <2>5, AskedTogether, SamplesTyped DEF Put
        <3>2. TimeOf(j) < TimeOf(i) /\ TimeOf(j) >= question.from /\ TimeOf(i) < question.to
            BY <2>4, <2>5, <3>1, TimesAscend, AskedTogether
        <3> QED
            BY <3>1, <3>2
    <2>9. TimeOf(i) = after.movement
        BY <2>3, <2>4
    <2> QED
        BY <1>5, <1>7, <2>4, <2>5, <2>7, <2>8, <2>9 DEF IsDeparture
<1> QED
    BY <1>6, <1>7

-----------------------------------------------------------------------------
(* A step keeps the channel and the question, and all that is said of them. *)

LEMMA CruiseSteady ==
    ASSUME signal' = signal
    PROVE  /\ \A v : HalfCruise(v)' <=> HalfCruise(v)
           /\ Positive' = Positive
<1>1. Positive' = Positive
    BY DEF Positive, SpeedOf
<1>2. Cruise' = Cruise
    BY <1>1 DEF Cruise, SpeedOf
<1> QED
    BY <1>1, <1>2 DEF HalfCruise

LEMMA TimesSteady ==
    ASSUME signal' = signal
    PROVE  \A k : TimeOf(k)' = TimeOf(k) /\ SpeedOf(k)' = SpeedOf(k)
BY DEF TimeOf, SpeedOf

LEMMA DepartureSteady ==
    ASSUME signal' = signal, question' = question
    PROVE  /\ InOrder' <=> InOrder
           /\ DepartureScan(scan)' <=> DepartureScan(scan')
           /\ IsDeparture(answer[1])' <=> IsDeparture(answer[1]')
<1>1. Asked' = Asked
    BY TimesSteady DEF Asked, Window
<1>2. InOrder' <=> InOrder
    BY TimesSteady DEF InOrder
<1>3. \A i, j : /\ FastFrom(i, j)' <=> FastFrom(i, j)
                /\ Moving(i, j)' <=> Moving(i, j)
                /\ DrivenFast(i, j)' <=> DrivenFast(i, j)
    BY TimesSteady, CruiseSteady DEF FastFrom, Moving, DrivenFast
<1>4. \A i, j : DrivesOff(i, j)' <=> DrivesOff(i, j)
    BY <1>3, TimesSteady DEF DrivesOff
<1>5. IsDeparture(answer[1])' <=> IsDeparture(answer[1]')
    BY <1>1, <1>3, <1>4, TimesSteady DEF IsDeparture
<1>6. \A q : /\ LastStop(scan, q)' <=> LastStop(scan', q)
             /\ EveryStop(scan, q)' <=> EveryStop(scan', q)
             /\ FastSince(scan, q)' <=> FastSince(scan', q)
             /\ EveryFast(scan, q)' <=> EveryFast(scan', q)
    BY <1>1, <1>3, TimesSteady DEF LastStop, EveryStop, FastSince, EveryFast, Samples
<1>7. \A q : Walked(scan, q)' <=> Walked(scan', q)
    BY <1>6, TimesSteady DEF Walked
<1>8. \A q : NotYet(q)' <=> NotYet(q)
    BY <1>1, <1>3 DEF NotYet
<1>9. DepartureScan(scan)' <=> DepartureScan(scan')
    BY <1>1, <1>7, <1>8 DEF DepartureScan, Unwalked, NotYet, Walked
<1> QED
    BY <1>2, <1>5, <1>9

\* The inductive invariant of the questions about a departure.
Departing ==
    question.of = "departure" /\ InOrder =>
      IF answer = Open THEN DepartureScan(scan) ELSE IsDeparture(answer[1])

LEMMA PutFirst == Init => Put
<1> SUFFICES ASSUME Init PROVE Put
    OBVIOUS
<1>1. PICK c \in Cases : signal = c.signal /\ question = c.question
    BY DEF Init
<1>2. IsCase(c)
    BY MotionAssumption
<1> QED
    BY <1>1, <1>2 DEF IsCase, Put

LEMMA PutKept ==
    ASSUME Put, Next
    PROVE  Put' /\ signal' = signal /\ question' = question
<1>1. signal' = signal /\ question' = question
    BY DEF Next, AskSample, AskWindow, LeadInStep, DepartureStep, StopStep, MotionStep
<1> QED
    BY <1>1 DEF Put

LEMMA DepartingFirst == Init => Departing
<1> SUFFICES ASSUME Init, question.of = "departure", InOrder PROVE DepartureScan(scan)
    BY DEF Init, Departing
<1>1. Put
    BY PutFirst
<1>2. scan = ScanAt(1)
    BY DEF Init, First
<1>3. scan \in Scans /\ scan.position = 1
    BY <1>2 DEF ScanAt, Scans, Instants, None
<1>4. Unwalked(scan)
    BY <1>2, <1>3 DEF ScanAt, Unwalked
<1>5. \A l \in Asked : ~(l < 1) /\ l # 0
    BY <1>1, AskedTogether DEF Samples
<1>6. 1 \in 1 .. Len(signal.values) + 1
    BY <1>1, SamplesTyped
<1> QED
    BY <1>3, <1>4, <1>5, <1>6 DEF DepartureScan, NotYet

LEMMA DepartingKept ==
    ASSUME Put, Departing, Next
    PROVE  Departing'
<1>1. signal' = signal /\ question' = question
    BY PutKept
<1> SUFFICES ASSUME question.of = "departure", InOrder PROVE Departing'
    BY <1>1, DepartureSteady DEF Departing
<1>2. DepartureStep /\ answer = Open
    BY DEF Next, AskSample, AskWindow, LeadInStep, DepartureStep, StopStep, MotionStep
<1>3. DepartureScan(scan)
    BY <1>2 DEF Departing
<1>4. PICK k \in Nat : k = scan.position /\ k \in 1 .. Len(signal.values) + 1
    BY <1>3 DEF DepartureScan, Scans
<1>5. PICK after : after = AfterSample(scan, TimeOf(k), SpeedOf(k))
    OBVIOUS
<1>6. Left(scan, after) <=> SpeedOf(k) > 0 /\ HalfCruise(SpeedOf(k)) /\ TimeOf(k) - after.fast >= 3 * Second
    BY <1>4 DEF Left
<1>7. \/ answer' = <<None>> /\ IsDeparture(None)
      \/ answer' = Open /\ DepartureScan(scan')
      \/ answer' = <<after.movement>> /\ IsDeparture(after.movement)
    <2>1. CASE k > Len(signal.values)
        BY <1>2, <1>3, <1>4, <2>1, DepartureEnds DEF DepartureStep
    <2>2. CASE ~(k > Len(signal.values)) /\ k \notin Asked
        <3>1. scan.position \in Samples
            BY <1>4, <2>2, SamplesTyped DEF Samples
        <3>2. scan' = [scan EXCEPT !.position = k + 1] /\ answer' = answer
            BY <1>2, <1>4, <2>2 DEF DepartureStep, Asked
        <3> QED
            BY <1>2, <1>3, <1>4, <2>2, <3>1, <3>2, DepartureSkips
    <2>3. CASE ~(k > Len(signal.values)) /\ k \in Asked /\ Left(scan, after)
        <3>1. answer' = <<after.movement>>
            BY <1>2, <1>4, <1>5, <1>6, <2>3 DEF DepartureStep, Asked
        <3> QED
            BY <1>3, <1>4, <1>5, <2>3, <3>1, DepartureFound
    <2>4. CASE ~(k > Len(signal.values)) /\ k \in Asked /\ ~Left(scan, after)
        <3>1. scan' = [after EXCEPT !.position = k + 1] /\ answer' = answer
            BY <1>2, <1>4, <1>5, <1>6, <2>4 DEF DepartureStep, Asked
        <3> QED
            BY <1>2, <1>3, <1>4, <1>5, <2>4, <3>1, DepartureGoesOn
    <2> QED
        BY <2>1, <2>2, <2>3, <2>4
<1>8. IF answer' = Open THEN DepartureScan(scan') ELSE IsDeparture(answer[1]')
    BY <1>7 DEF Open
<1>9. IF (answer = Open)' THEN DepartureScan(scan)' ELSE IsDeparture(answer[1])'
    BY <1>1, <1>8, DepartureSteady DEF Open
<1> QED
    BY <1>9 DEF Departing

LEMMA DepartureWitnessed ==
    ASSUME Departing
    PROVE  DepartureLeavesAStop
BY DEF Departing, DepartureLeavesAStop, IsDeparture, Asked

-----------------------------------------------------------------------------
(* The longest stop: bins of the interval.                                 *)

LEMMA CeilTyped ==
    ASSUME NEW a \in Nat, NEW b \in Nat \ {0}
    PROVE  CeilDiv(a, b) \in Nat
<1>1. PICK x : x = a + b - 1
    OBVIOUS
<1>2. x \in Nat
    BY <1>1
<1>3. x \div b \in Nat
    BY <1>2
<1> QED
    BY <1>1, <1>3 DEF CeilDiv

LEMMA LesserIs ==
    ASSUME NEW x \in Nat, NEW y \in Nat
    PROVE  /\ Min({x, y}) \in Nat /\ Min({x, y}) \in {x, y}
           /\ Min({x, y}) <= x /\ Min({x, y}) <= y
BY MinIs

LEMMA GreaterIs ==
    ASSUME NEW x \in Nat, NEW y \in Nat
    PROVE  /\ Max({x, y}) \in Nat /\ Max({x, y}) \in {x, y}
           /\ x <= Max({x, y}) /\ y <= Max({x, y})
<1>1. {x, y} \in SUBSET (0 .. x + y) /\ {x, y} # {} /\ x + y \in Nat
    OBVIOUS
<1>2. Max({x, y}) \in {x, y} /\ \A z \in {x, y} : z <= Max({x, y})
    BY <1>1, MaxIs
<1> QED
    BY <1>2

\* Bins start later, the later they are, and end somewhere.
LEMMA BinsTyped ==
    ASSUME Put
    PROVE  /\ Bins \in Nat
           /\ \A a \in 1 .. Bins : BinStart(a) \in Nat /\ BinEnd(a) \in Nat
           /\ \A a, b \in 1 .. Bins : a <= b => BinStart(a) <= BinStart(b)
<1>1. PICK end \in Nat : end = IntervalEnd
    BY LesserIs DEF IntervalEnd, Put, IsSignal, Channels
<1>2. PICK from \in Nat : from = question.from
    BY DEF Put
<1>3. CASE end <= from
    BY <1>1, <1>2, <1>3 DEF Bins
<1>4. CASE end > from
    <2>1. PICK length \in Nat : length = end - from
        BY <1>4
    <2>2. CeilDiv(length, MaxProbes) \in Nat /\ Second \in Nat /\ Second > 0
        BY MotionAssumption, CeilTyped
    <2>3. PICK w : w = BinWidth
        OBVIOUS
    <2>4. w \in Nat \ {0}
        <3>1. w = Max({CeilDiv(length, MaxProbes), Second})
            BY <1>1, <1>2, <2>1, <2>3 DEF BinWidth
        <3>2. w \in Nat /\ Second <= w
            BY <2>2, <3>1, GreaterIs
        <3> QED
            BY <2>2, <3>2
    <2>5. Bins \in Nat
        BY <1>1, <1>2, <1>4, <2>1, <2>3, <2>4, CeilTyped DEF Bins
    <2>6. \A a \in Nat : BinStart(a) = from + (a - 1) * w
        BY <1>2, <2>3 DEF BinStart
    <2>7. ASSUME NEW a \in 1 .. Bins PROVE BinStart(a) \in Nat /\ BinEnd(a) \in Nat
        <3>1. a \in Nat /\ a - 1 \in Nat
            BY <2>5
        <3>2. (a - 1) * w \in Nat
            BY <2>4, <3>1
        <3>3. BinStart(a) \in Nat
            BY <2>6, <3>1, <3>2
        <3>4. BinEnd(a) = Min({BinStart(a) + w, end})
            BY <1>1, <2>3 DEF BinEnd
        <3> QED
            BY <2>4, <3>3, <3>4, LesserIs
    <2>8. ASSUME NEW a \in 1 .. Bins, NEW b \in 1 .. Bins, a <= b PROVE BinStart(a) <= BinStart(b)
        <3>1. PICK m \in Nat, n \in Nat : m = a - 1 /\ n = b - a /\ m + n = b - 1
            BY <2>5, <2>8
        <3>2. n * w \in Nat /\ m * w \in Nat /\ (m + n) * w = m * w + n * w
            BY <2>4
        <3>3. a \in Nat /\ b \in Nat
            BY <2>5
        <3>4. BinStart(a) = from + m * w /\ BinStart(b) = from + (m + n) * w
            BY <2>6, <3>1, <3>3
        <3> QED
            BY <3>2, <3>4
    <2> QED
        BY <2>5, <2>7, <2>8
<1> QED
    BY <1>1, <1>2, <1>3, <1>4

LEMMA AfterBinIs ==
    ASSUME NEW s \in Scans, NEW bin, NEW start \in Nat, start = BinStart(bin), NEW end \in Nat, end = BinEnd(bin),
           NEW run, run = IF s.stopped = None THEN start ELSE s.stopped
    PROVE  /\ run \in Nat
           /\ SpeedIn(bin) # 0 =>
                /\ AfterBin(s, bin) \in Scans /\ AfterBin(s, bin).stopped = None
                /\ AfterBin(s, bin).best = s.best /\ AfterBin(s, bin).position = s.position
           /\ SpeedIn(bin) = 0 =>
                /\ AfterBin(s, bin) \in Scans /\ AfterBin(s, bin).stopped = run
                /\ AfterBin(s, bin).position = s.position
                /\ AfterBin(s, bin).best =
                     IF s.best = << >> \/ (s.best # << >> /\ end - run > s.best[2] - s.best[1])
                     THEN <<run, end>> ELSE s.best
<1>1. run \in Nat
    BY DEF Scans, Instants
<1>2. CASE SpeedIn(bin) # 0
    <2>1. AfterBin(s, bin) = [s EXCEPT !.stopped = None]
        BY <1>2 DEF AfterBin
    <2> QED
        BY <1>1, <1>2, <2>1 DEF Scans, Instants
<1>3. CASE SpeedIn(bin) = 0
    <2>1. PICK best : best = IF s.best = << >> \/ (s.best # << >> /\ end - run > s.best[2] - s.best[1])
                             THEN <<run, end>> ELSE s.best
        OBVIOUS
    <2>2. AfterBin(s, bin) = [s EXCEPT !.stopped = run, !.best = best]
        BY <1>3, <2>1 DEF AfterBin
    <2>3. best \in {<< >>} \cup (Nat \X Nat)
        BY <1>1, <2>1 DEF Scans
    <2> QED
        BY <1>1, <1>3, <2>1, <2>2, <2>3 DEF Scans, Instants
<1> QED
    BY <1>1, <1>2, <1>3

\* The stop going on is the whole row of bins up to bin q.
RowSoFar(stopped, q) ==
    IF stopped = None THEN q = 0 \/ SpeedIn(q) # 0
    ELSE \E a \in 1 .. q : Still(a, q) /\ stopped = BinStart(a) /\ (a = 1 \/ SpeedIn(a - 1) # 0)

\* The best stop is the longest of the rows up to bin q.
BestSoFar(best, q) ==
    IF best = << >> THEN \A bin \in 1 .. q : SpeedIn(bin) # 0
    ELSE /\ \E a, b \in 1 .. q : a <= b /\ Still(a, b) /\ best = <<BinStart(a), BinEnd(b)>>
         /\ \A a, b \in 1 .. q : a <= b /\ Still(a, b) => BinEnd(b) - BinStart(a) <= best[2] - best[1]

\* The inductive invariant of the walk over the bins.
StopScan(s) ==
    /\ s \in Scans /\ s.position \in 1 .. Bins + 1
    /\ RowSoFar(s.stopped, s.position - 1) /\ BestSoFar(s.best, s.position - 1)

LEMMA RowGrows ==
    ASSUME Put, NEW q \in 1 .. Bins, NEW stopped, RowSoFar(stopped, q - 1), SpeedIn(q) = 0,
           NEW run, run = IF stopped = None THEN BinStart(q) ELSE stopped
    PROVE  /\ RowSoFar(run, q)
           /\ \E a \in 1 .. q : Still(a, q) /\ run = BinStart(a)
           /\ \A a \in 1 .. q : Still(a, q) => run <= BinStart(a)
<1>1. Bins \in Nat /\ q \in Nat /\ q - 1 \in Nat /\ BinStart(q) \in Nat /\ q \in 1 .. q
    BY BinsTyped
<1>2. PICK a \in 1 .. q : Still(a, q) /\ run = BinStart(a) /\ (a = 1 \/ SpeedIn(a - 1) # 0)
    <2>1. CASE stopped = None
        <3>1. \A bin \in q .. q : bin = q
            BY <1>1
        <3>2. Still(q, q)
            BY <3>1 DEF Still
        <3>3. q = 1 \/ SpeedIn(q - 1) # 0
            BY <1>1, <2>1 DEF RowSoFar
        <3> QED
            BY <1>1, <2>1, <3>2, <3>3
    <2>2. CASE stopped # None
        <3>1. PICK a \in 1 .. (q - 1) : Still(a, q - 1) /\ stopped = BinStart(a) /\ (a = 1 \/ SpeedIn(a - 1) # 0)
            BY <2>2 DEF RowSoFar
        <3>2. a \in 1 .. q /\ \A bin \in a .. q : bin \in a .. (q - 1) \/ bin = q
            BY <1>1
        <3>3. Still(a, q)
            BY <3>1, <3>2 DEF Still
        <3> QED
            BY <2>2, <3>1, <3>2, <3>3
    <2> QED
        BY <2>1, <2>2
<1>3. a \in 1 .. Bins /\ run \in Nat
    BY <1>1, <1>2, BinsTyped
<1>4. RowSoFar(run, q)
    BY <1>2, <1>3 DEF RowSoFar, None
<1>5. ASSUME NEW b \in 1 .. q, Still(b, q) PROVE run <= BinStart(b)
    <2>1. a <= b
        <3> SUFFICES ASSUME b < a PROVE FALSE
            BY <1>1, <1>3
        <3>1. a # 1 /\ a - 1 \in b .. q
            BY <1>1, <1>3
        <3>2. SpeedIn(a - 1) = 0
            BY <1>5, <3>1 DEF Still
        <3> QED
            BY <1>2, <3>1, <3>2
    <2>2. b \in 1 .. Bins
        BY <1>1
    <2> QED
        BY <1>2, <1>3, <2>1, <2>2, BinsTyped
<1> QED
    BY <1>2, <1>4, <1>5

\* Rows up to a bin, of which the last may be new.
LEMMA RowsUpTo ==
    ASSUME NEW q \in Nat, q >= 1, NEW a \in 1 .. q, NEW b \in 1 .. q, a <= b
    PROVE  b = q \/ (a \in 1 .. (q - 1) /\ b \in 1 .. (q - 1))
OBVIOUS

LEMMA BestOfMoving ==
    ASSUME Put, NEW q \in 1 .. Bins, NEW best, BestSoFar(best, q - 1), SpeedIn(q) # 0
    PROVE  BestSoFar(best, q)
<1>1. q \in Nat /\ q >= 1 /\ 1 .. (q - 1) \subseteq 1 .. q /\ \A bin \in 1 .. q : bin = q \/ bin \in 1 .. (q - 1)
    BY BinsTyped
<1>2. \A a \in 1 .. q : ~Still(a, q)
    <2>1. \A a \in 1 .. q : q \in a .. q
        BY <1>1
    <2> QED
        BY <2>1 DEF Still
<1>3. CASE best = << >>
    BY <1>1, <1>3 DEF BestSoFar
<1>4. CASE best # << >>
    <2>1. ASSUME NEW a \in 1 .. q, NEW b \in 1 .. q, a <= b, Still(a, b)
          PROVE  BinEnd(b) - BinStart(a) <= best[2] - best[1]
        <3>1. a \in 1 .. (q - 1) /\ b \in 1 .. (q - 1)
            BY <1>1, <1>2, <2>1, RowsUpTo
        <3> QED
            BY <1>4, <2>1, <3>1 DEF BestSoFar
    <2>2. \E a, b \in 1 .. q : a <= b /\ Still(a, b) /\ best = <<BinStart(a), BinEnd(b)>>
        BY <1>1, <1>4 DEF BestSoFar
    <2> QED
        BY <1>4, <2>1, <2>2 DEF BestSoFar
<1> QED
    BY <1>3, <1>4

LEMMA BestOfStill ==
    ASSUME Put, NEW q \in 1 .. Bins, NEW best \in {<< >>} \cup (Nat \X Nat), BestSoFar(best, q - 1), SpeedIn(q) = 0,
           NEW run \in Nat, \E a \in 1 .. q : Still(a, q) /\ run = BinStart(a),
           \A a \in 1 .. q : Still(a, q) => run <= BinStart(a), NEW end, end = BinEnd(q),
           NEW new, new = IF best = << >> \/ (best # << >> /\ end - run > best[2] - best[1])
                          THEN <<run, end>> ELSE best
    PROVE  BestSoFar(new, q)
<1>1. q \in Nat /\ q >= 1 /\ 1 .. (q - 1) \subseteq 1 .. q /\ q \in 1 .. q /\ Bins \in Nat
    BY BinsTyped
<1>2. end \in Nat /\ \A a \in 1 .. q : BinStart(a) \in Nat /\ BinEnd(a) \in Nat
    BY <1>1, BinsTyped
<1>3. ASSUME NEW a \in 1 .. q, Still(a, q) PROVE BinEnd(q) - BinStart(a) <= end - run
    <2>1. BinStart(a) \in Nat /\ run <= BinStart(a)
        BY <1>2, <1>3
    <2> QED
        BY <1>2, <2>1
<1>4. PICK first \in 1 .. q : Still(first, q) /\ run = BinStart(first) /\ first <= q
    BY <1>1
<1>5. CASE best = << >>
    <2>1. new = <<run, end>> /\ new # << >> /\ new[1] = run /\ new[2] = end
        BY <1>5
    <2>2. ASSUME NEW a \in 1 .. q, NEW b \in 1 .. q, a <= b, Still(a, b)
          PROVE  BinEnd(b) - BinStart(a) <= end - run
        <3>1. b \in 1 .. (q - 1) => SpeedIn(b) # 0
            BY <1>5 DEF BestSoFar
        <3>2. b \in a .. b
            BY <1>1, <2>2
        <3>3. SpeedIn(b) = 0
            BY <2>2, <3>2 DEF Still
        <3>4. b = q
            BY <1>1, <3>1, <3>3, <2>2, RowsUpTo
        <3> QED
            BY <1>3, <2>2, <3>4
    <2> QED
        BY <1>1, <1>4, <2>1, <2>2 DEF BestSoFar
<1>6. CASE best # << >>
    <2>1. PICK x \in Nat, y \in Nat : best = <<x, y>> /\ best[1] = x /\ best[2] = y
        BY <1>6
    <2>2. ASSUME NEW a \in 1 .. q, NEW b \in 1 .. q, a <= b, Still(a, b)
          PROVE  BinEnd(b) - BinStart(a) <= IF b = q THEN end - run ELSE y - x
        <3>1. CASE b = q
            BY <1>3, <2>2, <3>1
        <3>2. CASE b # q
            <4>1. a \in 1 .. (q - 1) /\ b \in 1 .. (q - 1)
                BY <1>1, <2>2, <3>2, RowsUpTo
            <4> QED
                BY <1>6, <2>1, <2>2, <3>2, <4>1 DEF BestSoFar
        <3> QED
            BY <3>1, <3>2
    <2>3. CASE end - run > y - x
        <3>1. new = <<run, end>> /\ new # << >> /\ new[1] = run /\ new[2] = end
            BY <1>6, <2>1, <2>3
        <3>2. ASSUME NEW a \in 1 .. q, NEW b \in 1 .. q, a <= b, Still(a, b)
              PROVE  BinEnd(b) - BinStart(a) <= end - run
            <4>1. PICK d \in Int : d = BinEnd(b) - BinStart(a)
                BY <1>2
            <4>2. d <= end - run \/ d <= y - x
                BY <2>2, <3>2, <4>1
            <4>3. d <= end - run
                BY <1>2, <2>3, <4>2
            <4> QED
                BY <4>1, <4>3
        <3> QED
            BY <1>1, <1>4, <3>1, <3>2 DEF BestSoFar
    <2>4. CASE ~(end - run > y - x)
        <3>1. new = best
            BY <1>6, <2>1, <2>4
        <3>2. ASSUME NEW a \in 1 .. q, NEW b \in 1 .. q, a <= b, Still(a, b)
              PROVE  BinEnd(b) - BinStart(a) <= best[2] - best[1]
            <4>1. PICK d \in Int : d = BinEnd(b) - BinStart(a)
                BY <1>2
            <4>2. d <= end - run \/ d <= y - x
                BY <2>2, <3>2, <4>1
            <4>3. d <= y - x
                BY <1>2, <2>4, <4>2
            <4> QED
                BY <2>1, <4>1, <4>3
        <3>3. \E a, b \in 1 .. q : a <= b /\ Still(a, b) /\ best = <<BinStart(a), BinEnd(b)>>
            BY <1>1, <1>6 DEF BestSoFar
        <3> QED
            BY <1>6, <3>1, <3>2, <3>3 DEF BestSoFar
    <2> QED
        BY <2>3, <2>4
<1> QED
    BY <1>5, <1>6

\* One more bin.
LEMMA StopGoesOn ==
    ASSUME Put, NEW s, StopScan(s), s.position <= Bins
    PROVE  StopScan([AfterBin(s, s.position) EXCEPT !.position = s.position + 1])
<1>1. PICK q \in 1 .. Bins : q = s.position
    BY BinsTyped DEF StopScan
<1>2. q \in Nat /\ Bins \in Nat /\ q + 1 \in Nat /\ q + 1 \in 1 .. Bins + 1 /\ (q + 1) - 1 = q
    BY BinsTyped
<1>3. PICK start \in Nat, end \in Nat : start = BinStart(q) /\ end = BinEnd(q)
    BY BinsTyped
<1>4. PICK run : run = IF s.stopped = None THEN start ELSE s.stopped
    OBVIOUS
<1>5. PICK r : r = AfterBin(s, q)
    OBVIOUS
<1>6. s \in Scans /\ RowSoFar(s.stopped, q - 1) /\ BestSoFar(s.best, q - 1)
    BY <1>1 DEF StopScan
<1>7. r \in Scans /\ RowSoFar(r.stopped, q) /\ BestSoFar(r.best, q)
    <2>1. CASE SpeedIn(q) # 0
        <3>1. r \in Scans /\ r.stopped = None /\ r.best = s.best
            BY <1>3, <1>4, <1>5, <1>6, <2>1, AfterBinIs
        <3> QED
            BY <1>6, <2>1, <3>1, BestOfMoving DEF RowSoFar
    <2>2. CASE SpeedIn(q) = 0
        <3>1. /\ r \in Scans /\ run \in Nat /\ r.stopped = run
              /\ r.best = IF s.best = << >> \/ (s.best # << >> /\ end - run > s.best[2] - s.best[1])
                          THEN <<run, end>> ELSE s.best
            BY <1>3, <1>4, <1>5, <1>6, <2>2, AfterBinIs
        <3>2. /\ RowSoFar(run, q)
              /\ \E a \in 1 .. q : Still(a, q) /\ run = BinStart(a)
              /\ \A a \in 1 .. q : Still(a, q) => run <= BinStart(a)
            BY <1>3, <1>4, <1>6, <2>2, RowGrows
        <3>3. s.best \in {<< >>} \cup (Nat \X Nat)
            BY <1>6 DEF Scans
        <3>4. BestSoFar(r.best, q)
            <4> PICK best \in {<< >>} \cup (Nat \X Nat) : best = s.best
                BY <3>3
            <4> PICK new : new = r.best
                OBVIOUS
            <4>1. new = IF best = << >> \/ (best # << >> /\ end - run > best[2] - best[1])
                        THEN <<run, end>> ELSE best
                BY <3>1, Zenon
            <4>2. BestSoFar(best, q - 1) /\ run \in Nat /\ end = BinEnd(q)
                BY <1>3, <1>6, <3>1, Zenon
            <4>3. /\ \E a \in 1 .. q : Still(a, q) /\ run = BinStart(a)
                  /\ \A a \in 1 .. q : Still(a, q) => run <= BinStart(a)
                BY <3>2, Zenon
            <4> QED
                BY <2>2, <4>1, <4>2, <4>3, BestOfStill
        <3> QED
            BY <3>1, <3>2, <3>4
    <2> QED
        BY <2>1, <2>2
<1>8. PICK t : t = [r EXCEPT !.position = q + 1]
    OBVIOUS
<1>9. t \in Scans /\ t.position = q + 1 /\ t.stopped = r.stopped /\ t.best = r.best
    BY <1>2, <1>7, <1>8 DEF Scans
<1> QED
    BY <1>1, <1>2, <1>5, <1>7, <1>8, <1>9 DEF StopScan

\* What is said of an answer.
IsLongestStop(best) ==
    IF best = << >> THEN \A bin \in 1 .. Bins : SpeedIn(bin) # 0
    ELSE /\ \E a, b \in 1 .. Bins : a <= b /\ Still(a, b) /\ best = <<BinStart(a), BinEnd(b)>>
         /\ \A a, b \in 1 .. Bins : a <= b /\ Still(a, b) => BinEnd(b) - BinStart(a) <= best[2] - best[1]

\* The inductive invariant of the questions about the longest stop.
Stopping ==
    question.of = "stop" => IF answer = Open THEN StopScan(scan) ELSE IsLongestStop(answer[1])

LEMMA StopSteady ==
    ASSUME signal' = signal, question' = question
    PROVE  /\ StopScan(scan)' <=> StopScan(scan')
           /\ IsLongestStop(answer[1])' <=> IsLongestStop(answer[1]')
<1>1. IntervalEnd' = IntervalEnd
    BY DEF IntervalEnd
<1>2. BinWidth' = BinWidth
    BY <1>1 DEF BinWidth
<1>3. Bins' = Bins /\ \A bin : BinStart(bin)' = BinStart(bin) /\ BinEnd(bin)' = BinEnd(bin)
    BY <1>1, <1>2 DEF Bins, BinStart, BinEnd
<1>4. \A bin : Probe(bin)' = Probe(bin)
    BY <1>3 DEF Probe
<1>5. MaxAge' = MaxAge
    BY DEF MaxAge
<1>6. \A time : Stale(time)' <=> Stale(time)
    BY <1>5 DEF Stale
<1>7. \A bin : SpeedIn(bin)' = SpeedIn(bin)
    BY <1>4, <1>6 DEF SpeedIn
<1>8. \A a, b : Still(a, b)' <=> Still(a, b)
    BY <1>7 DEF Still
<1> QED
    BY <1>3, <1>7, <1>8 DEF StopScan, RowSoFar, BestSoFar, IsLongestStop

LEMMA StoppingFirst == Init => Stopping
<1> SUFFICES ASSUME Init, question.of = "stop" PROVE StopScan(scan)
    BY DEF Init, Stopping
<1>1. Put
    BY PutFirst
<1>2. scan = ScanAt(1)
    BY DEF Init, First
<1>3. scan \in Scans /\ scan.position = 1 /\ scan.stopped = None /\ scan.best = << >>
    BY <1>2 DEF ScanAt, Scans, Instants, None
<1>4. 1 \in 1 .. Bins + 1
    BY <1>1, BinsTyped
<1> QED
    BY <1>3, <1>4 DEF StopScan, RowSoFar, BestSoFar

LEMMA StoppingKept ==
    ASSUME Put, Stopping, Next
    PROVE  Stopping'
<1>1. signal' = signal /\ question' = question
    BY PutKept
<1> SUFFICES ASSUME question.of = "stop" PROVE Stopping'
    BY <1>1 DEF Stopping
<1>2. StopStep /\ answer = Open
    BY DEF Next, AskSample, AskWindow, LeadInStep, DepartureStep, StopStep, MotionStep
<1>3. StopScan(scan)
    BY <1>2 DEF Stopping
<1>4. \/ answer' = <<scan.best>> /\ IsLongestStop(scan.best)
      \/ answer' = Open /\ StopScan(scan')
    <2>1. CASE scan.position > Bins
        <3>1. scan.position - 1 = Bins
            BY <1>3, <2>1, BinsTyped DEF StopScan
        <3>2. IsLongestStop(scan.best)
            BY <1>3, <3>1 DEF StopScan, BestSoFar, IsLongestStop
        <3> QED
            BY <1>2, <2>1, <3>2 DEF StopStep
    <2>2. CASE ~(scan.position > Bins)
        <3>1. PICK r : r = AfterBin(scan, scan.position)
            OBVIOUS
        <3>2. r.position = scan.position
            <4>1. PICK q \in 1 .. Bins : q = scan.position
                BY <1>3, <2>2, BinsTyped DEF StopScan
            <4>2. BinStart(q) \in Nat /\ BinEnd(q) \in Nat /\ scan \in Scans
                BY <1>3, BinsTyped DEF StopScan
            <4> QED
                BY <3>1, <4>1, <4>2, AfterBinIs
        <3>3. scan' = [r EXCEPT !.position = r.position + 1] /\ answer' = answer
            BY <1>2, <2>2, <3>1 DEF StopStep
        <3>4. scan.position <= Bins
            BY <1>3, <2>2, BinsTyped DEF StopScan
        <3> QED
            BY <1>2, <1>3, <3>1, <3>2, <3>3, <3>4, StopGoesOn
    <2> QED
        BY <2>1, <2>2
<1>5. IF (answer = Open)' THEN StopScan(scan)' ELSE IsLongestStop(answer[1])'
    BY <1>1, <1>4, StopSteady DEF Open
<1> QED
    BY <1>5 DEF Stopping

LEMMA StopWitnessed ==
    ASSUME Stopping
    PROVE  StopIsLongest
BY DEF Stopping, StopIsLongest, IsLongestStop

-----------------------------------------------------------------------------
(* Which sample holds at a time.                                           *)

LEMMA DivIs ==
    ASSUME NEW a \in Nat, NEW b \in Nat \ {0}
    PROVE  \E q \in Nat : q = a \div b /\ q * b <= a /\ a < (q + 1) * b
OBVIOUS

LEMMA TimesGrow ==
    ASSUME NEW m \in Nat, NEW n \in Nat, m <= n, NEW p \in Nat
    PROVE  m * p \in Nat /\ n * p \in Nat /\ m * p <= n * p
<1>1. PICK d \in Nat : n = m + d
    <2>1. n = m + (n - m) /\ n - m \in Nat
        OBVIOUS
    <2> QED
        BY <2>1
<1>2. (m + d) * p = m * p + d * p /\ d * p \in Nat /\ m * p \in Nat
    OBVIOUS
<1> QED
    BY <1>1, <1>2

\* The time of a sample by its place.
LEMMA TimeAtPlace ==
    ASSUME Put, NEW k, NEW c, NEW l, IsPlace(signal, k, c, l)
    PROVE  /\ signal.explicit => TimeOf(k) = signal.stamps[k]
           /\ ~signal.explicit => TimeOf(k) = signal.chunks[c].at + (l - 1) * signal.chunks[c].period
<1>1. ChunkForGlobal(signal, k) = <<c, l>>
    BY PlaceIsFound DEF Put
<1>2. TimeOf(k) = SampleTime(signal, c, l)
    BY <1>1 DEF TimeOf
<1> QED
    BY <1>2 DEF SampleTime, GridTime, IsPlace

\* The chunk that has started last.
Started(channel, time) == CountUpTo([i \in DOMAIN channel.chunks |-> channel.chunks[i].at], time)

LEMMA StartedLast ==
    ASSUME NEW channel, IsSignal(channel), NEW time \in Nat
    PROVE  /\ Started(channel, time) \in 0 .. Len(channel.chunks)
           /\ \A d \in 1 .. Len(channel.chunks) : channel.chunks[d].at <= time <=> d <= Started(channel, time)
<1>1. PICK n \in Nat : n = Len(channel.chunks) /\ DOMAIN channel.chunks = 1 .. n
    BY LaidOut DEF IsSignal, Channels
<1>2. PICK keys : keys = [i \in DOMAIN channel.chunks |-> channel.chunks[i].at]
    OBVIOUS
<1>3. DOMAIN keys = 1 .. n /\ \A i \in 1 .. n : keys[i] = channel.chunks[i].at
    BY <1>1, <1>2
<1>4. \A i \in 1 .. n : keys[i] \in Nat
    BY <1>1, <1>3, LaidOut
<1>5. \A i, j \in 1 .. n : i <= j => keys[i] <= keys[j]
    BY <1>1, <1>3, LaidOut
<1>6. AscendingKeys(keys, n)
    BY <1>3, <1>4, <1>5 DEF AscendingKeys
<1>7. CountUpTo(keys, time) \in 0 .. n /\ \A i \in 1 .. n : keys[i] <= time <=> i <= CountUpTo(keys, time)
    BY <1>6, CountOfAscending
<1>8. Started(channel, time) = CountUpTo(keys, time)
    BY <1>2 DEF Started
<1> QED
    BY <1>1, <1>3, <1>7, <1>8

\* Samples behind one of a later chunk are of a later chunk or later in it.
LEMMA PlacesAscend ==
    ASSUME NEW channel, IsSignal(channel), NEW k, NEW c, NEW l, IsPlace(channel, k, c, l),
           NEW d \in 1 .. Len(channel.chunks), NEW m \in 0 .. channel.chunks[d].count,
           k > SampleBase(channel, d) + m
    PROVE  d < c \/ (d = c /\ m < l)
<1>1. c \in 1 .. Len(channel.chunks) /\ l \in 1 .. channel.chunks[c].count /\ k = SampleBase(channel, c) + l
    BY DEF IsPlace
<1>2. /\ SampleBase(channel, c) \in Nat /\ SampleBase(channel, d) \in Nat
      /\ channel.chunks[c].count \in Nat /\ channel.chunks[d].count \in Nat /\ Len(channel.chunks) \in Nat
    BY <1>1, BaseIs, LaidOut
<1>3. c < d => SampleBase(channel, c) + channel.chunks[c].count <= SampleBase(channel, d)
    BY <1>1, BasesAscend
<1>4. PICK x \in Nat, y \in Nat, n \in Nat : x = SampleBase(channel, c) /\ y = SampleBase(channel, d) /\ n = channel.chunks[c].count
    BY <1>2
<1>5. l \in Nat /\ l <= n /\ m \in Nat /\ c \in Nat /\ d \in Nat
    BY <1>1, <1>2, <1>4
<1>6. x + l > y + m /\ (c < d => x + n <= y)
    BY <1>1, <1>3, <1>4
<1>7. ASSUME c < d PROVE FALSE
    <2>1. x + n <= y
        BY <1>6, <1>7
    <2> QED
        BY <1>5, <1>6, <2>1
<1>8. ASSUME c = d PROVE m < l
    <2>1. x = y
        BY <1>4, <1>8
    <2> QED
        BY <1>4, <1>5, <1>6, <2>1
<1> QED
    BY <1>5, <1>7, <1>8

\* Samples behind the one that holds are later.
LEMMA LastSampleIs ==
    ASSUME Put, NEW time \in Nat
    PROVE  /\ LastSample(time) \in 0 .. Len(signal.values)
           /\ LastSample(time) = 0 \/ \A k \in Samples : k > LastSample(time) => TimeOf(k) > time
<1>1. IsSignal(signal) /\ Len(signal.values) \in Nat
    BY SamplesTyped DEF Put
<1>2. CASE signal.explicit
    <2>1. PICK n \in Nat : n = Len(signal.values)
        BY <1>1
    <2>2. signal.stamps \in Seq(Nat) /\ Len(signal.stamps) = n /\ \A k \in 2 .. n : signal.stamps[k] >= signal.stamps[k - 1]
        BY <1>1, <1>2, <2>1 DEF IsSignal, Channels
    <2>3. PICK x : x = signal.stamps
        OBVIOUS
    <2>4. DOMAIN x = 1 .. n /\ x \in [1 .. n -> Nat]
        BY <2>2, <2>3
    <2>5. \A k \in 2 .. n : x[k - 1] <= x[k]
        <3> SUFFICES ASSUME NEW k \in 2 .. n PROVE x[k - 1] <= x[k]
            OBVIOUS
        <3>1. k \in 1 .. n /\ k - 1 \in 1 .. n
            BY <2>1
        <3>2. x[k] \in Nat /\ x[k - 1] \in Nat /\ x[k] >= x[k - 1]
            BY <2>2, <2>3, <2>4, <3>1
        <3> QED
            BY <3>2
    <2>6. \A i, j \in 1 .. n : i <= j => x[i] <= x[j]
        BY <2>1, <2>4, <2>5, StepsAscend
    <2>7. CountUpTo(x, time) \in 0 .. n /\ \A i \in 1 .. n : x[i] <= time <=> i <= CountUpTo(x, time)
        <3>1. AscendingKeys(x, n)
            BY <2>4, <2>6 DEF AscendingKeys
        <3> QED
            BY <2>1, <3>1, CountOfAscending
    <2>8. LastSample(time) = CountUpTo(x, time)
        BY <1>2, <2>3 DEF LastSample
    <2>9. ASSUME NEW k \in Samples, k > LastSample(time) PROVE TimeOf(k) > time
        <3>1. k \in 1 .. n /\ x[k] \in Nat
            BY <2>1, <2>4, <2>9 DEF Samples
        <3>2. ~(k <= CountUpTo(x, time))
            BY <2>7, <2>8, <2>9, <3>1
        <3>3. TimeOf(k) = x[k]
            <4>1. PICK c, l : IsPlace(signal, k, c, l)
                BY <1>1, <2>1, <3>1, SampleHasPlace
            <4> QED
                BY <1>2, <2>3, <4>1, TimeAtPlace
        <3> QED
            BY <2>7, <3>1, <3>2, <3>3
    <2> QED
        BY <2>1, <2>7, <2>8, <2>9
<1>3. CASE ~signal.explicit
    <2>1. PICK c : c = Started(signal, time)
        OBVIOUS
    <2>2. c \in 0 .. Len(signal.chunks) /\ \A d \in 1 .. Len(signal.chunks) : signal.chunks[d].at <= time <=> d <= c
        BY <1>1, <2>1, StartedLast
    <2>3. CASE c = 0 \/ signal.chunks[c].period = 0 \/ signal.chunks[c].count = 0
        <3>1. LastSample(time) = 0
            BY <1>3, <2>1, <2>3 DEF LastSample, Started
        <3> QED
            BY <1>1, <3>1
    <2>4. CASE ~(c = 0 \/ signal.chunks[c].period = 0 \/ signal.chunks[c].count = 0)
        <3>1. c \in 1 .. Len(signal.chunks) /\ Len(signal.chunks) \in Nat /\ c \in Nat
            BY <1>1, <2>2, <2>4, LaidOut
        <3>2. PICK at \in Nat, period \in Nat \ {0}, count \in Nat \ {0}, base \in Nat :
                  /\ at = signal.chunks[c].at /\ period = signal.chunks[c].period
                  /\ count = signal.chunks[c].count /\ base = SampleBase(signal, c)
            BY <1>1, <2>4, <3>1, LaidOut, BaseIs
        <3>3. at <= time /\ time - at \in Nat
            BY <2>2, <3>1, <3>2
        <3>4. PICK q \in Nat : q = (time - at) \div period /\ q * period <= time - at /\ time - at < (q + 1) * period
            BY <3>2, <3>3, DivIs
        <3>5. PICK l \in Nat : l = Min({q + 1, count}) /\ l <= q + 1 /\ l <= count /\ l \in {q + 1, count}
            BY LesserIs
        <3>6. LastSample(time) = base + l
            BY <1>3, <2>1, <2>4, <3>2, <3>4, <3>5 DEF LastSample, Started
        <3>7. IsPlace(signal, base + l, c, l)
            BY <3>1, <3>2, <3>5 DEF IsPlace
        <3>8. base + l \in 1 .. Len(signal.values)
            BY <1>1, <3>7, PlaceIsSample
        <3>9. ASSUME NEW k \in Samples, k > base + l PROVE TimeOf(k) > time
            <4>1. PICK d, m : IsPlace(signal, k, d, m)
                BY <1>1, SampleHasPlace DEF Samples
            <4>2. d \in 1 .. Len(signal.chunks) /\ m \in 1 .. signal.chunks[d].count
                BY <4>1 DEF IsPlace
            <4>3. signal.chunks[d].at \in Nat /\ signal.chunks[d].period \in Nat /\ signal.chunks[d].count \in Nat
                BY <1>1, <4>2, LaidOut
            <4>4. TimeOf(k) = signal.chunks[d].at + (m - 1) * signal.chunks[d].period
                BY <1>3, <4>1, TimeAtPlace
            <4>5. l \in 0 .. signal.chunks[c].count
                BY <3>2, <3>5
            <4>6. c < d \/ (c = d /\ l < m)
                BY <1>1, <3>1, <3>2, <3>9, <4>1, <4>5, PlacesAscend
            <4>7. m - 1 \in Nat /\ m \in Nat
                BY <4>2, <4>3
            <4>8. CASE c < d
                <5>1. ~(signal.chunks[d].at <= time)
                    BY <2>2, <3>1, <4>2, <4>8
                <5>2. (m - 1) * signal.chunks[d].period \in Nat
                    BY <4>3, <4>7
                <5> QED
                    BY <4>3, <4>4, <5>1, <5>2
            <4>9. CASE c = d /\ l < m
                <5>1. m <= count /\ TimeOf(k) = at + (m - 1) * period
                    BY <3>2, <4>2, <4>4, <4>9
                <5>2. q + 1 <= m - 1
                    BY <3>5, <4>7, <4>9, <5>1
                <5>3. PICK x \in Nat, y \in Nat : x = (q + 1) * period /\ y = (m - 1) * period /\ x <= y
                    BY <3>2, <4>7, <5>2, TimesGrow
                <5> QED
                    BY <3>3, <3>4, <5>1, <5>3
            <4> QED
                BY <4>6, <4>8, <4>9
        <3> QED
            BY <3>6, <3>8, <3>9
    <2> QED
        BY <2>3, <2>4
<1> QED
    BY <1>2, <1>3

-----------------------------------------------------------------------------
(* Lead-ins: backwards from the sample that holds.                         *)

LEMMA CoverageTyped ==
    ASSUME Put, NEW k \in Samples
    PROVE  Coverage(k) \in Nat
<1>1. PICK c, l : IsPlace(signal, k, c, l)
    BY SampleHasPlace DEF Put, Samples
<1>2. ChunkForGlobal(signal, k) = <<c, l>>
    BY <1>1, PlaceIsFound DEF Put
<1>3. signal.chunks[c].period \in Nat
    BY <1>1, LaidOut DEF Put, IsPlace
<1>4. PICK period \in Nat : period = signal.chunks[ChunkForGlobal(signal, k)[1]].period
    BY <1>2, <1>3
<1>5. 2 * period \in Nat /\ Second \in Nat
    BY MotionAssumption
<1>6. Min({2 * period, Second}) \in Nat
    BY <1>5, LesserIs
<1> QED
    BY <1>4, <1>6 DEF Coverage

\* A sample between the front of the lead-in and an instant speaks for it.
Covered(k, front, time) == front <= TimeOf(k) /\ TimeOf(k) <= time /\ time <= TimeOf(k) + Coverage(k)

\* All of a lead-in behind sample p is seen standing.
LeadSeen(p, front) ==
    /\ \A m \in Samples : m > p => TimeOf(m) > question.to \/ (SpeedOf(m) = 0 /\ TimeOf(m) >= front)
    /\ front < question.to =>
         /\ \E j \in Samples : j > p /\ TimeOf(j) = front
         /\ \A time \in front .. question.to : \E k \in Samples : k > p /\ Covered(k, front, time)

\* The inductive invariant of the walk back.
LeadScan(s) ==
    /\ s \in Scans /\ s.position \in 0 .. Len(signal.values)
    /\ s.stopped \in Nat /\ s.stopped <= question.to
    /\ (s.position = 0 /\ s.stopped = question.to) \/ LeadSeen(s.position, s.stopped)

\* What is said of an answer.
IsLeadIn(front) ==
    LET samples == {k \in Samples : TimeOf(k) >= front /\ TimeOf(k) <= question.to}
    IN  /\ samples # {} /\ TimeOf(Min(samples)) = front
        /\ \A k \in samples : SpeedOf(k) = 0
        /\ \A time \in front .. question.to :
             \E k \in samples : TimeOf(k) <= time /\ time <= TimeOf(k) + Coverage(k)
        /\ ~MovingBefore(question.to, question.to - front)

\* Samples later than the interval are passed over.
LEMMA LeadSkips ==
    ASSUME Put, InOrder, NEW s, LeadScan(s), s.position # 0, TimeOf(s.position) > question.to
    PROVE  LeadScan([s EXCEPT !.position = s.position - 1])
<1>1. PICK p \in Samples : p = s.position /\ p - 1 \in 0 .. Len(signal.values) /\ p \in Nat /\ p - 1 \in Nat
    BY SamplesTyped DEF LeadScan, Samples
<1>2. PICK t : t = [s EXCEPT !.position = p - 1]
    OBVIOUS
<1>3. t \in Scans /\ t.position = p - 1 /\ t.stopped = s.stopped
    BY <1>1, <1>2, PositionIs DEF LeadScan
<1>4. LeadSeen(p, s.stopped)
    BY <1>1 DEF LeadScan
<1>5. \A m \in Samples : m \in Nat /\ (m > p - 1 => m = p \/ m > p) /\ (m > p => m > p - 1)
    BY <1>1 DEF Samples
<1>6. LeadSeen(p - 1, s.stopped)
    BY <1>1, <1>4, <1>5 DEF LeadSeen
<1> QED
    BY <1>1, <1>2, <1>3, <1>6 DEF LeadScan

\* A sample that stands joins the lead-in.
LEMMA LeadGrows ==
    ASSUME Put, InOrder, NEW s, LeadScan(s), s.position # 0, TimeOf(s.position) <= s.stopped,
           StandsTo(s.position, s.stopped)
    PROVE  LeadScan([s EXCEPT !.stopped = TimeOf(s.position), !.position = s.position - 1])
<1>1. PICK p \in Samples : p = s.position /\ p - 1 \in 0 .. Len(signal.values) /\ p \in Nat /\ p - 1 \in Nat
    BY SamplesTyped DEF LeadScan, Samples
<1>2. PICK x \in Nat, old \in Nat, to \in Nat, cover \in Nat, duration \in Nat :
          /\ x = TimeOf(p) /\ old = s.stopped /\ to = question.to /\ cover = Coverage(p) /\ duration = signal.duration
    BY <1>1, SamplesTyped, CoverageTyped DEF LeadScan, Put, IsSignal, Channels
<1>3. x <= old /\ old <= to /\ SpeedOf(p) = 0
    BY <1>1, <1>2 DEF LeadScan, StandsTo
<1>4. old <= x + cover
    <2>1. x + cover \in Nat
        OBVIOUS
    <2>2. PICK y \in Nat : y = Min({x + cover, duration}) /\ y <= x + cover
        BY <2>1, LesserIs
    <2>3. y >= old
        BY <1>1, <1>2, <2>2 DEF StandsTo
    <2> QED
        BY <2>1, <2>2, <2>3
<1>5. PICK t : t = [s EXCEPT !.stopped = x, !.position = p - 1]
    OBVIOUS
<1>6. t \in Scans /\ t.position = p - 1 /\ t.stopped = x
    BY <1>1, <1>5 DEF LeadScan, Scans, Instants
<1>7. LeadSeen(p, old)
    BY <1>1, <1>2 DEF LeadScan
<1>8. \A m \in Samples : m \in Nat /\ TimeOf(m) \in Nat /\ (m > p - 1 => m = p \/ m > p) /\ (m > p => m > p - 1)
    BY <1>1, SamplesTyped DEF Samples
<1>9. ASSUME NEW m \in Samples, m > p - 1 PROVE TimeOf(m) > to \/ (SpeedOf(m) = 0 /\ TimeOf(m) >= x)
    <2>1. CASE m = p
        BY <1>2, <1>3, <2>1
    <2>2. CASE m > p
        <3>1. TimeOf(m) > to \/ (SpeedOf(m) = 0 /\ TimeOf(m) >= old)
            BY <1>2, <1>7, <2>2 DEF LeadSeen
        <3> QED
            BY <1>3, <1>8, <3>1
    <2> QED
        BY <1>8, <1>9, <2>1, <2>2
<1>10. \E j \in Samples : j > p - 1 /\ TimeOf(j) = x
    BY <1>1, <1>2
<1>11. ASSUME NEW time \in x .. to PROVE \E k \in Samples : k > p - 1 /\ Covered(k, x, time)
    <2>1. time \in Nat /\ x <= time /\ time <= to
        OBVIOUS
    <2>2. CASE time <= old
        <3>1. time <= x + cover
            BY <1>4, <2>1, <2>2
        <3>2. Covered(p, x, time)
            BY <1>2, <2>1, <3>1 DEF Covered
        <3> QED
            BY <1>1, <3>2
    <2>3. CASE old < time
        <3>1. old < to /\ time \in old .. to
            BY <2>1, <2>3
        <3>2. PICK k \in Samples : k > p /\ Covered(k, old, time)
            BY <1>2, <1>7, <3>1 DEF LeadSeen
        <3>3. TimeOf(k) \in Nat /\ k > p - 1
            BY <1>8, <3>2
        <3>4. Covered(k, x, time)
            BY <1>3, <3>2, <3>3 DEF Covered
        <3> QED
            BY <3>3, <3>4
    <2> QED
        BY <2>1, <2>2, <2>3
<1>12. LeadSeen(p - 1, x)
    BY <1>2, <1>9, <1>10, <1>11 DEF LeadSeen
<1> QED
    BY <1>1, <1>2, <1>3, <1>5, <1>6, <1>12 DEF LeadScan

\* What is seen of a lead-in that ends before the instant is all there is.
LEMMA LeadFound ==
    ASSUME Put, InOrder, NEW s, LeadScan(s), s.stopped < question.to
    PROVE  IsLeadIn(s.stopped)
<1>1. PICK p \in Nat, front \in Nat, to \in Nat : p = s.position /\ front = s.stopped /\ to = question.to
    BY DEF LeadScan, Put
<1>2. front < to /\ LeadSeen(p, front)
    BY <1>1 DEF LeadScan
<1> DEFINE samples == {k \in Samples : TimeOf(k) >= front /\ TimeOf(k) <= to}
<1>3. PICK j \in Samples : j > p /\ TimeOf(j) = front
    BY <1>1, <1>2 DEF LeadSeen
<1>4. \A k \in Samples : k \in Nat /\ TimeOf(k) \in Nat
    BY SamplesTyped DEF Samples
<1>5. j \in samples /\ samples \in SUBSET Nat
    BY <1>1, <1>2, <1>3, <1>4
<1>6. \A k \in samples : k > p
    <2> SUFFICES ASSUME NEW k \in samples, k <= p PROVE FALSE
        BY <1>4
    <2>1. k \in Samples /\ k < j /\ TimeOf(k) >= front
        BY <1>3, <1>4
    <2>2. TimeOf(k) < TimeOf(j)
        BY <2>1, TimesAscend
    <2> QED
        BY <1>3, <1>4, <2>1, <2>2
<1>7. TimeOf(Min(samples)) = front
    <2>1. PICK m : m = Min(samples)
        OBVIOUS
    <2>2. m \in samples /\ m <= j
        BY <1>5, <2>1, MinIs
    <2>3. m \in Samples /\ TimeOf(m) >= front
        BY <2>2
    <2>4. TimeOf(m) <= TimeOf(j)
        BY <2>2, <2>3, TimesAscend
    <2> QED
        BY <1>3, <1>4, <2>1, <2>3, <2>4
<1>8. \A k \in samples : SpeedOf(k) = 0
    <2> SUFFICES ASSUME NEW k \in samples PROVE SpeedOf(k) = 0
        OBVIOUS
    <2>1. k \in Samples /\ k > p /\ TimeOf(k) <= to
        BY <1>6
    <2>2. TimeOf(k) > to \/ SpeedOf(k) = 0
        BY <1>1, <1>2, <2>1 DEF LeadSeen
    <2> QED
        BY <1>1, <1>4, <2>1, <2>2
<1>9. ASSUME NEW time \in front .. to
      PROVE  \E k \in samples : TimeOf(k) <= time /\ time <= TimeOf(k) + Coverage(k)
    <2>1. PICK k \in Samples : Covered(k, front, time)
        BY <1>1, <1>2, <1>9 DEF LeadSeen
    <2>2. time <= to /\ time \in Nat /\ TimeOf(k) \in Nat /\ TimeOf(k) <= time /\ front <= TimeOf(k)
        BY <1>1, <1>4, <2>1 DEF Covered
    <2>3. k \in samples
        BY <1>1, <2>1, <2>2
    <2> QED
        BY <2>1, <2>3 DEF Covered
<1>10. ~MovingBefore(to, to - front)
    <2>1. Back(to, to - front) = front
        BY <1>1, <1>2 DEF Back
    <2>2. j \in Window(front, to)
        BY <1>1, <1>2, <1>3, <1>4, SamplesTyped DEF Window
    <2>3. SpeedOf(j) = 0
        BY <1>5, <1>8
    <2> SUFFICES ASSUME MovingBefore(to, to - front) PROVE FALSE
        OBVIOUS
    <2>4. \A k \in Window(Back(to, to - front), to) : SpeedOf(k) > 0
        BY DEF MovingBefore
    <2>5. SpeedOf(j) > 0
        BY <2>1, <2>2, <2>4
    <2> QED
        BY <2>3, <2>5
<1>11. samples # {}
    BY <1>5
<1> HIDE DEF samples
<1>12. samples = {k \in Samples : TimeOf(k) >= front /\ TimeOf(k) <= to}
    BY DEF samples
<1> QED
    BY <1>1, <1>7, <1>8, <1>9, <1>10, <1>11, <1>12 DEF IsLeadIn

\* The inductive invariant of the questions about a lead-in.
LeadingIn ==
    question.of = "lead-in" /\ InOrder =>
      IF answer = Open THEN LeadScan(scan) ELSE answer = <<None>> \/ IsLeadIn(answer[1])

LEMMA LeadSteady ==
    ASSUME signal' = signal, question' = question
    PROVE  /\ InOrder' <=> InOrder
           /\ LeadScan(scan)' <=> LeadScan(scan')
           /\ IsLeadIn(answer[1])' <=> IsLeadIn(answer[1]')
<1>1. InOrder' <=> InOrder
    BY TimesSteady DEF InOrder
<1>2. \A k : Coverage(k)' = Coverage(k)
    BY DEF Coverage
<1>3. \A k, front, time : Covered(k, front, time)' <=> Covered(k, front, time)
    BY <1>2, TimesSteady DEF Covered
<1>4. \A p, front : LeadSeen(p, front)' <=> LeadSeen(p, front)
    BY <1>3, TimesSteady DEF LeadSeen, Samples
<1>5. LeadScan(scan)' <=> LeadScan(scan')
    BY <1>4 DEF LeadScan, LeadSeen
<1>6. \A w : NoGapIn(w)' <=> NoGapIn(w)
    BY TimesSteady DEF NoGapIn
<1>7. \A a, b : Window(a, b)' = Window(a, b)
    BY TimesSteady DEF Window
<1>8. \A a, b : MovingBefore(a, b)' <=> MovingBefore(a, b)
    BY <1>6, <1>7, TimesSteady, CruiseSteady DEF MovingBefore
<1>9. IsLeadIn(answer[1])' <=> IsLeadIn(answer[1]')
    BY <1>2, <1>8, TimesSteady DEF IsLeadIn, Samples
<1> QED
    BY <1>1, <1>5, <1>9

LEMMA LeadingFirst == Init => LeadingIn
<1> SUFFICES ASSUME Init, question.of = "lead-in", InOrder PROVE LeadScan(scan)
    BY DEF Init, LeadingIn
<1>1. Put
    BY PutFirst
<1>2. PICK p : p = IF question.to >= signal.duration THEN 0 ELSE LastSample(question.to)
    OBVIOUS
<1>3. scan = [ScanAt(p) EXCEPT !.stopped = question.to]
    BY <1>2 DEF Init, First
<1>4. PICK to \in Nat : to = question.to
    BY <1>1 DEF Put
<1>5. Len(signal.values) \in Nat
    BY <1>1, SamplesTyped
<1>6. p \in 0 .. Len(signal.values) /\ (p = 0 \/ \A k \in Samples : k > p => TimeOf(k) > to)
    <2>1. PICK last : last = LastSample(to)
        OBVIOUS
    <2>2. /\ last \in 0 .. Len(signal.values)
          /\ last = 0 \/ \A k \in Samples : k > last => TimeOf(k) > to
        BY <1>1, <2>1, LastSampleIs
    <2>3. p = 0 \/ p = last
        BY <1>2, <1>4, <2>1
    <2> QED
        BY <1>5, <2>2, <2>3
<1>7. scan \in Scans /\ scan.position = p /\ scan.stopped = to
    BY <1>3, <1>4, <1>6 DEF ScanAt, Scans, Instants, None
<1> QED
    BY <1>4, <1>5, <1>6, <1>7 DEF LeadScan, LeadSeen

LEMMA LeadingKept ==
    ASSUME Put, LeadingIn, Next
    PROVE  LeadingIn'
<1>1. signal' = signal /\ question' = question
    BY PutKept
<1> SUFFICES ASSUME question.of = "lead-in", InOrder PROVE LeadingIn'
    BY <1>1, LeadSteady DEF LeadingIn
<1>2. LeadInStep /\ answer = Open
    BY DEF Next, AskSample, AskWindow, LeadInStep, DepartureStep, StopStep, MotionStep
<1>3. LeadScan(scan)
    BY <1>2 DEF LeadingIn
<1>4. PICK k : k = scan.position
    OBVIOUS
<1>5. StandingSince = None \/ (StandingSince = scan.stopped /\ scan.stopped < question.to)
    BY DEF StandingSince
<1>6. StandingSince = None \/ IsLeadIn(StandingSince)
    BY <1>3, <1>5, LeadFound
<1>7. \/ answer' = <<None>>
      \/ answer' = <<StandingSince>>
      \/ answer' = Open /\ LeadScan(scan')
    <2>1. CASE k = 0
        BY <1>2, <1>4, <2>1 DEF LeadInStep
    <2>2. CASE k # 0 /\ TimeOf(k) > question.to
        <3>1. scan' = [scan EXCEPT !.position = k - 1] /\ answer' = answer
            BY <1>2, <1>4, <2>2 DEF LeadInStep
        <3> QED
            BY <1>2, <1>3, <1>4, <2>2, <3>1, LeadSkips
    <2>3. CASE k # 0 /\ ~(TimeOf(k) > question.to) /\ TimeOf(k) > scan.stopped
        BY <1>2, <1>4, <2>3 DEF LeadInStep
    <2>4. CASE k # 0 /\ ~(TimeOf(k) > question.to) /\ ~(TimeOf(k) > scan.stopped) /\ ~StandsTo(k, scan.stopped)
        BY <1>2, <1>4, <2>4 DEF LeadInStep
    <2>5. CASE k # 0 /\ ~(TimeOf(k) > question.to) /\ ~(TimeOf(k) > scan.stopped) /\ StandsTo(k, scan.stopped)
        <3>1. scan' = [scan EXCEPT !.stopped = TimeOf(k), !.position = k - 1] /\ answer' = answer
            BY <1>2, <1>4, <2>5 DEF LeadInStep
        <3>2. k \in Samples /\ scan.stopped \in Nat
            BY <1>3, <1>4, <2>5, SamplesTyped DEF LeadScan, Samples
        <3>3. TimeOf(k) <= scan.stopped
            BY <2>5, <3>2, SamplesTyped
        <3> QED
            BY <1>2, <1>3, <1>4, <2>5, <3>1, <3>3, LeadGrows
    <2> QED
        BY <2>1, <2>2, <2>3, <2>4, <2>5
<1>8. IF answer' = Open THEN LeadScan(scan') ELSE answer' = <<None>> \/ IsLeadIn(answer[1]')
    <2>1. CASE answer' = <<StandingSince>>
        <3>1. answer[1]' = StandingSince /\ answer' # Open
            BY <2>1 DEF Open
        <3> QED
            BY <1>6, <2>1, <3>1
    <2>2. CASE answer' # <<StandingSince>>
        BY <1>7, <2>2 DEF Open
    <2> QED
        BY <2>1, <2>2
<1>9. IF (answer = Open)' THEN LeadScan(scan)' ELSE (answer = <<None>>)' \/ IsLeadIn(answer[1])'
    BY <1>1, <1>8, LeadSteady DEF Open, None
<1> QED
    BY <1>9 DEF LeadingIn

LEMMA LeadInWitnessed ==
    ASSUME Put, LeadingIn
    PROVE  LeadInIsSeen
<1>1. DOMAIN signal.values = Samples
    BY SamplesTyped
<1> SUFFICES ASSUME question.of = "lead-in", answer # Open, answer # <<None>>, InOrder
             PROVE  IsLeadIn(answer[1])
    BY <1>1 DEF LeadInIsSeen, IsLeadIn
<1> QED
    BY DEF LeadingIn

-----------------------------------------------------------------------------

Witnessing == Put /\ Departing /\ LeadingIn /\ Stopping

LEMMA WitnessingKept == Witnessing /\ [Next]_vars => Witnessing'
<1> SUFFICES ASSUME Witnessing, [Next]_vars PROVE Witnessing'
    OBVIOUS
<1>1. CASE Next
    BY <1>1, PutKept, DepartingKept, LeadingKept, StoppingKept DEF Witnessing
<1>2. CASE UNCHANGED vars
    <2>1. signal' = signal /\ question' = question /\ scan' = scan /\ answer' = answer
        BY <1>2 DEF vars
    <2>2. Put'
        BY <2>1 DEF Witnessing, Put
    <2>3. Departing'
        BY <2>1, DepartureSteady DEF Witnessing, Departing
    <2>4. LeadingIn'
        BY <2>1, LeadSteady DEF Witnessing, LeadingIn
    <2>5. Stopping'
        BY <2>1, StopSteady DEF Witnessing, Stopping
    <2> QED
        BY <2>2, <2>3, <2>4, <2>5 DEF Witnessing
<1> QED
    BY <1>1, <1>2

\* For every speed channel, interval and limit, what is said of a departure, a
\* lead-in or the longest stop is what the samples show (departure and
\* stationary_lead_in in lap_evidence.rs and motion.rs, longest_stop_interval).
THEOREM MotionHolds == Spec => []MotionIsWitnessed
<1>1. Init => Witnessing
    BY PutFirst, DepartingFirst, LeadingFirst, StoppingFirst DEF Witnessing
<1>2. Witnessing => MotionIsWitnessed
    BY DepartureWitnessed, LeadInWitnessed, StopWitnessed DEF Witnessing, MotionIsWitnessed
<1> QED
    BY <1>1, <1>2, WitnessingKept, PTL DEF Spec

-----------------------------------------------------------------------------
(* Random access on a grid, and with the times written down.               *)

\* A channel on a grid whose runs do not overlap.
OnRuns == Put /\ ~signal.explicit /\ Disjoint

RunOf(c) == signal.chunks[c]

RunNumbers == 1 .. Len(signal.chunks)

LEMMA RunTyped ==
    ASSUME OnRuns, NEW c \in RunNumbers
    PROVE  /\ c \in Nat /\ Len(signal.chunks) \in Nat /\ c >= 1 /\ c <= Len(signal.chunks)
           /\ RunOf(c).at \in Nat /\ RunOf(c).period \in Nat \ {0} /\ RunOf(c).count \in Nat \ {0}
           /\ SampleBase(signal, c) \in Nat
           /\ ChunkEnd(RunOf(c)) \in Nat
           /\ ChunkEnd(RunOf(c)) = RunOf(c).at + RunOf(c).count * RunOf(c).period
           /\ RunOf(c).at <= ChunkEnd(RunOf(c))
<1>1. IsSignal(signal) /\ Disjoint
    BY DEF OnRuns, Put
<1>2. Len(signal.chunks) \in Nat /\ RunOf(c).at \in Nat /\ RunOf(c).period \in Nat /\ RunOf(c).count \in Nat
    BY <1>1, LaidOut DEF RunNumbers, RunOf
<1>3. c \in DOMAIN signal.chunks
    BY <1>1 DEF IsSignal, Channels, RunNumbers
<1>4. RunOf(c).count > 0 /\ RunOf(c).period > 0
    BY <1>1, <1>3 DEF Disjoint, RunOf
<1>5. PICK length : length = RunOf(c).count * RunOf(c).period
    OBVIOUS
<1>6. length \in Nat
    BY <1>2, <1>5
<1>7. ChunkEnd(RunOf(c)) = RunOf(c).at + length
    BY <1>5 DEF ChunkEnd
<1>8. SampleBase(signal, c) \in Nat
    BY <1>1, BaseIs DEF RunNumbers
<1> QED
    BY <1>2, <1>4, <1>5, <1>6, <1>7, <1>8 DEF RunNumbers

LEMMA RunsApart ==
    ASSUME OnRuns, NEW c \in RunNumbers, NEW d \in RunNumbers, c < d
    PROVE  ChunkEnd(RunOf(c)) <= RunOf(d).at
<1>1. IsSignal(signal) /\ Disjoint
    BY DEF OnRuns, Put
<1>2. c \in Nat /\ d \in Nat /\ Len(signal.chunks) \in Nat /\ c + 1 \in RunNumbers /\ (c + 1) - 1 = c /\ c + 1 <= d /\ c + 1 > 1
    BY RunTyped DEF RunNumbers
<1>3. c + 1 \in DOMAIN signal.chunks
    BY <1>1, <1>2 DEF IsSignal, Channels, RunNumbers
<1>4. ChunkEnd(RunOf(c)) <= RunOf(c + 1).at
    BY <1>1, <1>2, <1>3 DEF Disjoint, RunOf
<1>5. RunOf(c + 1).at <= RunOf(d).at
    BY <1>1, <1>2, LaidOut DEF RunNumbers, RunOf
<1>6. ChunkEnd(RunOf(c)) \in Nat /\ RunOf(c + 1).at \in Nat /\ RunOf(d).at \in Nat
    BY <1>2, RunTyped
<1> QED
    BY <1>4, <1>5, <1>6

\* A sample has a period of its run to itself.
LEMMA SampleInRun ==
    ASSUME OnRuns, NEW k, NEW c, NEW l, IsPlace(signal, k, c, l)
    PROVE  /\ c \in RunNumbers /\ l \in Nat /\ l >= 1 /\ l <= RunOf(c).count /\ k = SampleBase(signal, c) + l
           /\ k \in Samples /\ TimeOf(k) \in Nat
           /\ TimeOf(k) = RunOf(c).at + (l - 1) * RunOf(c).period
           /\ RunOf(c).at <= TimeOf(k) /\ TimeOf(k) + RunOf(c).period <= ChunkEnd(RunOf(c))
<1>1. c \in RunNumbers /\ l \in 1 .. RunOf(c).count /\ k = SampleBase(signal, c) + l
    BY DEF IsPlace, RunNumbers, RunOf
<1>2. PICK at \in Nat, period \in Nat \ {0}, count \in Nat \ {0} :
          at = RunOf(c).at /\ period = RunOf(c).period /\ count = RunOf(c).count
    BY <1>1, RunTyped
<1>3. l \in Nat /\ l >= 1 /\ l <= count /\ l - 1 \in Nat
    BY <1>1, <1>2
<1>4. PICK m \in Nat : m = l - 1 /\ m + 1 = l
    BY <1>3
<1>5. m * period \in Nat /\ (m + 1) * period = m * period + period /\ (m + 1) * period <= count * period /\ count * period \in Nat
    <2>1. (m + 1) * period <= count * period
        BY <1>3, <1>4, TimesGrow
    <2>2. m * period \in Nat /\ (m + 1) * period = m * period + period /\ count * period \in Nat
        OBVIOUS
    <2> QED
        BY <2>1, <2>2
<1>6. TimeOf(k) = at + m * period
    BY <1>2, <1>4, TimeAtPlace DEF OnRuns, RunOf
<1>7. ChunkEnd(RunOf(c)) = at + count * period
    BY <1>1, <1>2, RunTyped
<1>8. k \in Samples
    BY PlaceIsSample DEF OnRuns, Put, Samples
<1>9. TimeOf(k) = RunOf(c).at + (l - 1) * RunOf(c).period
    BY <1>2, <1>4, <1>6
<1>10. TimeOf(k) \in Nat /\ at <= TimeOf(k) /\ TimeOf(k) + period <= ChunkEnd(RunOf(c))
    BY <1>5, <1>6, <1>7
<1> QED
    BY <1>1, <1>2, <1>3, <1>8, <1>9, <1>10

LEMMA GridAscends ==
    ASSUME OnRuns, NEW i \in Samples, NEW j \in Samples, i <= j
    PROVE  TimeOf(i) <= TimeOf(j)
<1>1. CASE i = j
    BY <1>1, SamplesTyped DEF OnRuns
<1>2. CASE i # j
    <2>1. PICK c, l : IsPlace(signal, i, c, l)
        BY SampleHasPlace DEF OnRuns, Put, Samples
    <2>2. PICK d, m : IsPlace(signal, j, d, m)
        BY SampleHasPlace DEF OnRuns, Put, Samples
    <2>3. /\ c \in RunNumbers /\ l \in Nat /\ l >= 1 /\ l <= RunOf(c).count /\ i = SampleBase(signal, c) + l
          /\ TimeOf(i) \in Nat /\ TimeOf(i) = RunOf(c).at + (l - 1) * RunOf(c).period
          /\ TimeOf(i) + RunOf(c).period <= ChunkEnd(RunOf(c))
        BY <2>1, SampleInRun
    <2>4. /\ d \in RunNumbers /\ m \in Nat /\ m >= 1 /\ TimeOf(j) \in Nat
          /\ TimeOf(j) = RunOf(d).at + (m - 1) * RunOf(d).period /\ RunOf(d).at <= TimeOf(j)
        BY <2>2, SampleInRun
    <2>5. RunOf(c).period \in Nat /\ RunOf(d).at \in Nat /\ ChunkEnd(RunOf(c)) \in Nat /\ RunOf(c).count \in Nat /\ RunOf(c).at \in Nat
        BY <2>3, <2>4, RunTyped
    <2>6. l \in 0 .. signal.chunks[c].count /\ c \in 1 .. Len(signal.chunks)
        BY <2>3, <2>5 DEF RunOf, RunNumbers
    <2>7. j > SampleBase(signal, c) + l
        <3>1. i \in Int /\ j \in Int
            BY DEF Samples
        <3>2. j > i
            BY <1>2, <3>1
        <3> QED
            BY <2>3, <3>2
    <2>8. c < d \/ (c = d /\ l < m)
        BY <2>2, <2>6, <2>7, PlacesAscend DEF OnRuns, Put
    <2>9. CASE c < d
        <3>1. ChunkEnd(RunOf(c)) <= RunOf(d).at
            BY <2>3, <2>4, <2>9, RunsApart
        <3> QED
            BY <2>3, <2>4, <2>5, <3>1
    <2>10. CASE c = d /\ l < m
        <3>1. PICK x \in Nat, y \in Nat : x = (l - 1) * RunOf(c).period /\ y = (m - 1) * RunOf(c).period /\ x <= y
            <4>1. l - 1 \in Nat /\ m - 1 \in Nat /\ l - 1 <= m - 1
                BY <2>3, <2>4, <2>10
            <4> QED
                BY <2>5, <4>1, TimesGrow
        <3> QED
            BY <2>3, <2>4, <2>5, <2>10, <3>1
    <2> QED
        BY <2>8, <2>9, <2>10
<1> QED
    BY <1>1, <1>2

\* The channel with its times written down differs in nothing else.
LEMMA StampedIs ==
    ASSUME OnRuns
    PROVE  LET s == Stamped(signal)
           IN  /\ s.explicit = TRUE /\ s.chunks = signal.chunks /\ s.values = signal.values
               /\ s.duration = signal.duration /\ s.discrete = signal.discrete
               /\ s.stamps = [k \in Samples |-> TimeOf(k)] /\ Len(s.stamps) = Len(signal.values)
               /\ \A k : ChunkForGlobal(s, k) = ChunkForGlobal(signal, k)
<1>1. DOMAIN signal.values = Samples /\ Len(signal.values) \in Nat /\ IsSignal(signal) /\ signal.explicit = FALSE
    BY SamplesTyped DEF OnRuns, Put, IsSignal, Channels
<1>2. PICK stamps : stamps = [k \in DOMAIN signal.values |-> LET c == ChunkForGlobal(signal, k) IN GridTime(signal.chunks[c[1]], c[2])]
    OBVIOUS
<1>3. stamps = [k \in Samples |-> TimeOf(k)]
    BY <1>1, <1>2 DEF TimeOf, SampleTime
<1>4. Len(stamps) = Len(signal.values)
    <2>1. \A k \in Samples : TimeOf(k) \in Nat
        BY SamplesTyped DEF OnRuns
    <2> QED
        BY <1>1, <1>3, <2>1 DEF Samples
<1>5. PICK s : s = Stamped(signal)
    OBVIOUS
<1>6. s = [signal EXCEPT !.explicit = TRUE, !.stamps = stamps]
    BY <1>2, <1>5 DEF Stamped
<1> QED
    BY <1>3, <1>4, <1>5, <1>6 DEF ChunkForGlobal, SampleBase

\* A stamp count is known by what lies on either side of it.
LEMMA StampsUpTo ==
    ASSUME OnRuns, NEW time \in Nat, NEW k \in 0 .. Len(signal.values),
           \A i \in Samples : TimeOf(i) <= time <=> i <= k
    PROVE  CountUpTo(Stamped(signal).stamps, time) = k
<1>1. PICK n \in Nat : n = Len(signal.values) /\ Samples = 1 .. n
    BY SamplesTyped DEF OnRuns, Samples
<1>2. PICK x : x = Stamped(signal).stamps
    OBVIOUS
<1>3. x = [i \in Samples |-> TimeOf(i)]
    BY <1>2, StampedIs
<1>4. AscendingKeys(x, n)
    BY <1>1, <1>3, GridAscends, SamplesTyped DEF AscendingKeys, OnRuns
<1>5. CountUpTo(x, time) \in 0 .. n /\ \A i \in 1 .. n : x[i] <= time <=> i <= CountUpTo(x, time)
    BY <1>4, CountOfAscending
<1>6. PICK m \in 0 .. n : m = CountUpTo(x, time)
    BY <1>5
<1>7. \A i \in 1 .. n : i <= m <=> i <= k
    BY <1>1, <1>3, <1>5, <1>6
<1>8. m = k
    <2>1. k \in 0 .. n /\ m \in 0 .. n
        BY <1>1
    <2>2. m >= 1 => m <= k
        BY <1>7, <2>1
    <2>3. k >= 1 => k <= m
        BY <1>7, <2>1
    <2> QED
        BY <2>1, <2>2, <2>3
<1> QED
    BY <1>2, <1>6, <1>8

\* A sample holds for the period of its run.
Within(k, time) ==
    /\ TimeOf(k) <= time
    /\ time < TimeOf(k) + signal.chunks[ChunkForGlobal(signal, k)[1]].period

LEMMA WithinIs ==
    ASSUME OnRuns, NEW time, NEW k, NEW c, NEW l, IsPlace(signal, k, c, l)
    PROVE  Within(k, time) <=> TimeOf(k) <= time /\ time < TimeOf(k) + RunOf(c).period
<1>1. ChunkForGlobal(signal, k) = <<c, l>>
    BY PlaceIsFound DEF OnRuns, Put
<1> QED
    BY <1>1 DEF Within, RunOf

\* Before the first run nothing answers.
LEMMA BeforeRuns ==
    ASSUME OnRuns, NEW time \in Nat, Started(signal, time) = 0, NEW linear
    PROVE  /\ OnGrid(signal, time, linear) = NoSample
           /\ AtStamp(Stamped(signal), time, linear) = NoSample
           /\ \A k \in Samples : ~Within(k, time)
<1>1. \A d \in RunNumbers : ~(RunOf(d).at <= time)
    <2>1. \A d \in RunNumbers : RunOf(d).at <= time <=> d <= 0
        BY StartedLast DEF OnRuns, Put, RunNumbers, RunOf
    <2> QED
        BY <2>1, RunTyped
<1>2. ASSUME NEW k \in Samples PROVE ~(TimeOf(k) <= time)
    <2>1. PICK c, l : IsPlace(signal, k, c, l)
        BY SampleHasPlace DEF OnRuns, Put, Samples
    <2>2. c \in RunNumbers /\ RunOf(c).at <= TimeOf(k) /\ TimeOf(k) \in Nat
        BY <2>1, SampleInRun
    <2>3. RunOf(c).at \in Nat /\ ~(RunOf(c).at <= time)
        BY <1>1, <2>2, RunTyped
    <2> QED
        BY <2>2, <2>3
<1>3. OnGrid(signal, time, linear) = NoSample
    BY DEF OnGrid, InRun, Started
<1>4. CountUpTo(Stamped(signal).stamps, time) = 0
    <2>1. 0 \in 0 .. Len(signal.values)
        BY SamplesTyped DEF OnRuns
    <2>2. \A i \in Samples : TimeOf(i) <= time <=> i <= 0
        BY <1>2, SamplesTyped DEF OnRuns, Samples
    <2> QED
        BY <2>1, <2>2, StampsUpTo
<1>5. AtStamp(Stamped(signal), time, linear) = NoSample
    BY <1>4 DEF AtStamp, LatestStamp
<1> QED
    BY <1>2, <1>3, <1>5 DEF Within

\* The last sample of a run and the first of the next one.
LEMMA RunEnds ==
    ASSUME OnRuns, NEW c \in RunNumbers
    PROVE  /\ IsPlace(signal, SampleBase(signal, c) + RunOf(c).count, c, RunOf(c).count)
           /\ c < Len(signal.chunks) =>
                /\ c + 1 \in RunNumbers
                /\ IsPlace(signal, SampleBase(signal, c) + RunOf(c).count + 1, c + 1, 1)
                /\ SampleBase(signal, c + 1) = SampleBase(signal, c) + RunOf(c).count
<1>1. PICK base \in Nat, count \in Nat \ {0} : base = SampleBase(signal, c) /\ count = RunOf(c).count
    BY RunTyped
<1>2. IsPlace(signal, base + count, c, count)
    <2>1. count \in 1 .. count
        OBVIOUS
    <2> QED
        BY <1>1, <2>1 DEF IsPlace, RunNumbers, RunOf
<1>3. ASSUME c < Len(signal.chunks)
      PROVE  c + 1 \in RunNumbers /\ IsPlace(signal, base + count + 1, c + 1, 1) /\ SampleBase(signal, c + 1) = base + count
    <2>1. c \in Nat /\ Len(signal.chunks) \in Nat /\ c + 1 \in RunNumbers /\ (c + 1) - 1 = c
        BY <1>3, RunTyped DEF RunNumbers
    <2>2. Counted(signal.chunks)[c] = base + count
        BY <1>1, BaseIs DEF OnRuns, Put, RunNumbers, RunOf
    <2>3. SampleBase(signal, c + 1) = base + count
        BY <2>1, <2>2 DEF SampleBase
    <2>4. RunOf(c + 1).count \in Nat \ {0}
        BY <2>1, RunTyped
    <2>5. 1 \in 1 .. RunOf(c + 1).count
        BY <2>4
    <2> QED
        BY <2>1, <2>3, <2>5 DEF IsPlace, RunNumbers, RunOf
<1> QED
    BY <1>1, <1>2, <1>3

\* After the end of a run, until the next one starts, nothing answers.
LEMMA PastRun ==
    ASSUME OnRuns, NEW time \in Nat, time < signal.duration, NEW c, c = Started(signal, time), c # 0,
           time >= ChunkEnd(RunOf(c)), NEW linear
    PROVE  /\ OnGrid(signal, time, linear) = NoSample
           /\ AtStamp(Stamped(signal), time, linear) = NoSample
           /\ \A k \in Samples : ~Within(k, time)
<1>1. /\ c \in RunNumbers
      /\ \A d \in RunNumbers : RunOf(d).at <= time <=> d <= c
    <2>1. /\ c \in 0 .. Len(signal.chunks)
          /\ \A d \in RunNumbers : RunOf(d).at <= time <=> d <= c
        BY StartedLast DEF OnRuns, Put, RunNumbers, RunOf
    <2>2. Len(signal.chunks) \in Nat
        BY LaidOut DEF OnRuns, Put
    <2> QED
        BY <2>1, <2>2 DEF RunNumbers
<1>2. PICK n \in Nat, at \in Nat, period \in Nat \ {0}, count \in Nat \ {0}, base \in Nat, end \in Nat :
          /\ n = Len(signal.chunks) /\ at = RunOf(c).at /\ period = RunOf(c).period /\ count = RunOf(c).count
          /\ base = SampleBase(signal, c) /\ end = ChunkEnd(RunOf(c)) /\ c \in Nat /\ c >= 1 /\ c <= n
    BY <1>1, RunTyped
<1>3. c < n
    <2> SUFFICES ASSUME c = n PROVE FALSE
        BY <1>2
    <2>1. Last(signal.chunks) = RunOf(c)
        BY <1>2 DEF Last, RunOf
    <2>2. signal.duration <= end /\ signal.duration \in Nat
        BY <1>2, <2>1 DEF OnRuns, Disjoint, Put, IsSignal, Channels
    <2> QED
        BY <1>2, <2>2
<1>4. OnGrid(signal, time, linear) = NoSample
    BY <1>2 DEF OnGrid, InRun, Started, RunOf
<1>5. /\ IsPlace(signal, base + count, c, count) /\ c + 1 \in RunNumbers
      /\ IsPlace(signal, base + count + 1, c + 1, 1)
    BY <1>1, <1>2, <1>3, RunEnds
<1>6. ASSUME NEW k \in Samples
      PROVE  /\ ~Within(k, time)
             /\ TimeOf(k) <= time <=> k <= base + count
    <2>1. PICK d, l : IsPlace(signal, k, d, l)
        BY SampleHasPlace DEF OnRuns, Put, Samples
    <2>2. /\ d \in RunNumbers /\ l \in Nat /\ l >= 1 /\ l <= RunOf(d).count /\ k = SampleBase(signal, d) + l
          /\ TimeOf(k) \in Nat /\ RunOf(d).at <= TimeOf(k)
          /\ TimeOf(k) + RunOf(d).period <= ChunkEnd(RunOf(d))
        BY <2>1, SampleInRun
    <2>3. PICK other \in Nat, width \in Nat, close \in Nat, below \in Nat, many \in Nat :
              /\ other = RunOf(d).at /\ width = RunOf(d).period /\ close = ChunkEnd(RunOf(d))
              /\ below = SampleBase(signal, d) /\ many = RunOf(d).count /\ d \in Nat
        BY <2>2, RunTyped
    <2>4. CASE c < d
        <3>1. ~(other <= time)
            <4>1. other <= time <=> d <= c
                BY <1>1, <2>2, <2>3
            <4>2. ~(d <= c)
                BY <1>2, <2>3, <2>4
            <4> QED
                BY <4>1, <4>2
        <3>2. ~(TimeOf(k) <= time)
            BY <2>2, <2>3, <3>1
        <3>3. base + count <= below
            BY <1>1, <1>2, <2>2, <2>3, <2>4, BasesAscend DEF OnRuns, Put, RunNumbers, RunOf
        <3>4. ~(k <= base + count)
            <4>1. k = below + l /\ l \in Nat /\ l >= 1
                BY <2>2, <2>3
            <4> QED
                BY <3>3, <4>1
        <3> QED
            BY <3>2, <3>4 DEF Within
    <2>5. CASE d <= c
        <3>1. close <= end
            <4>1. CASE d = c
                BY <1>2, <2>3, <4>1
            <4>2. CASE d # c
                <5>1. d < c
                    BY <1>2, <2>3, <2>5, <4>2
                <5>2. close <= at
                    BY <1>1, <1>2, <2>2, <2>3, <5>1, RunsApart
                <5>3. at <= end
                    BY <1>1, <1>2, RunTyped
                <5> QED
                    BY <5>2, <5>3
            <4> QED
                BY <4>1, <4>2
        <3>2. TimeOf(k) + width <= time
            <4>1. TimeOf(k) + width <= close /\ TimeOf(k) \in Nat
                BY <2>2, <2>3
            <4>2. end <= time
                BY <1>2
            <4> QED
                BY <3>1, <4>1, <4>2
        <3>3. TimeOf(k) <= time /\ ~(time < TimeOf(k) + width)
            BY <2>2, <2>3, <3>2
        <3>4. ~Within(k, time)
            BY <2>1, <2>3, <3>3, WithinIs
        <3>5. k <= base + count
            <4>1. CASE d = c
                BY <1>2, <2>2, <2>3, <4>1
            <4>2. CASE d # c
                <5>1. d < c
                    BY <1>2, <2>3, <2>5, <4>2
                <5>2. below + many <= base
                    BY <1>1, <1>2, <2>2, <2>3, <5>1, BasesAscend DEF OnRuns, Put, RunNumbers, RunOf
                <5>3. k = below + l /\ l <= many
                    BY <2>2, <2>3
                <5> QED
                    BY <2>2, <5>2, <5>3
            <4> QED
                BY <4>1, <4>2
        <3> QED
            BY <3>3, <3>4, <3>5
    <2> QED
        BY <1>2, <2>3, <2>4, <2>5
<1>7. PICK k \in Nat : k = base + count /\ k + 1 = base + count + 1
    OBVIOUS
<1>8. k \in Samples /\ k + 1 \in Samples /\ Len(signal.values) \in Nat
    BY <1>5, <1>7, SampleInRun, SamplesTyped DEF OnRuns
<1>9. CountUpTo(Stamped(signal).stamps, time) = k
    <2>1. k \in 0 .. Len(signal.values)
        BY <1>8 DEF Samples
    <2>2. \A i \in Samples : TimeOf(i) <= time <=> i <= k
        BY <1>6, <1>7
    <2> QED
        BY <2>1, <2>2, StampsUpTo
<1>10. PICK s : s = Stamped(signal)
    OBVIOUS
<1>11. /\ s.chunks = signal.chunks /\ s.stamps = [i \in Samples |-> TimeOf(i)]
       /\ Len(s.stamps) = Len(signal.values)
       /\ \A i : ChunkForGlobal(s, i) = ChunkForGlobal(signal, i)
    BY <1>10, StampedIs
<1>12. ChunkForGlobal(s, k) = <<c, count>> /\ ChunkForGlobal(s, k + 1) = <<c + 1, 1>>
    BY <1>5, <1>7, <1>11, PlaceIsFound DEF OnRuns, Put
<1>13. RunOfStamp(s, k).period = period
    BY <1>2, <1>11, <1>12 DEF RunOfStamp, RunOf
<1>14. s.stamps[k] = TimeOf(k) /\ s.stamps[k + 1] = TimeOf(k + 1)
    BY <1>8, <1>11
<1>15. TimeOf(k) + period <= time /\ TimeOf(k) \in Nat
    <2>1. TimeOf(k) + period <= end /\ TimeOf(k) \in Nat
        BY <1>2, <1>5, <1>7, SampleInRun
    <2> QED
        BY <1>2, <2>1
<1>16. TimeOf(k + 1) > time /\ TimeOf(k + 1) \in Nat
    <2>1. TimeOf(k + 1) \in Nat /\ ~(TimeOf(k + 1) <= time)
        BY <1>6, <1>7, <1>8, SamplesTyped DEF OnRuns
    <2> QED
        BY <2>1
<1>17. BreaksAfter(s, k, period)
    <2>1. k < Len(s.stamps)
        BY <1>8, <1>11 DEF Samples
    <2>2. ChunkForGlobal(s, k + 1)[1] # ChunkForGlobal(s, k)[1]
        BY <1>2, <1>12
    <2>3. TimeOf(k + 1) > TimeOf(k) + period /\ period > 0
        BY <1>15, <1>16
    <2> QED
        BY <1>14, <2>1, <2>2, <2>3 DEF BreaksAfter
<1>18. FromStamp(s, k, period, time, linear) = NoSample
    <2>1. time # TimeOf(k) /\ ~(time < TimeOf(k) + period)
        BY <1>15
    <2> QED
        BY <1>14, <1>17, <2>1 DEF FromStamp
<1>19. AtStamp(s, time, linear) = NoSample
    BY <1>7, <1>9, <1>10, <1>13, <1>18 DEF AtStamp, LatestStamp
<1> QED
    BY <1>4, <1>6, <1>10, <1>19

\* The sample of a run whose period it is.
LEMMA InRunPlace ==
    ASSUME OnRuns, NEW time \in Nat, NEW c, c = Started(signal, time), c # 0, time < ChunkEnd(RunOf(c))
    PROVE  \E l \in Nat : /\ l = LastLocal(RunOf(c), time) /\ c \in RunNumbers
                          /\ IsPlace(signal, SampleBase(signal, c) + l, c, l)
                          /\ Within(SampleBase(signal, c) + l, time)
                          /\ \A i \in Samples : TimeOf(i) <= time <=> i <= SampleBase(signal, c) + l
<1>1. /\ c \in RunNumbers
      /\ \A d \in RunNumbers : RunOf(d).at <= time <=> d <= c
    <2>1. /\ c \in 0 .. Len(signal.chunks)
          /\ \A d \in RunNumbers : RunOf(d).at <= time <=> d <= c
        BY StartedLast DEF OnRuns, Put, RunNumbers, RunOf
    <2>2. Len(signal.chunks) \in Nat
        BY LaidOut DEF OnRuns, Put
    <2> QED
        BY <2>1, <2>2 DEF RunNumbers
<1>2. PICK n \in Nat, at \in Nat, period \in Nat \ {0}, count \in Nat \ {0}, base \in Nat :
          /\ n = Len(signal.chunks) /\ at = RunOf(c).at /\ period = RunOf(c).period /\ count = RunOf(c).count
          /\ base = SampleBase(signal, c) /\ ChunkEnd(RunOf(c)) = at + count * period
          /\ c \in Nat /\ c >= 1 /\ c <= n
    BY <1>1, RunTyped
<1>3. at <= time /\ time - at \in Nat
    BY <1>1, <1>2
<1>4. PICK q \in Nat : q = (time - at) \div period /\ q * period <= time - at /\ time - at < (q + 1) * period
    BY <1>3, DivIs
<1>5. q < count
    <2> SUFFICES ASSUME count <= q PROVE FALSE
        OBVIOUS
    <2>1. PICK x \in Nat, y \in Nat : x = count * period /\ y = q * period /\ x <= y
        BY TimesGrow
    <2>2. y <= time - at
        BY <1>4, <2>1
    <2>3. time < at + x
        BY <1>2, <2>1
    <2> QED
        BY <1>3, <2>1, <2>2, <2>3
<1>6. PICK l \in Nat : l = Min({q + 1, count}) /\ l <= q + 1 /\ l <= count /\ l \in {q + 1, count}
    BY LesserIs
<1>7. l = q + 1 /\ l - 1 = q /\ l >= 1
    BY <1>5, <1>6
<1>8. l = LastLocal(RunOf(c), time)
    BY <1>2, <1>4, <1>6 DEF LastLocal
<1>9. PICK k \in Nat : k = base + l
    OBVIOUS
<1>10. IsPlace(signal, k, c, l)
    <2>1. l \in 1 .. count
        BY <1>6, <1>7
    <2> QED
        BY <1>1, <1>2, <1>9, <2>1 DEF IsPlace, RunNumbers, RunOf
<1>11. TimeOf(k) = at + q * period /\ k \in Samples
    BY <1>2, <1>7, <1>10, SampleInRun
<1>12. TimeOf(k) \in Nat /\ TimeOf(k) <= time /\ time < TimeOf(k) + period
    <2>1. PICK x \in Nat : x = q * period /\ (q + 1) * period = x + period
        OBVIOUS
    <2> QED
        BY <1>3, <1>4, <1>11, <2>1
<1>13. Within(k, time)
    BY <1>2, <1>10, <1>12, WithinIs
<1>14. LastSample(time) = k
    <2>1. ~signal.explicit
        BY DEF OnRuns
    <2>2. signal.chunks[c].period # 0 /\ signal.chunks[c].count # 0
        BY <1>2 DEF RunOf
    <2> QED
        BY <1>2, <1>4, <1>6, <1>9, <2>1, <2>2 DEF LastSample, Started, RunOf
<1>15. ASSUME NEW i \in Samples PROVE TimeOf(i) <= time <=> i <= k
    <2>1. TimeOf(i) \in Nat /\ i \in Nat
        BY SamplesTyped DEF OnRuns, Samples
    <2>2. k # 0
        BY <1>7, <1>9
    <2>3. i > k => TimeOf(i) > time
        BY <1>14, <2>2, LastSampleIs DEF OnRuns
    <2>4. i <= k => TimeOf(i) <= TimeOf(k)
        BY <1>11, GridAscends
    <2> QED
        BY <1>12, <2>1, <2>3, <2>4
<1> QED
    BY <1>1, <1>2, <1>8, <1>9, <1>10, <1>13, <1>15

\* With times written down the same sample answers, drawn to the same next one.
LEMMA HoldingRun ==
    ASSUME OnRuns, NEW time \in Nat, NEW c, c = Started(signal, time), c # 0,
           time < ChunkEnd(RunOf(c)), NEW linear \in BOOLEAN
    PROVE  /\ OnGrid(signal, time, linear) = AtStamp(Stamped(signal), time, linear)
           /\ \E k \in Samples : /\ Within(k, time) /\ \A i \in Samples : Within(i, time) => i <= k
                                 /\ ~linear => OnGrid(signal, time, linear) = Held(SpeedOf(k))
<1>1. PICK l \in Nat : /\ l = LastLocal(RunOf(c), time) /\ c \in RunNumbers
                       /\ IsPlace(signal, SampleBase(signal, c) + l, c, l)
                       /\ Within(SampleBase(signal, c) + l, time)
                       /\ \A i \in Samples : TimeOf(i) <= time <=> i <= SampleBase(signal, c) + l
    BY InRunPlace
<1>2. PICK n \in Nat, at \in Nat, period \in Nat \ {0}, count \in Nat \ {0}, base \in Nat, end \in Nat :
          /\ n = Len(signal.chunks) /\ at = RunOf(c).at /\ period = RunOf(c).period /\ count = RunOf(c).count
          /\ base = SampleBase(signal, c) /\ end = ChunkEnd(RunOf(c)) /\ end = at + count * period
          /\ c \in Nat /\ c >= 1 /\ c <= n
    BY <1>1, RunTyped
<1>3. PICK k \in Nat : k = base + l
    OBVIOUS
<1>4. IsPlace(signal, k, c, l) /\ Within(k, time) /\ \A i \in Samples : TimeOf(i) <= time <=> i <= k
    BY <1>1, <1>2, <1>3
<1>5. /\ k \in Samples /\ l >= 1 /\ l <= count /\ TimeOf(k) \in Nat /\ TimeOf(k) = at + (l - 1) * period
      /\ TimeOf(k) <= time /\ time < TimeOf(k) + period
    <2>1. k \in Samples /\ l >= 1 /\ l <= count /\ TimeOf(k) \in Nat /\ TimeOf(k) = at + (l - 1) * period
        BY <1>2, <1>4, SampleInRun
    <2>2. TimeOf(k) <= time /\ time < TimeOf(k) + period
        BY <1>2, <1>4, WithinIs
    <2> QED
        BY <2>1, <2>2
<1>6. OnGrid(signal, time, linear) = FromSample(signal, c, l, time, linear)
    <2>1. ~(time >= end) /\ signal.chunks[c].period # 0 /\ signal.chunks[c].count # 0
        BY <1>2 DEF RunOf
    <2> QED
        BY <1>1, <1>2, <2>1 DEF OnGrid, InRun, Started, RunOf
<1>7. PICK v : v = signal.values[k] /\ v = Decode(signal, c, l) /\ v = SpeedOf(k)
    BY <1>2, <1>3 DEF Decode, SpeedOf
<1>8. PICK s : s = Stamped(signal)
    OBVIOUS
<1>9. /\ s.chunks = signal.chunks /\ s.values = signal.values /\ s.discrete = signal.discrete
      /\ s.stamps = [i \in Samples |-> TimeOf(i)] /\ Len(s.stamps) = Len(signal.values)
      /\ \A i : ChunkForGlobal(s, i) = ChunkForGlobal(signal, i)
    BY <1>8, StampedIs
<1>10. ChunkForGlobal(s, k) = <<c, l>>
    BY <1>4, <1>9, PlaceIsFound DEF OnRuns, Put
<1>11. AtStamp(s, time, linear) = FromStamp(s, k, period, time, linear)
    <2>1. k \in 0 .. Len(signal.values) /\ k # 0
        BY <1>3, <1>5, SamplesTyped DEF OnRuns, Samples
    <2>2. CountUpTo(s.stamps, time) = k
        BY <1>4, <1>8, <2>1, StampsUpTo
    <2>3. RunOfStamp(s, k).period = period
        BY <1>2, <1>9, <1>10 DEF RunOfStamp, RunOf
    <2> QED
        BY <2>1, <2>2, <2>3 DEF AtStamp, LatestStamp
<1>12. s.stamps[k] = TimeOf(k) /\ s.values[k] = v
    BY <1>5, <1>7, <1>9
<1>13. \A i \in Samples : Within(i, time) => i <= k
    BY <1>4 DEF Within
<1>14. FromSample(signal, c, l, time, linear) = FromStamp(s, k, period, time, linear)
    <2>1. CASE time = TimeOf(k)
        <3>1. FromStamp(s, k, period, time, linear) = Held(v)
            BY <1>12, <2>1 DEF FromStamp
        <3>2. GridTime(signal.chunks[c], l) = time
            BY <1>2, <1>5, <2>1 DEF GridTime, RunOf
        <3> QED
            BY <1>7, <3>1, <3>2 DEF FromSample, DrawnTo
    <2>2. CASE time # TimeOf(k) /\ (~linear \/ signal.discrete)
        <3>1. FromSample(signal, c, l, time, linear) = Held(v)
            BY <1>7, <2>2 DEF FromSample
        <3>2. FromStamp(s, k, period, time, linear) = Held(v)
            BY <1>5, <1>9, <1>12, <2>2 DEF FromStamp
        <3> QED
            BY <3>1, <3>2
    <2>3. CASE time # TimeOf(k) /\ linear /\ ~signal.discrete
        <3>1. PICK after : after = AfterOnGrid(signal, c, l)
            OBVIOUS
        <3>2. GridTime(signal.chunks[c], l) = TimeOf(k)
            BY <1>2, <1>5 DEF GridTime, RunOf
        <3>3. FromSample(signal, c, l, time, linear)
                = IF after = << >> THEN Held(v) ELSE Between(v, after[1], time - TimeOf(k), after[2] - TimeOf(k))
            BY <1>7, <2>3, <3>1, <3>2 DEF FromSample, DrawnTo
        <3>4. FromStamp(s, k, period, time, linear)
                = IF BreaksAfter(s, k, period) \/ k = Len(signal.values) THEN Held(v)
                  ELSE Between(v, signal.values[k + 1], time - TimeOf(k), s.stamps[k + 1] - TimeOf(k))
            BY <1>5, <1>9, <1>12, <2>3 DEF FromStamp
        <3>5. \/ after = << >> /\ (BreaksAfter(s, k, period) \/ k = Len(signal.values))
              \/ /\ after = <<signal.values[k + 1], s.stamps[k + 1]>>
                 /\ ~BreaksAfter(s, k, period) /\ k # Len(signal.values)
            <4>1. CASE l < count
                <5>1. after = <<Decode(signal, c, l + 1), GridTime(signal.chunks[c], l + 1)>>
                    BY <1>2, <3>1, <4>1 DEF AfterOnGrid, RunOf
                <5>2. IsPlace(signal, k + 1, c, l + 1)
                    <6>1. l + 1 \in 1 .. count /\ k + 1 = base + (l + 1)
                        BY <1>3, <4>1
                    <6> QED
                        BY <1>1, <1>2, <6>1 DEF IsPlace, RunNumbers, RunOf
                <5>3. k + 1 \in Samples /\ ChunkForGlobal(s, k + 1) = <<c, l + 1>>
                    BY <1>9, <5>2, PlaceIsFound, SampleInRun DEF OnRuns, Put
                <5>4. Decode(signal, c, l + 1) = signal.values[k + 1]
                    <6>1. k + 1 = base + (l + 1)
                        BY <1>3
                    <6> QED
                        BY <1>2, <6>1 DEF Decode
                <5>5. GridTime(signal.chunks[c], l + 1) = s.stamps[k + 1]
                    <6>1. TimeOf(k + 1) = RunOf(c).at + ((l + 1) - 1) * RunOf(c).period
                        BY <5>2, SampleInRun
                    <6> QED
                        BY <1>9, <5>3, <6>1 DEF GridTime, RunOf
                <5>6. ~BreaksAfter(s, k, period)
                    BY <1>10, <5>3 DEF BreaksAfter
                <5>7. k # Len(signal.values)
                    BY <5>3, SamplesTyped DEF Samples, OnRuns
                <5> QED
                    BY <5>1, <5>4, <5>5, <5>6, <5>7
            <4>2. CASE l = count /\ c = n
                <5>1. after = << >>
                    BY <1>2, <3>1, <4>2 DEF AfterOnGrid, RunOf
                <5>2. k = Len(signal.values)
                    <6>1. Counted(signal.chunks)[c] = base + count
                        BY <1>1, <1>2, BaseIs DEF OnRuns, Put, RunNumbers, RunOf
                    <6>2. Len(signal.values) = Counted(signal.chunks)[n]
                        BY <1>2 DEF OnRuns, Put, IsSignal
                    <6> QED
                        BY <1>3, <4>2, <6>1, <6>2
                <5> QED
                    BY <5>1, <5>2
            <4>3. CASE l = count /\ c # n
                <5>1. /\ c < n /\ c + 1 \in RunNumbers /\ IsPlace(signal, k + 1, c + 1, 1)
                      /\ SampleBase(signal, c + 1) = base + count
                    <6>1. c < n /\ k + 1 = base + count + 1
                        <7>1. c \in Nat /\ c <= n
                            BY <1>2, Zenon
                        <7> QED
                            BY <1>3, <4>3, <7>1
                    <6>2. /\ c + 1 \in RunNumbers /\ IsPlace(signal, base + count + 1, c + 1, 1)
                          /\ SampleBase(signal, c + 1) = base + count
                        BY <1>1, <1>2, <6>1, RunEnds
                    <6> QED
                        BY <6>1, <6>2
                <5>2. /\ k + 1 \in Samples /\ ChunkForGlobal(s, k + 1) = <<c + 1, 1>>
                      /\ TimeOf(k + 1) = RunOf(c + 1).at + (1 - 1) * RunOf(c + 1).period
                    BY <1>9, <5>1, PlaceIsFound, SampleInRun DEF OnRuns, Put
                <5>3. PICK next \in Nat : next = RunOf(c + 1).at /\ RunOf(c + 1).count > 0 /\ RunOf(c + 1).period \in Nat
                    BY <5>1, RunTyped
                <5>4. TimeOf(k + 1) = next /\ s.stamps[k + 1] = next
                    <6>1. (1 - 1) * RunOf(c + 1).period = 0
                        BY <5>3
                    <6> QED
                        BY <1>9, <5>2, <5>3, <6>1
                <5>5. Decode(signal, c + 1, 1) = signal.values[k + 1]
                    BY <1>3, <4>3, <5>1 DEF Decode
                <5>6. TimeOf(k) + period = end
                    <6>1. PICK m \in Nat : m = l - 1 /\ m + 1 = l
                        BY <1>5
                    <6>2. (m + 1) * period = m * period + period /\ m * period \in Nat
                        OBVIOUS
                    <6>3. TimeOf(k) = at + m * period
                        BY <1>5, <6>1
                    <6>4. end = at + (m + 1) * period
                        BY <1>2, <4>3, <6>1
                    <6> QED
                        BY <6>2, <6>3, <6>4
                <5>7. end <= next
                    <6>1. c < c + 1
                        BY <1>2
                    <6> QED
                        BY <1>1, <1>2, <5>1, <5>3, <6>1, RunsApart
                <5>8. k < Len(s.stamps) /\ k # Len(signal.values)
                    BY <1>9, <5>2, SamplesTyped DEF Samples, OnRuns
                <5>9. BreaksAfter(s, k, period) <=> next > end
                    <6>1. ChunkForGlobal(s, k + 1)[1] # ChunkForGlobal(s, k)[1]
                        BY <1>2, <1>10, <5>2
                    <6> QED
                        BY <1>12, <5>4, <5>6, <5>8, <6>1 DEF BreaksAfter
                <5>10. after = IF next = end THEN <<signal.values[k + 1], next>> ELSE << >>
                    <6>1. ~(l < signal.chunks[c].count) /\ c < Len(signal.chunks) /\ signal.chunks[c + 1].count > 0
                        BY <1>2, <4>3, <5>1, <5>3 DEF RunOf
                    <6>2. signal.chunks[c + 1].at = next /\ ChunkEnd(signal.chunks[c]) = end
                        BY <1>2, <5>3 DEF RunOf
                    <6> QED
                        BY <3>1, <5>5, <6>1, <6>2 DEF AfterOnGrid
                <5> QED
                    BY <5>4, <5>7, <5>8, <5>9, <5>10
            <4> QED
                BY <1>2, <1>5, <4>1, <4>2, <4>3
        <3> QED
            BY <3>3, <3>4, <3>5
    <2> QED
        BY <2>1, <2>2, <2>3
<1>15. ~linear => FromSample(signal, c, l, time, linear) = Held(v)
    BY <1>7 DEF FromSample
<1> QED
    BY <1>4, <1>5, <1>6, <1>7, <1>8, <1>11, <1>13, <1>14, <1>15

\* On a grid and with the times written down the same is answered.
LEMMA SameAnswer ==
    ASSUME OnRuns, NEW time \in Nat, NEW linear \in BOOLEAN
    PROVE  SampleAt(signal, time, linear) = SampleAt(Stamped(signal), time, linear)
<1>1. PICK s : s = Stamped(signal)
    OBVIOUS
<1>2. s.explicit = TRUE /\ s.chunks = signal.chunks /\ s.duration = signal.duration /\ ~signal.explicit
    BY <1>1, StampedIs DEF OnRuns
<1>3. signal.duration \in Nat /\ signal.chunks # << >>
    BY DEF OnRuns, Put, IsSignal, Channels, Disjoint
<1>4. CASE time >= signal.duration
    BY <1>1, <1>2, <1>4 DEF SampleAt
<1>5. CASE ~(time >= signal.duration)
    <2>1. OnGrid(signal, time, linear) = AtStamp(s, time, linear)
        <3>1. PICK c : c = Started(signal, time)
            OBVIOUS
        <3>2. CASE c = 0
            BY <1>1, <3>1, <3>2, BeforeRuns
        <3>3. CASE c # 0
            <4>1. c \in RunNumbers
                <5>1. c \in 0 .. Len(signal.chunks) /\ Len(signal.chunks) \in Nat
                    BY <3>1, StartedLast, LaidOut DEF OnRuns, Put
                <5> QED
                    BY <3>3, <5>1 DEF RunNumbers
            <4>2. ChunkEnd(RunOf(c)) \in Nat
                BY <4>1, RunTyped
            <4>3. CASE time >= ChunkEnd(RunOf(c))
                <5>1. time < signal.duration
                    BY <1>3, <1>5
                <5> QED
                    BY <1>1, <3>1, <3>3, <4>3, <5>1, PastRun
            <4>4. CASE time < ChunkEnd(RunOf(c))
                BY <1>1, <3>1, <3>3, <4>4, HoldingRun
            <4> QED
                BY <4>2, <4>3, <4>4
        <3> QED
            BY <3>2, <3>3
    <2>2. SampleAt(signal, time, linear) = OnGrid(signal, time, linear)
        BY <1>2, <1>3, <1>5 DEF SampleAt
    <2>3. SampleAt(s, time, linear) = AtStamp(s, time, linear)
        BY <1>2, <1>3, <1>5 DEF SampleAt
    <2> QED
        BY <1>1, <2>1, <2>2, <2>3
<1> QED
    BY <1>4, <1>5

\* The sample whose period it is answers.
LEMMA HolderAnswers ==
    ASSUME OnRuns, NEW time \in Nat
    PROVE  LET holding == {k \in Samples : Within(k, time)}
           IN  SampleAt(signal, time, FALSE)
                 = IF holding = {} \/ time >= signal.duration THEN NoSample ELSE Held(SpeedOf(Max(holding)))
<1>1. PICK holding \in SUBSET Samples : holding = {k \in Samples : Within(k, time)}
    OBVIOUS
<1>2. signal.duration \in Nat /\ signal.chunks # << >> /\ ~signal.explicit
    BY DEF OnRuns, Put, IsSignal, Channels, Disjoint
<1>3. CASE time >= signal.duration
    BY <1>1, <1>3 DEF SampleAt
<1>4. CASE ~(time >= signal.duration)
    <2>1. SampleAt(signal, time, FALSE) = OnGrid(signal, time, FALSE)
        BY <1>2, <1>4 DEF SampleAt
    <2>2. PICK c : c = Started(signal, time)
        OBVIOUS
    <2>3. CASE c = 0
        BY <1>1, <2>1, <2>2, <2>3, BeforeRuns
    <2>4. CASE c # 0
        <3>1. c \in RunNumbers
            <4>1. c \in 0 .. Len(signal.chunks) /\ Len(signal.chunks) \in Nat
                BY <2>2, StartedLast, LaidOut DEF OnRuns, Put
            <4> QED
                BY <2>4, <4>1 DEF RunNumbers
        <3>2. ChunkEnd(RunOf(c)) \in Nat
            BY <3>1, RunTyped
        <3>3. CASE time >= ChunkEnd(RunOf(c))
            <4>1. time < signal.duration
                BY <1>2, <1>4
            <4> QED
                BY <1>1, <2>1, <2>2, <2>4, <3>3, <4>1, PastRun
        <3>4. CASE time < ChunkEnd(RunOf(c))
            <4>1. PICK k \in Samples : /\ Within(k, time) /\ \A i \in Samples : Within(i, time) => i <= k
                                       /\ OnGrid(signal, time, FALSE) = Held(SpeedOf(k))
                BY <2>2, <2>4, <3>4, HoldingRun
            <4>2. k \in holding /\ \A i \in holding : i <= k
                BY <1>1, <4>1
            <4>3. PICK n \in Nat : holding \in SUBSET (0 .. n) /\ k \in Nat
                <5>1. Len(signal.values) \in Nat /\ Samples \subseteq 0 .. Len(signal.values)
                    BY SamplesTyped DEF Samples, OnRuns
                <5>2. holding \in SUBSET (0 .. Len(signal.values)) /\ k \in Nat
                    BY <5>1
                <5> QED
                    BY <5>1, <5>2
            <4>4. PICK m : m = Max(holding)
                OBVIOUS
            <4>5. m \in holding /\ k <= m
                BY <4>2, <4>3, <4>4, MaxIs
            <4>6. m = k
                BY <4>2, <4>3, <4>5
            <4> QED
                BY <1>1, <1>4, <2>1, <4>1, <4>2, <4>4, <4>6
        <3>5. time >= ChunkEnd(RunOf(c)) \/ time < ChunkEnd(RunOf(c))
            BY <3>2
        <3> QED
            BY <3>3, <3>4, <3>5
    <2> QED
        BY <2>3, <2>4
<1> QED
    BY <1>3, <1>4

\* The inductive invariant of the questions for one sample.
Answered ==
    question.of = "sample" /\ answer # Open =>
      answer = <<SampleAt(signal, question.to, FALSE), SampleAt(signal, question.to, TRUE)>>

LEMMA AnsweredKept ==
    ASSUME Put, Answered, [Next]_vars
    PROVE  Answered'
<1>1. CASE Next
    <2>1. signal' = signal /\ question' = question
        BY <1>1, PutKept
    <2> SUFFICES ASSUME question.of = "sample" PROVE Answered'
        BY <2>1 DEF Answered
    <2>2. AskSample
        BY <1>1 DEF Next, AskSample, AskWindow, LeadInStep, DepartureStep, StopStep, MotionStep
    <2> QED
        BY <2>1, <2>2 DEF AskSample, Answered
<1>2. CASE UNCHANGED vars
    BY <1>2 DEF vars, Answered, Open
<1> QED
    BY <1>1, <1>2

LEMMA AnsweredAsRecorded ==
    ASSUME Put, Answered
    PROVE  AnswersAsRecorded
<1> SUFFICES ASSUME question.of = "sample", answer # Open, ~signal.explicit, Disjoint PROVE AnswersAsRecorded
    BY DEF AnswersAsRecorded
<1>1. OnRuns
    BY DEF OnRuns
<1>2. PICK time \in Nat : time = question.to
    BY DEF Put
<1>3. PICK a, b : a = SampleAt(signal, time, FALSE) /\ b = SampleAt(signal, time, TRUE)
    OBVIOUS
<1>4. answer[1] = a /\ answer[2] = b
    <2>1. answer = <<SampleAt(signal, question.to, FALSE), SampleAt(signal, question.to, TRUE)>>
        BY DEF Answered
    <2>2. answer = <<a, b>>
        BY <1>2, <1>3, <2>1
    <2> QED
        BY <2>2
<1>5. a = SampleAt(Stamped(signal), time, FALSE) /\ b = SampleAt(Stamped(signal), time, TRUE)
    BY <1>1, <1>3, SameAnswer
<1>6. PICK holding : holding = {k \in Samples : Within(k, time)}
    OBVIOUS
<1>7. a = IF holding = {} \/ time >= signal.duration THEN NoSample ELSE Held(SpeedOf(Max(holding)))
    BY <1>1, <1>3, <1>6, HolderAnswers
<1>8. holding = {k \in DOMAIN signal.values :
                    /\ TimeOf(k) <= time
                    /\ time < TimeOf(k) + signal.chunks[ChunkForGlobal(signal, k)[1]].period}
    BY <1>6, SamplesTyped DEF Within
<1>9. SameFraction(answer[1], SampleAt(Stamped(signal), time, FALSE))
        /\ SameFraction(answer[2], SampleAt(Stamped(signal), time, TRUE))
    BY <1>4, <1>5 DEF SameFraction
<1> QED
    BY <1>2, <1>4, <1>7, <1>8, <1>9 DEF AnswersAsRecorded

\* For every channel whose runs on a grid do not overlap, and every time: the
\* sample whose period it is answers, none in a gap, and with the times written
\* down the same is answered (TelemetrySource::sample_at).
THEOREM AnswersHold == Spec => []AnswersAsRecorded
<1>1. Init => Put /\ Answered
    BY PutFirst DEF Init, Answered
<1>2. Put /\ [Next]_vars => Put'
    <2>1. UNCHANGED vars /\ Put => Put'
        BY DEF vars, Put
    <2> QED
        BY <2>1, PutKept
<1>3. Put /\ Answered => AnswersAsRecorded
    BY AnsweredAsRecorded
<1> QED
    BY <1>1, <1>2, <1>3, AnsweredKept, PTL DEF Spec

=============================================================================
