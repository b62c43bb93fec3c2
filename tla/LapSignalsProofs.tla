-------------------------- MODULE LapSignalsProofs --------------------------
(***************************************************************************)
(* Proofs about LapSignals: the lap counter that is read is the strongest, *)
(* in whatever order a recording's channels come; and a lap timer that     *)
(* runs true parts laps at the beacons, however late it shows them.        *)
(***************************************************************************)
EXTENDS LapSignals, ListProofs

Counter(k) == recording.counters[k]

(* The counters of a class among the first ones. *)
Seen(class) ==
    {k \in 1 .. (next - 1) : Eligible(Counter(k)) /\ ClassOf(Counter(k)) = class}

(* No counter of the class seen so far beats the one that is held, and those
   before it lose to it. *)
HoldsBest(class) ==
    /\ best[class] # 0 => best[class] \in Seen(class)
    /\ \A k \in Seen(class) :
          /\ best[class] # 0
          /\ ~Beats(Counter(k), Counter(best[class]))
          /\ k < best[class] => Beats(Counter(best[class]), Counter(k))

SelectionInv ==
    /\ recording \in Recordings
    /\ best \in [Classes \cup {"selected"} -> Nat]
    /\ next \in Nat \ {0}
    /\ task = "counters" =>
          /\ best["selected"] = 0
          /\ next <= Len(recording.counters) + 1
          /\ \A class \in Classes : HoldsBest(class)
    /\ StrongestCounterIsRead

CounterType == [rank : Nat, populated : BOOLEAN, crossings : Nat, laps : Nat]

LEMMA CountersTyped ==
    ASSUME \A r \in Recordings : IsRecording(r), recording \in Recordings
    PROVE  recording.counters \in Seq(CounterType)
BY DEF IsRecording, CounterType

LEMMA InitSelection == SignalsInit => SelectionInv
<1> SUFFICES ASSUME SignalsInit PROVE SelectionInv
    OBVIOUS
<1>1. next = 1 /\ task = "counters" /\ recording \in Recordings
    BY DEF SignalsInit
<1>2. \A class \in Classes \cup {"selected"} : best[class] = 0
    BY DEF SignalsInit
<1>3. best \in [Classes \cup {"selected"} -> Nat]
    BY DEF SignalsInit
<1>4. \A class : Seen(class) = {}
    BY <1>1 DEF Seen
<1>5. \A class \in Classes : HoldsBest(class)
    BY <1>2, <1>4 DEF HoldsBest
<1> QED
    BY <1>1, <1>2, <1>3, <1>5 DEF SelectionInv, StrongestCounterIsRead

\* Beating is transitive within a class.
LEMMA BeatsOrders ==
    ASSUME NEW a \in CounterType, NEW b \in CounterType, NEW c \in CounterType,
           ClassOf(a) = ClassOf(b), ClassOf(b) = ClassOf(c)
    PROVE  /\ ~Beats(a, a)
           /\ Beats(a, b) => ~Beats(b, a)
           /\ Beats(a, b) /\ ~Beats(c, b) => ~Beats(c, a) /\ Beats(a, c)
BY DEF Beats, ClassOf, CounterType

\* The next counter is the only one a step adds to those seen.
LEMMA SeenGrows ==
    ASSUME SelectionInv, NextCounter, NEW class
    PROVE  Seen(class)' = Seen(class) \cup
              (IF Eligible(Counter(next)) /\ ClassOf(Counter(next)) = class THEN {next} ELSE {})
<1>1. recording' = recording /\ next' = next + 1 /\ next \in Nat \ {0}
    BY DEF NextCounter, SelectionInv
<1>2. 1 .. (next' - 1) = (1 .. (next - 1)) \cup {next}
    BY <1>1
<1> QED
    BY <1>1, <1>2 DEF Seen, Counter

LEMMA KeepsOther ==
    ASSUME SelectionInv, NextCounter, NEW class \in Classes,
           best'[class] = best[class], Seen(class)' = Seen(class)
    PROVE  HoldsBest(class)'
<1>1. HoldsBest(class) /\ recording' = recording
    BY DEF SelectionInv, NextCounter
<1> QED
    BY <1>1 DEF HoldsBest, Counter

LEMMA BetterSelection ==
    ASSUME \A r \in Recordings : IsRecording(r), SelectionInv, BetterCounter
    PROVE  SelectionInv'
<1> DEFINE c == Counter(next)
<1>1. PICK mine \in Classes : mine = ClassOf(c)
    BY DEF ClassOf, Classes
<1>2. NextCounter /\ Eligible(c) /\ best' = [best EXCEPT ![mine] = next]
    BY <1>1 DEF BetterCounter, Improves, Counter
<1>3. /\ recording' = recording /\ next' = next + 1 /\ task = "counters" /\ task' = task
      /\ next \in Nat \ {0} /\ next <= Len(recording.counters)
    BY <1>2 DEF NextCounter, SelectionInv
<1>4. recording.counters \in Seq(CounterType)
    BY CountersTyped DEF SelectionInv
<1>5. /\ best'[mine] = next
      /\ \A class \in Classes \cup {"selected"} : class # mine => best'[class] = best[class]
      /\ best' \in [Classes \cup {"selected"} -> Nat]
    BY <1>2, <1>3, <1>1 DEF SelectionInv
<1>6. best'["selected"] = 0
    BY <1>3, <1>1, <1>5 DEF SelectionInv, Classes
<1>7. Seen(mine)' = Seen(mine) \cup {next}
    BY <1>2, <1>1, SeenGrows
<1>8. \A k \in Seen(mine) : k < next /\ Counter(k) \in CounterType /\ ClassOf(Counter(k)) = mine
    BY <1>3, <1>4 DEF Seen, Counter
<1>9. c \in CounterType
    BY <1>3, <1>4 DEF Counter
<1>10. \A k \in Seen(mine) : ~Beats(Counter(k), c) /\ Beats(c, Counter(k))
    <2> SUFFICES ASSUME NEW k \in Seen(mine) PROVE ~Beats(Counter(k), c) /\ Beats(c, Counter(k))
        OBVIOUS
    <2> DEFINE b == Counter(best[mine])
    <2>1. best[mine] # 0 /\ best[mine] \in Seen(mine) /\ ~Beats(Counter(k), b)
        BY <1>3, <1>1 DEF SelectionInv, HoldsBest
    <2>2. Beats(c, b)
        BY <1>1, <2>1 DEF BetterCounter, Improves, Counter
    <2>3. b \in CounterType /\ ClassOf(b) = mine /\ Counter(k) \in CounterType /\ ClassOf(Counter(k)) = mine
        BY <1>8, <2>1
    <2> HIDE DEF b, c
    <2> QED
        BY <1>1, <1>9, <2>1, <2>2, <2>3, BeatsOrders
<1>11. HoldsBest(mine)'
    <2>1. \A k : Counter(k)' = Counter(k)
        BY <1>3 DEF Counter
    <2>2. ~Beats(c, c)
        BY <1>9, BeatsOrders
    <2>3. \A k \in Seen(mine)' :
             /\ next # 0
             /\ ~Beats(Counter(k), c)
             /\ k < next => Beats(c, Counter(k))
        BY <1>3, <1>7, <1>10, <2>2
    <2> QED
        BY <1>3, <1>5, <1>7, <2>3 DEF HoldsBest, Counter
<1>12. \A class \in Classes : HoldsBest(class)'
    <2> SUFFICES ASSUME NEW class \in Classes, class # mine PROVE HoldsBest(class)'
        BY <1>11
    <2>1. Seen(class)' = Seen(class)
        BY <1>2, <1>1, SeenGrows
    <2> QED
        BY <1>2, <1>5, <2>1, KeepsOther
<1>13. next' <= Len(recording'.counters) + 1 /\ next' \in Nat \ {0}
    BY <1>3, <1>4
<1> QED
    BY <1>3, <1>5, <1>6, <1>12, <1>13 DEF SelectionInv, StrongestCounterIsRead

LEMMA OtherSelection ==
    ASSUME \A r \in Recordings : IsRecording(r), SelectionInv, OtherCounter
    PROVE  SelectionInv'
<1> DEFINE c == Counter(next)
           mine == ClassOf(c)
<1>1. NextCounter /\ ~Improves(next) /\ best' = best
    BY DEF OtherCounter
<1>2. /\ recording' = recording /\ next' = next + 1 /\ task = "counters" /\ task' = task
      /\ next \in Nat \ {0} /\ next <= Len(recording.counters)
    BY <1>1 DEF NextCounter, SelectionInv
<1>3. recording.counters \in Seq(CounterType)
    BY CountersTyped DEF SelectionInv
<1>4. \A class \in Classes : HoldsBest(class)'
    <2> SUFFICES ASSUME NEW class \in Classes PROVE HoldsBest(class)'
        OBVIOUS
    <2>1. CASE Eligible(c) /\ mine = class
        <3>1. best[class] # 0 /\ ~Beats(c, Counter(best[class]))
            BY <1>1, <2>1 DEF Improves, Counter
        <3>2. best[class] \in Seen(class)
            BY <1>2, <3>1 DEF SelectionInv, HoldsBest
        <3>3. best[class] < next
            BY <1>2, <3>2 DEF Seen
        <3>4. Seen(class)' = Seen(class) \cup {next}
            BY <1>1, <2>1, SeenGrows
        <3>5. HoldsBest(class)
            BY <1>2 DEF SelectionInv
        <3>6. best[class] \in Nat
            BY DEF SelectionInv
        <3>7. ~(next < best[class])
            BY <1>2, <3>3, <3>6
        <3> QED
            BY <1>1, <1>2, <3>1, <3>2, <3>4, <3>5, <3>7 DEF HoldsBest, Counter
    <2>2. CASE ~(Eligible(c) /\ mine = class)
        <3>1. Seen(class)' = Seen(class)
            BY <1>1, <2>2, SeenGrows
        <3> QED
            BY <1>1, <3>1, KeepsOther
    <2> QED
        BY <2>1, <2>2
<1>5. next' <= Len(recording'.counters) + 1 /\ next' \in Nat \ {0}
    BY <1>2, <1>3
<1> QED
    BY <1>1, <1>2, <1>4, <1>5 DEF SelectionInv, StrongestCounterIsRead

\* When every counter has been seen the best of the strongest class is the
\* strongest of all.
LEMMA SelectSelection ==
    ASSUME \A r \in Recordings : IsRecording(r), SelectionInv, Select
    PROVE  SelectionInv'
<1> DEFINE n == Len(recording.counters)
           eligible == {k \in DOMAIN recording.counters : Eligible(Counter(k))}
           read == best'["selected"]
<1>1. recording.counters \in Seq(CounterType) /\ n \in Nat /\ DOMAIN recording.counters = 1 .. n
    <2>1. recording.counters \in Seq(CounterType)
        BY CountersTyped DEF SelectionInv
    <2> QED
        BY <2>1
<1>2. next \in Nat /\ next <= n + 1 /\ next > n /\ recording' = recording /\ task' = "timer" /\ next' = 1
    BY DEF Select, SelectionInv
<1>3. next = n + 1 /\ 1 .. (next - 1) = 1 .. n
    BY <1>1, <1>2
<1>4. \A class \in Classes : HoldsBest(class)
    BY DEF Select, SelectionInv
<1>5. \A class : Seen(class) = {k \in eligible : ClassOf(Counter(k)) = class}
    BY <1>1, <1>3 DEF Seen
<1>6. \A k \in eligible : ClassOf(Counter(k)) \in Classes /\ Counter(k) \in CounterType /\ k \in 1 .. n
    BY <1>1 DEF ClassOf, Classes, Counter
<1>7. /\ best' \in [Classes \cup {"selected"} -> Nat]
      /\ read = IF best["strong"] # 0 THEN best["strong"]
                ELSE IF best["weak"] # 0 THEN best["weak"] ELSE best["constant"]
    BY DEF Select, SelectionInv, Classes
<1>8. \A class \in Classes : best[class] = 0 \/ best[class] \in Seen(class)
    BY <1>4 DEF HoldsBest
<1>9. read = 0 => \A class \in Classes : best[class] = 0
    BY <1>7 DEF Classes
<1>10. ~(0 \in eligible)
    BY <1>6, <1>1
<1>11. read # 0 => read \in eligible
    BY <1>5, <1>7, <1>8 DEF Classes
<1>12. read = 0 <=> eligible = {}
    <2>1. ASSUME read = 0, NEW k \in eligible PROVE FALSE
        BY <1>4, <1>5, <1>6, <1>9, <2>1 DEF HoldsBest
    <2> QED
        BY <1>11, <2>1
<1>13. ASSUME NEW k \in eligible
       PROVE  /\ ~Stronger(Counter(k), Counter(read))
              /\ k < read => Stronger(Counter(read), Counter(k))
    <2> DEFINE c == Counter(k)
               d == Counter(read)
    <2>1. read # 0 /\ read \in eligible
        BY <1>11, <1>12, <1>13
    <2>2. c \in CounterType /\ d \in CounterType
        BY <1>6, <1>13, <2>1
    <2>3. CASE ClassOf(c) = ClassOf(d)
        <3>1. k \in Seen(ClassOf(c)) /\ read \in Seen(ClassOf(c)) /\ ClassOf(c) \in Classes
            BY <1>5, <1>6, <1>13, <2>1, <2>3
        <3>2. best[ClassOf(c)] = read
            <4>1. \A class \in Classes : best[class] # 0 => ClassOf(Counter(best[class])) = class
                BY <1>5, <1>8
            <4>2. ClassOf(d) \in Classes
                BY <1>6, <2>1
            <4> QED
                BY <1>7, <2>1, <2>3, <4>1, <4>2 DEF Classes
        <3>3. ~Beats(c, d) /\ (k < read => Beats(d, c))
            BY <1>4, <3>1, <3>2 DEF HoldsBest
        <3> HIDE DEF c, d
        <3>4. ~Stronger(c, d) /\ (k < read => Stronger(d, c))
            BY <2>2, <2>3, <3>3 DEF Stronger, Beats, ClassOf, CounterType
        <3> QED
            BY <3>4 DEF c, d
    <2>4. CASE ClassOf(c) # ClassOf(d)
        <3>1. best[ClassOf(c)] # 0
            BY <1>4, <1>5, <1>6, <1>13 DEF HoldsBest
        <3>2. /\ ClassOf(d) = "strong" \/ (ClassOf(d) = "weak" /\ ClassOf(c) # "strong")
            <4>1. \A class \in Classes : best[class] # 0 => ClassOf(Counter(best[class])) = class
                BY <1>5, <1>8
            <4>2. ClassOf(c) \in Classes
                BY <1>6, <1>13
            <4> QED
                BY <1>7, <2>1, <2>4, <3>1, <4>1, <4>2 DEF Classes
        <3> HIDE DEF c, d
        <3>3. d.crossings > c.crossings
            BY <2>2, <2>4, <3>2 DEF ClassOf, CounterType
        <3>4. Stronger(d, c) /\ ~Stronger(c, d)
            BY <2>2, <3>3 DEF Stronger, CounterType
        <3> QED
            BY <3>4 DEF c, d
    <2> QED
        BY <2>3, <2>4
<1>14. StrongestCounterIsRead'
    BY <1>2, <1>12, <1>13 DEF StrongestCounterIsRead, Counter
<1> QED
    BY <1>2, <1>7, <1>14 DEF SelectionInv

\* Once the counter is selected nothing changes it.
LEMMA TimerSelection ==
    ASSUME SelectionInv, task = "timer", task' \in {"timer", "done"}, next' \in Nat \ {0},
           UNCHANGED <<recording, best>>
    PROVE  SelectionInv'
BY DEF SelectionInv, StrongestCounterIsRead

LEMMA NextSelection ==
    ASSUME \A r \in Recordings : IsRecording(r), SelectionInv, [SignalsNext]_signalsVars
    PROVE  SelectionInv'
<1>1. CASE BetterCounter
    BY <1>1, BetterSelection
<1>2. CASE OtherCounter
    BY <1>2, OtherSelection
<1>3. CASE Select
    BY <1>3, SelectSelection
<1>4. CASE ProgressReset \/ TimerReset \/ RecoveredTimer \/ TimerRuns
    <2>1. NextPair
        BY <1>4 DEF ProgressReset, TimerReset, RecoveredTimer, TimerRuns
    <2>2. next' \in Nat \ {0} /\ task = "timer" /\ task' = "timer" /\ UNCHANGED <<recording, best>>
        BY <2>1 DEF NextPair, SelectionInv
    <2> QED
        BY <2>2, TimerSelection
<1>5. CASE EndOfTimer
    <2>1. next' \in Nat \ {0} /\ task = "timer" /\ task' = "done" /\ UNCHANGED <<recording, best>>
        BY <1>5 DEF EndOfTimer, SelectionInv
    <2> QED
        BY <2>1, TimerSelection
<1>6. CASE UNCHANGED signalsVars
    <2>1. \A k : Counter(k)' = Counter(k)
        BY <1>6 DEF signalsVars, Counter
    <2>2. \A class : Seen(class)' = Seen(class)
        BY <1>6 DEF signalsVars, Seen, Counter
    <2>3. \A class \in Classes : HoldsBest(class) => HoldsBest(class)'
        BY <1>6, <2>2 DEF signalsVars, HoldsBest, Counter
    <2> QED
        BY <1>6, <2>3 DEF signalsVars, SelectionInv, StrongestCounterIsRead
<1> QED
    BY <1>1, <1>2, <1>3, <1>4, <1>5, <1>6 DEF SignalsNext

\* The lap counter read is a strongest one of those walked to a lap, and of
\* equals the first, in every recording (select_lap_counter).
THEOREM StrongestIsRead ==
    ASSUME \A r \in Recordings : IsRecording(r)
    PROVE  SignalsSpec => []StrongestCounterIsRead
<1>1. SelectionInv => StrongestCounterIsRead
    BY DEF SelectionInv
<1>2. SelectionInv /\ [SignalsNext]_signalsVars => SelectionInv'
    BY NextSelection
<1> QED
    BY <1>1, <1>2, InitSelection, PTL DEF SignalsSpec

-----------------------------------------------------------------------------
(* The lap timer                                                           *)

(* A recording whose timer runs true, read with sensible limits. *)
Timing ==
    /\ \A r \in Recordings : IsRecording(r)
    /\ {MinDrop, Latency} \subseteq Nat /\ Milli \in Nat \ {0} /\ Latency <= MinDrop
    /\ recording \in Recordings
    /\ RunsTrue

LEMMA DivExact ==
    ASSUME NEW s \in Nat \ {0}, NEW x \in Int
    PROVE  (s * x) \div s = x
OBVIOUS

LEMMA DivGrows ==
    ASSUME NEW s \in Nat \ {0}, NEW x \in Int, NEW y \in Int, x <= y
    PROVE  x \div s <= y \div s /\ x \div s \in Int /\ y \div s \in Int
OBVIOUS

LEMMA TimesGrows ==
    ASSUME NEW s \in Nat, NEW x \in Int, NEW y \in Int, x <= y
    PROVE  s * x <= s * y /\ s * x \in Int /\ s * y \in Int /\ s * y - s * x = s * (y - x)
OBVIOUS

LEMMA TimerTyped ==
    ASSUME Timing
    PROVE  /\ Len(recording.timer) \in Nat /\ DOMAIN recording.timer = 1 .. Len(recording.timer)
           /\ \A k \in DOMAIN recording.timer : At(k) \in Nat /\ Value(k) \in {NoNumber} \cup Nat
           /\ \A j, k \in DOMAIN recording.timer : j < k => At(j) < At(k)
           /\ recording.beacons \subseteq Nat /\ recording.zeros \subseteq DOMAIN recording.timer
           /\ recording.late \in Nat /\ recording.period \in Nat /\ recording.duration \in Nat
           /\ recording.late <= Latency
           /\ Scale \in Nat \ {0}
<1>1. IsRecording(recording)
    BY DEF Timing
<1>2. recording.timer \in Seq([at : Nat, value : {NoNumber} \cup Nat])
    BY <1>1 DEF IsRecording
<1>3. Len(recording.timer) \in Nat /\ DOMAIN recording.timer = 1 .. Len(recording.timer)
    BY <1>2
<1>4. \A k \in DOMAIN recording.timer : recording.timer[k] \in [at : Nat, value : {NoNumber} \cup Nat]
    BY <1>2, ElementOfSeq, <1>3
<1>5. \A k \in DOMAIN recording.timer : At(k) \in Nat /\ Value(k) \in {NoNumber} \cup Nat
    BY <1>4 DEF At, Value
<1>6. \A j, k \in DOMAIN recording.timer : j < k => At(j) < At(k)
    BY <1>1 DEF IsRecording, At
<1>7. Scale \in Nat \ {0}
    <2>1. recording.unit \in {"s", "ms", ""}
        BY <1>1 DEF Timing, IsRecording, RunsTrue
    <2>2. Scale = 1 \/ Scale = Milli
        BY <2>1 DEF Scale
    <2>3. Milli \in Nat \ {0}
        BY DEF Timing
    <2> QED
        BY <2>2, <2>3
<1> QED
    BY <1>1, <1>3, <1>5, <1>6, <1>7 DEF IsRecording, Timing, RunsTrue

\* What RunsTrue says of one sample, of two, and of two beacons.
LEMMA Runs ==
    ASSUME Timing
    PROVE  /\ ~recording.progress
           /\ \A k \in recording.zeros : Value(k) \in {NoNumber, 0}
           /\ \A a, b \in recording.beacons : a < b => b - a > recording.period
           /\ \A k \in 2 .. Len(recording.timer) : At(k) - At(k - 1) <= recording.period
           /\ \A k \in DOMAIN recording.timer : Sound(k) =>
                 /\ Begun(k) = {} => Value(k) >= Scale * At(k)
                 /\ Begun(k) # {} => Value(k) = Scale * (At(k) - Max(Begun(k)))
           /\ \A j, k \in DOMAIN recording.timer : Sound(j) /\ Sound(k) /\ Begun(j) = Begun(k) =>
                 Value(k) - Value(j) = Scale * (At(k) - At(j))
BY DEF Timing, RunsTrue

LEMMA LastBegun ==
    ASSUME Timing, NEW k \in DOMAIN recording.timer, Begun(k) # {}
    PROVE  Max(Begun(k)) \in Begun(k) /\ \A b \in Begun(k) : b <= Max(Begun(k))
<1>1. At(k) \in Nat /\ Begun(k) \in SUBSET (0 .. At(k))
    <2>1. At(k) \in Nat /\ recording.late \in Nat /\ recording.beacons \subseteq Nat
        BY TimerTyped
    <2> QED
        BY <2>1 DEF Begun
<1> QED
    BY <1>1, MaxIs

LEMMA SinceIs ==
    ASSUME Timing, NEW b \in recording.beacons
    PROVE  Since(b) \in Nat /\ \A a \in recording.beacons : a < b => a <= Since(b)
<1> DEFINE S == {0} \cup {a \in recording.beacons : a < b}
<1>1. b \in Nat /\ S \in SUBSET (0 .. b) /\ S # {}
    BY TimerTyped
<1>2. Max(S) \in S /\ \A y \in S : y <= Max(S)
    BY <1>1, MaxIs
<1>3. Since(b) = Max(S)
    BY DEF Since
<1> HIDE DEF S
<1>4. Since(b) \in Nat
    <2>1. Max(S) \in 0 .. b
        BY <1>1, <1>2, Zenon
    <2> QED
        BY <1>1, <1>3, <2>1
<1>5. ASSUME NEW a \in recording.beacons, a < b PROVE a <= Since(b)
    <2>1. a \in S
        BY <1>5 DEF S
    <2> QED
        BY <1>2, <1>3, <2>1
<1> QED
    BY <1>4, <1>5

\* Before a beacon is shown the timer shows at least the time since the one before.
LEMMA RunsSince ==
    ASSUME Timing, NEW k \in DOMAIN recording.timer, Sound(k),
           NEW b \in recording.beacons, At(k) < b + recording.late
    PROVE  Value(k) >= Scale * (At(k) - Since(b)) /\ Value(k) \in Nat
<1>1. /\ At(k) \in Nat /\ Value(k) \in Nat /\ Scale \in Nat /\ recording.late \in Nat
      /\ recording.beacons \subseteq Nat
    BY TimerTyped DEF Sound, Numbers
<1>2. Since(b) \in Nat
    BY SinceIs
<1>3. CASE Begun(k) = {}
    <2>1. Value(k) >= Scale * At(k)
        BY <1>3, Runs
    <2>2. Scale * (At(k) - Since(b)) <= Scale * At(k) /\ Scale * At(k) \in Int
          /\ Scale * (At(k) - Since(b)) \in Int
        BY <1>1, <1>2, TimesGrows
    <2> QED
        BY <1>1, <2>1, <2>2
<1>4. CASE Begun(k) # {}
    <2>1. PICK m \in Begun(k) : m = Max(Begun(k)) /\ Value(k) = Scale * (At(k) - m)
        BY <1>4, LastBegun, Runs
    <2>2. m \in recording.beacons /\ m + recording.late <= At(k)
        BY <2>1 DEF Begun
    <2>3. m < b
        BY <1>1, <2>2
    <2>4. m <= Since(b) /\ m \in Nat
        BY <1>1, <2>2, <2>3, SinceIs
    <2>5. At(k) - Since(b) <= At(k) - m
        BY <1>1, <1>2, <2>4
    <2>6. Scale * (At(k) - Since(b)) <= Scale * (At(k) - m)
        BY <1>1, <1>2, <2>4, <2>5, TimesGrows
    <2> QED
        BY <1>1, <2>1, <2>6
<1> QED
    BY <1>3, <1>4

\* Once a beacon is shown the timer shows no more than the time since it.
LEMMA RunsFrom ==
    ASSUME Timing, NEW k \in DOMAIN recording.timer, Sound(k), NEW b \in Begun(k)
    PROVE  Value(k) <= Scale * (At(k) - b)
<1>1. PICK m \in Begun(k) : m = Max(Begun(k)) /\ b <= m /\ Value(k) = Scale * (At(k) - m)
    BY LastBegun, Runs
<1>2. m \in Nat /\ b \in Nat /\ At(k) \in Nat /\ Scale \in Nat
    BY TimerTyped DEF Begun
<1>3. At(k) - m <= At(k) - b
    BY <1>1, <1>2
<1> QED
    BY <1>1, <1>2, <1>3, TimesGrows

(* A beacon whose lap is long enough, first shown at a sound sample behind *)
(* a sound one.                                                            *)
Parting(b, k) ==
    /\ b \in recording.beacons /\ b > 0
    /\ b - Since(b) > MinDrop + 2 * recording.period
    /\ k \in Shown(b) /\ k > 1 /\ Sound(k - 1) /\ Sound(k)

LEMMA PartingPlace ==
    ASSUME Timing, NEW b, NEW k, Parting(b, k)
    PROVE  /\ k \in DOMAIN recording.timer /\ k - 1 \in DOMAIN recording.timer
           /\ At(k) >= b + recording.late /\ At(k - 1) < b + recording.late
           /\ At(k) - At(k - 1) <= recording.period /\ At(k - 1) < At(k)
           /\ b \in recording.beacons /\ b \in Nat
<1>1. k \in DOMAIN recording.timer /\ k > 1 /\ b \in recording.beacons
    BY DEF Parting, Shown
<1>2. k \in 2 .. Len(recording.timer) /\ k - 1 \in DOMAIN recording.timer /\ k - 1 < k
    BY <1>1, TimerTyped
<1>3. At(k) >= b + recording.late /\ At(k - 1) < b + recording.late
    BY <1>2 DEF Parting, Shown
<1>4. At(k) - At(k - 1) <= recording.period
    BY <1>2, Runs
<1> QED
    BY <1>1, <1>2, <1>3, <1>4, TimerTyped

LEMMA PartingShows ==
    ASSUME Timing, NEW b, NEW k, Parting(b, k)
    PROVE  Value(k) = Scale * (At(k) - b)
<1>1. /\ k \in DOMAIN recording.timer /\ k - 1 \in DOMAIN recording.timer
      /\ At(k) >= b + recording.late /\ At(k - 1) < b + recording.late
      /\ At(k) - At(k - 1) <= recording.period /\ b \in recording.beacons /\ b \in Nat
    BY PartingPlace
<1>2. At(k) \in Nat /\ At(k - 1) \in Nat /\ recording.late \in Nat /\ recording.period \in Nat
      /\ recording.beacons \subseteq Nat
    BY <1>1, TimerTyped
<1>3. b \in Begun(k)
    BY <1>1, <1>2 DEF Begun
<1>4. PICK m \in Begun(k) : m = Max(Begun(k)) /\ b <= m /\ Value(k) = Scale * (At(k) - m)
    <2>1. Sound(k)
        BY DEF Parting
    <2> QED
        BY <1>1, <1>3, <2>1, LastBegun, Runs
<1>5. m \in recording.beacons /\ m + recording.late <= At(k) /\ m \in Nat
    BY <1>2, <1>4 DEF Begun
<1>6. b < m => m - b > recording.period
    BY <1>1, <1>5, Runs
<1>7. m = b
    BY <1>1, <1>2, <1>4, <1>5, <1>6
<1> QED
    BY <1>4, <1>7

\* The timer does not go on as it did before the beacon.
LEMMA PartingStands ==
    ASSUME Timing, NEW b, NEW k, Parting(b, k)
    PROVE  ~Resumes(k - 1)
<1>1. /\ k \in DOMAIN recording.timer /\ k - 1 \in DOMAIN recording.timer
      /\ At(k) >= b + recording.late /\ At(k - 1) < b + recording.late
      /\ b \in recording.beacons /\ b \in Nat /\ Sound(k - 1)
    BY PartingPlace DEF Parting
<1>2. /\ Value(k - 1) >= Scale * (At(k - 1) - Since(b)) /\ Value(k - 1) \in Nat
    BY <1>1, RunsSince
<1>3. Since(b) \in Nat /\ b - Since(b) > MinDrop + 2 * recording.period
    BY <1>1, SinceIs DEF Parting
<1>4. /\ At(k) \in Nat /\ At(k - 1) \in Nat /\ Scale \in Nat \ {0} /\ recording.late \in Nat
      /\ recording.period \in Nat /\ MinDrop \in Nat /\ Latency \in Nat /\ Latency <= MinDrop
      /\ k \in Nat
    <2>1. MinDrop \in Nat /\ Latency \in Nat /\ Latency <= MinDrop
        BY DEF Timing
    <2>2. DOMAIN recording.timer \subseteq Nat
        BY TimerTyped
    <2> QED
        BY <1>1, <2>1, <2>2, TimerTyped
<1> SUFFICES ASSUME NEW j \in DOMAIN recording.timer, j > k, Numbers(j),
                    Seconds(Value(j) - Value(k - 1)) - (At(j) - At(k - 1)) \in -Latency..Latency
             PROVE  FALSE
    BY <1>4 DEF Resumes
<1>5. At(j) \in Nat /\ At(j) > At(k) /\ Value(j) \in Nat
    BY <1>1, TimerTyped DEF Numbers
<1>6. Value(j) <= Scale * (At(j) - b)
    <2>1. b \in Begun(j)
        BY <1>1, <1>4, <1>5 DEF Begun
    <2>2. CASE Sound(j)
        BY <2>1, <2>2, RunsFrom
    <2>3. CASE ~Sound(j)
        <3>1. Value(j) = 0
            BY <2>3, Runs DEF Sound, Numbers
        <3>2. At(j) - b >= 0 /\ At(j) - b \in Int
            BY <1>1, <1>4, <1>5
        <3>3. Scale * 0 <= Scale * (At(j) - b) /\ Scale * (At(j) - b) \in Int
            BY <1>4, <3>2, TimesGrows
        <3> QED
            BY <1>4, <3>1, <3>3
    <2> QED
        BY <2>2, <2>3
<1> DEFINE x == At(j) - b
           y == At(k - 1) - Since(b)
<1>7. x \in Int /\ y \in Int
    BY <1>1, <1>3, <1>4, <1>5
<1>8. Scale * x \in Int /\ Scale * y \in Int /\ Scale * x - Scale * y = Scale * (x - y)
    BY <1>4, <1>7
<1>9. Value(j) - Value(k - 1) <= Scale * (x - y) /\ Value(j) - Value(k - 1) \in Int /\ Scale * (x - y) \in Int
    <2> HIDE DEF x, y
    <2>1. Value(j) <= Scale * x /\ Value(k - 1) >= Scale * y
        BY <1>2, <1>6 DEF x, y
    <2>2. PICK u \in Int, v \in Int : u = Scale * x /\ v = Scale * y
        BY <1>8
    <2>3. u - v = Scale * (x - y)
        BY <1>8, <2>2
    <2>4. Value(j) - Value(k - 1) <= u - v /\ Value(j) - Value(k - 1) \in Int /\ u - v \in Int
        BY <1>2, <1>5, <2>1, <2>2
    <2> QED
        BY <2>3, <2>4
<1>10. Seconds(Value(j) - Value(k - 1)) <= x - y /\ Seconds(Value(j) - Value(k - 1)) \in Int
    <2> HIDE DEF x, y
    <2>1. (Scale * (x - y)) \div Scale = x - y
        BY <1>4, <1>7, DivExact
    <2>2. (Value(j) - Value(k - 1)) \div Scale <= (Scale * (x - y)) \div Scale
          /\ (Value(j) - Value(k - 1)) \div Scale \in Int
        BY <1>4, <1>9, DivGrows
    <2> QED
        BY <2>1, <2>2 DEF Seconds
<1>11. PICK z \in Int : z = Seconds(Value(j) - Value(k - 1))
    BY <1>10
<1>12. z - (At(j) - At(k - 1)) >= -Latency /\ z <= (At(j) - b) - (At(k - 1) - Since(b))
    BY <1>4, <1>5, <1>10, <1>11
<1> QED
    BY <1>1, <1>3, <1>4, <1>5, <1>11, <1>12

LEMMA PartingFalls ==
    ASSUME Timing, NEW b, NEW k, Parting(b, k)
    PROVE  Falls(k - 1) /\ At(k) - Seconds(Value(k)) = b
<1>1. /\ k \in DOMAIN recording.timer /\ k - 1 \in DOMAIN recording.timer
      /\ At(k) >= b + recording.late /\ At(k - 1) < b + recording.late
      /\ At(k) - At(k - 1) <= recording.period /\ At(k - 1) < At(k)
      /\ b \in recording.beacons /\ b \in Nat /\ Sound(k - 1) /\ Sound(k)
    BY PartingPlace DEF Parting
<1>2. /\ Value(k - 1) >= Scale * (At(k - 1) - Since(b)) /\ Value(k - 1) \in Nat
    BY <1>1, RunsSince
<1>3. Since(b) \in Nat /\ b - Since(b) > MinDrop + 2 * recording.period
    BY <1>1, SinceIs DEF Parting
<1>4. /\ At(k) \in Nat /\ At(k - 1) \in Nat /\ Scale \in Nat \ {0} /\ recording.late \in Nat
      /\ recording.period \in Nat /\ MinDrop \in Nat /\ Latency \in Nat
      /\ k \in Nat /\ recording.late <= Latency /\ Value(k) \in Nat
    <2>1. At(k) \in Nat /\ At(k - 1) \in Nat /\ Value(k) \in {NoNumber} \cup Nat
        BY <1>1, TimerTyped, Zenon
    <2>2. Value(k) \in Nat
        BY <1>1, <2>1 DEF Sound, Numbers
    <2>3. MinDrop \in Nat /\ Latency \in Nat
        BY DEF Timing
    <2>4. /\ Scale \in Nat \ {0} /\ recording.late \in Nat /\ recording.period \in Nat
          /\ recording.late <= Latency
        BY TimerTyped, Zenon
    <2>5. k \in Nat
        <3>1. Len(recording.timer) \in Nat /\ k \in 1 .. Len(recording.timer)
            BY <1>1, TimerTyped, Zenon
        <3> QED
            BY <3>1
    <2> QED
        BY <2>1, <2>2, <2>3, <2>4, <2>5, Zenon
<1> DEFINE x == At(k) - b
           y == At(k - 1) - Since(b)
<1>5. x \in Int /\ y \in Int
    BY <1>1, <1>3, <1>4
<1>6. Value(k) = Scale * x
    BY PartingShows
<1>7. Seconds(Value(k)) = x
    <2> HIDE DEF x, y
    <2>1. (Scale * x) \div Scale = x
        BY <1>4, <1>5, DivExact
    <2> QED
        BY <1>6, <2>1, Zenon DEF Seconds
<1>8. Seconds(Value(k - 1) - Value(k)) >= y - x /\ Seconds(Value(k - 1) - Value(k)) \in Int
    <2> HIDE DEF x, y
    <2>1. Scale * x \in Int /\ Scale * y \in Int /\ Scale * y - Scale * x = Scale * (y - x)
          /\ Scale * (y - x) \in Int
        BY <1>4, <1>5
    <2>2. Value(k - 1) >= Scale * y
        BY <1>2 DEF y
    <2>3. PICK u \in Int, v \in Int : u = Scale * x /\ v = Scale * y
        BY <2>1
    <2>4. Scale * (y - x) <= Value(k - 1) - Value(k) /\ Value(k - 1) - Value(k) \in Int
        <3>1. v - u <= Value(k - 1) - Value(k)
            BY <1>2, <1>4, <1>6, <2>2, <2>3
        <3>2. Scale * (y - x) = v - u
            BY <2>1, <2>3
        <3> QED
            BY <3>1, <3>2, <1>2, <1>4
    <2>5. (Scale * (y - x)) \div Scale = y - x
        BY <1>4, <1>5, DivExact
    <2> QED
        BY <1>4, <2>1, <2>4, <2>5, DivGrows DEF Seconds
<1>9. Seconds(Value(k - 1) - Value(k)) > MinDrop
    <2>1. y - x > MinDrop
        BY <1>1, <1>3, <1>4
    <2>2. PICK z \in Int : z = Seconds(Value(k - 1) - Value(k))
        BY <1>8
    <2> HIDE DEF x, y
    <2> QED
        BY <1>4, <1>5, <1>8, <2>1, <2>2
<1>10. Seconds(Value(k)) <= Latency + 2 * recording.period
    <2>1. x <= Latency + 2 * recording.period
        BY <1>1, <1>4
    <2> QED
        BY <1>7, <2>1
<1>11. Drops(k - 1)
    <2>1. (k - 1) + 1 = k
        BY <1>4
    <2> QED
        BY <1>9, <1>10, <2>1 DEF Drops
<1>12. Falls(k - 1)
    <2>1. (k - 1) + 1 = k /\ Scale > 0
        BY <1>4
    <2> QED
        BY <1>1, <1>11, <2>1 DEF Falls, Sound
<1> QED
    BY <1>1, <1>4, <1>7, <1>12

(* The reasons there are to part laps at t: a beacon, or a timer that read *)
(* zero while one was passed or for too long.                              *)
HasReason(t) ==
    \/ t \in recording.beacons
    \/ \E k \in recording.zeros : At(k) = t /\ HidBeacon(k)

LEMMA AboveZero ==
    ASSUME NEW x \in Nat
    PROVE  Max({0, x}) = x
<1>1. {0, x} \in SUBSET (0 .. x) /\ {0, x} # {}
    OBVIOUS
<1>2. Max({0, x}) \in {0, x} /\ \A y \in {0, x} : y <= Max({0, x})
    BY <1>1, MaxIs
<1> QED
    BY <1>2

\* A timer that falls and does not resume has a reason.
LEMMA FallHasReason ==
    ASSUME Timing, NEW k \in Nat \ {0}, k < Len(recording.timer), Falls(k), ~Resumes(k)
    PROVE  HasReason(Max({0, At(k + 1) - Seconds(Value(k + 1))}))
<1>1. /\ k \in DOMAIN recording.timer /\ k + 1 \in DOMAIN recording.timer /\ At(k) < At(k + 1)
      /\ At(k) \in Nat /\ At(k + 1) \in Nat /\ recording.late \in Nat /\ recording.beacons \subseteq Nat
      /\ Scale \in Nat \ {0} /\ MinDrop \in Nat /\ Latency \in Nat
    <2>1. k \in 1 .. Len(recording.timer) /\ k + 1 \in 1 .. Len(recording.timer) /\ k < k + 1
        BY TimerTyped
    <2> QED
        BY <2>1, TimerTyped DEF Timing
<1>2. Value(k) \in Nat /\ Value(k + 1) \in Nat
    BY <1>1, TimerTyped DEF Falls, Numbers
<1>3. Value(k) - Value(k + 1) > 0
    <2> SUFFICES ASSUME Value(k) - Value(k + 1) <= 0 PROVE FALSE
        BY <1>2
    <2>1. (Value(k) - Value(k + 1)) \div Scale <= 0 \div Scale
          /\ (Value(k) - Value(k + 1)) \div Scale \in Int
        BY <1>1, <1>2, DivGrows
    <2>2. 0 \div Scale = 0
        BY <1>1
    <2> QED
        BY <1>1, <2>1, <2>2 DEF Falls, Drops, Seconds
<1>4. Sound(k)
    <2>1. Value(k) # 0
        BY <1>2, <1>3
    <2> QED
        BY <2>1, Runs DEF Falls, Sound, Numbers
<1>5. ASSUME NEW j \in DOMAIN recording.timer, j > k, Sound(j), Begun(j) = Begun(k)
      PROVE  /\ Value(j) - Value(k) = Scale * (At(j) - At(k))
             /\ At(j) \in Nat /\ At(j) > At(k) /\ Value(j) \in Nat
    BY <1>1, <1>4, <1>5, Runs, TimerTyped DEF Sound, Numbers
<1>6. ASSUME NEW j \in DOMAIN recording.timer, j > k, Begun(j) # Begun(k)
      PROVE  \E b \in Begun(j) : b + recording.late > At(k)
    <2>1. At(j) \in Nat /\ At(k) < At(j)
        BY <1>1, <1>6, TimerTyped
    <2>2. Begun(k) \subseteq Begun(j)
        BY <1>1, <2>1 DEF Begun
    <2>3. PICK b \in Begun(j) : b \notin Begun(k)
        BY <1>6, <2>2
    <2> QED
        BY <1>1, <2>3 DEF Begun
<1>7. CASE Sound(k + 1)
    <2>1. Begun(k + 1) # Begun(k)
        <3> SUFFICES ASSUME Begun(k + 1) = Begun(k) PROVE FALSE
            OBVIOUS
        <3>1. Value(k + 1) - Value(k) = Scale * (At(k + 1) - At(k))
            BY <1>1, <1>5, <1>7
        <3>2. Scale * 0 <= Scale * (At(k + 1) - At(k)) /\ Scale * 0 = 0
            BY <1>1, TimesGrows
        <3> QED
            BY <1>2, <1>3, <3>1, <3>2
    <2>2. Begun(k + 1) # {}
        BY <1>1, <1>6, <2>1
    <2>3. PICK m \in Begun(k + 1) : Value(k + 1) = Scale * (At(k + 1) - m)
        BY <1>1, <1>7, <2>2, LastBegun, Runs
    <2>4. m \in recording.beacons /\ m \in Nat
        BY <1>1, <2>3 DEF Begun
    <2>5. Seconds(Value(k + 1)) = At(k + 1) - m
        <3>1. At(k + 1) - m \in Int
            BY <1>1, <2>4
        <3> QED
            BY <1>1, <2>3, <3>1, DivExact DEF Seconds
    <2>6. At(k + 1) - Seconds(Value(k + 1)) = m
        BY <1>1, <2>4, <2>5
    <2> QED
        BY <2>4, <2>6, AboveZero DEF HasReason
<1>8. CASE ~Sound(k + 1)
    <2>1. k + 1 \in recording.zeros /\ Value(k + 1) = 0
        BY <1>2, <1>8, Runs DEF Falls, Sound, Numbers
    <2>2. At(k + 1) - Seconds(Value(k + 1)) = At(k + 1)
        BY <1>1, <2>1 DEF Seconds
    <2>3. HidBeacon(k + 1)
        <3> SUFFICES ASSUME NEW j \in DOMAIN recording.timer, j > k + 1, Sound(j), At(j) - At(k + 1) <= Confirm
                     PROVE  \E b \in recording.beacons :
                               b + recording.late <= At(j) /\ b + recording.late > At((k + 1) - 1)
            BY <2>1 DEF HidBeacon
        <3>1. j > k /\ (k + 1) - 1 = k
            BY <1>1, TimerTyped
        <3>2. Begun(j) # Begun(k)
            <4> SUFFICES ASSUME Begun(j) = Begun(k) PROVE FALSE
                OBVIOUS
            <4>1. /\ Value(j) - Value(k) = Scale * (At(j) - At(k)) /\ At(j) \in Nat
                BY <1>5, <3>1
            <4>2. Seconds(Value(j) - Value(k)) = At(j) - At(k)
                <5>1. At(j) - At(k) \in Int
                    BY <1>1, <4>1
                <5>2. (Scale * (At(j) - At(k))) \div Scale = At(j) - At(k)
                    BY <1>1, <5>1, DivExact
                <5> QED
                    BY <4>1, <5>2 DEF Seconds
            <4>3. Seconds(Value(j) - Value(k)) - (At(j) - At(k)) = 0
                BY <1>1, <4>1, <4>2
            <4>4. 0 \in -Latency .. Latency
                BY <1>1
            <4>5. Resumes(k)
                BY <4>3, <4>4 DEF Resumes, Sound
            <4> QED
                BY <4>5
        <3>3. PICK b \in Begun(j) : b + recording.late > At(k)
            BY <1>6, <3>1, <3>2
        <3> QED
            BY <3>1, <3>3 DEF Begun
    <2> QED
        BY <1>1, <2>1, <2>2, <2>3, AboveZero DEF HasReason
<1> QED
    BY <1>7, <1>8

(* Every beacon whose lap is long enough and that the timer has shown by   *)
(* now parts laps, and what parts them has a reason.                       *)
PartedSoFar ==
    /\ \A b, k : Parting(b, k) /\ k <= next => b \in resets
    /\ \A t \in resets : HasReason(t)

TimerInv ==
    /\ recording \in Recordings
    /\ next \in Nat \ {0}
    /\ task = "counters" => resets = {}
    /\ task = "timer" /\ RunsTrue => PartedSoFar
    /\ task = "done" /\ RunsTrue => ResetsAreBeacons
    /\ task \in {"counters", "timer", "done"}

(* The limits with which a timer is read. *)
Limits ==
    /\ \A r \in Recordings : IsRecording(r)
    /\ {MinDrop, Latency} \subseteq Nat /\ Milli \in Nat \ {0} /\ Latency <= MinDrop

\* The recording does not change, and with it nothing that is said of it.
LEMMA RecordingStays ==
    ASSUME recording' = recording
    PROVE  /\ RunsTrue' = RunsTrue
           /\ \A b, k : Parting(b, k)' = Parting(b, k)
           /\ \A t : HasReason(t)' = HasReason(t)
<1>1. \A k : At(k)' = At(k) /\ Value(k)' = Value(k)
    BY DEF At, Value
<1>2. \A k : Numbers(k)' = Numbers(k)
    BY <1>1 DEF Numbers
<1>3. \A k : Sound(k)' = Sound(k) /\ Begun(k)' = Begun(k)
    BY <1>1, <1>2 DEF Sound, Begun
<1>4. \A b : Since(b)' = Since(b)
    BY DEF Since
<1>5. \A b : Shown(b)' = Shown(b)
    BY <1>1 DEF Shown
<1>6. \A b, k : Parting(b, k)' = Parting(b, k)
    BY <1>3, <1>4, <1>5 DEF Parting
<1>7. \A k : HidBeacon(k)' = HidBeacon(k)
    BY <1>1, <1>3 DEF HidBeacon
<1>8. \A t : HasReason(t)' = HasReason(t)
    BY <1>1, <1>7 DEF HasReason
<1>9. Greatest' = Greatest
    BY <1>1, <1>2 DEF Greatest
<1>10. Scale' = Scale
    BY <1>9 DEF Scale
<1>11. RunsTrue' = RunsTrue
    BY <1>1, <1>3, <1>10 DEF RunsTrue
<1> QED
    BY <1>6, <1>8, <1>11

LEMMA InitTimer == SignalsInit => TimerInv
BY DEF SignalsInit, TimerInv

\* The pair of samples that shows a beacon parts laps there.
LEMMA PairParts ==
    ASSUME Limits, TimerInv, NextPair, RunsTrue,
           TimerReset \/ RecoveredTimer \/ TimerRuns
    PROVE  PartedSoFar'
<1>1. /\ Timing /\ PartedSoFar /\ recording' = recording /\ next' = next + 1
      /\ next \in Nat \ {0} /\ next < Len(recording.timer)
    BY DEF Limits, TimerInv, NextPair, Timing
<1>2. \A b, k : Parting(b, k)' = Parting(b, k)
    BY <1>1, RecordingStays
<1>3. \A t : HasReason(t)' = HasReason(t)
    BY <1>1, RecordingStays
<1>4. ~recording.progress
    BY <1>1, Runs
<1>5. resets' = resets \/ (TimerReset /\ resets' = resets \cup {Max({0, At(next + 1) - Seconds(Value(next + 1))})})
    BY DEF TimerReset, RecoveredTimer, TimerRuns
<1>6. \A t \in resets' : HasReason(t)'
    <2>1. \A t \in resets : HasReason(t)
        BY <1>1 DEF PartedSoFar
    <2>2. TimerReset => HasReason(Max({0, At(next + 1) - Seconds(Value(next + 1))}))
        BY <1>1, FallHasReason DEF TimerReset
    <2> QED
        BY <1>3, <1>5, <2>1, <2>2
<1>7. ASSUME NEW b, NEW k, Parting(b, k), k <= next' PROVE b \in resets'
    <2>1. k \in DOMAIN recording.timer /\ k \in Nat
        <3>1. k \in DOMAIN recording.timer
            BY <1>1, <1>7, PartingPlace
        <3> QED
            BY <1>1, <3>1, TimerTyped
    <2>2. CASE k <= next
        BY <1>1, <1>5, <1>7, <2>2 DEF PartedSoFar
    <2>3. CASE k = next + 1
        <3>1. k - 1 = next
            BY <1>1, <2>1, <2>3
        <3>2. Falls(next) /\ At(k) - Seconds(Value(k)) = b /\ ~Resumes(next) /\ b \in Nat
            BY <1>1, <1>7, <3>1, PartingFalls, PartingStands, PartingPlace
        <3>3. TimerReset
            BY <1>4, <3>2 DEF RecoveredTimer, TimerRuns
        <3>4. Max({0, At(next + 1) - Seconds(Value(next + 1))}) = b
            BY <2>3, <3>2, AboveZero
        <3> QED
            BY <3>3, <3>4 DEF TimerReset
    <2> QED
        BY <1>1, <1>7, <2>1, <2>2, <2>3
<1> QED
    BY <1>2, <1>6, <1>7 DEF PartedSoFar

\* At the end every sample was looked at.
LEMMA EndParts ==
    ASSUME Limits, TimerInv, EndOfTimer, RunsTrue
    PROVE  ResetsAreBeacons'
<1>1. /\ Timing /\ PartedSoFar /\ recording' = recording /\ task' = "done"
      /\ next \in Nat \ {0} /\ next >= Len(recording.timer)
      /\ resets' = {t \in resets : 0 < t /\ t < recording.duration}
    BY DEF Limits, TimerInv, EndOfTimer, Timing
<1>2. ~recording.progress /\ Len(recording.timer) \in Nat /\ recording.duration \in Nat
      /\ recording.beacons \subseteq Nat /\ DOMAIN recording.timer = 1 .. Len(recording.timer)
    BY <1>1, Runs, TimerTyped
<1>3. \A b : PartedAt(b) = {b}
    BY <1>2 DEF PartedAt
<1>4. ASSUME NEW b \in recording.beacons, Witnessed(b)
      PROVE  PartedAt(b) \cap (1 .. recording.duration - 1) \subseteq resets'
    <2>1. PICK k \in Shown(b) : k > 1 /\ Sound(k - 1) /\ Sound(k)
        BY <1>4 DEF Witnessed
    <2>2. Parting(b, k)
        BY <1>4, <2>1 DEF Witnessed, Parting
    <2>3. k \in 1 .. Len(recording.timer)
        BY <1>2, <2>1 DEF Shown
    <2>4. k <= next
        BY <1>1, <1>2, <2>3
    <2>5. b \in resets
        BY <1>1, <2>2, <2>4 DEF PartedSoFar
    <2> QED
        BY <1>1, <1>2, <1>3, <2>5
<1>5. ASSUME NEW t \in resets'
      PROVE  \/ \E b \in recording.beacons : t \in PartedAt(b)
             \/ \E k \in recording.zeros : At(k) = t /\ (recording.progress \/ HidBeacon(k))
    <2>1. HasReason(t)
        BY <1>1, <1>5 DEF PartedSoFar
    <2> QED
        BY <1>3, <2>1 DEF HasReason
<1>6. \A b : (PartedAt(b)' = PartedAt(b)) /\ (Witnessed(b)' = Witnessed(b))
    BY <1>1 DEF PartedAt, Witnessed, Shown, Since, Sound, Numbers, At, Value
<1>7. \A k : (At(k)' = At(k)) /\ (HidBeacon(k)' = HidBeacon(k))
    BY <1>1 DEF HidBeacon, Sound, Numbers, At, Value
<1> QED
    BY <1>1, <1>4, <1>5, <1>6, <1>7 DEF ResetsAreBeacons

LEMMA NextTimer ==
    ASSUME Limits, TimerInv, [SignalsNext]_signalsVars
    PROVE  TimerInv'
<1>1. CASE BetterCounter \/ OtherCounter
    <2>1. NextCounter
        BY <1>1 DEF BetterCounter, OtherCounter
    <2> QED
        BY <2>1 DEF NextCounter, TimerInv
<1>2. CASE Select
    <2>1. recording' = recording /\ resets' = {} /\ next' = 1 /\ task' = "timer"
        BY <1>2 DEF Select, TimerInv
    <2>2. ASSUME RunsTrue', NEW b, NEW k, Parting(b, k), k <= 1 PROVE FALSE
        <3>1. Timing
            BY <2>1, <2>2, RecordingStays DEF Limits, TimerInv, Timing
        <3>2. k \in DOMAIN recording.timer
            BY <2>2, <3>1, PartingPlace
        <3>3. k \in Nat /\ k > 1
            BY <2>2, <3>1, <3>2, TimerTyped DEF Parting
        <3> QED
            BY <2>2, <3>3
    <2>3. RunsTrue' => PartedSoFar'
        BY <2>1, <2>2, RecordingStays DEF PartedSoFar
    <2> QED
        BY <2>1, <2>3 DEF TimerInv
<1>3. CASE ProgressReset \/ TimerReset \/ RecoveredTimer \/ TimerRuns
    <2>1. NextPair
        BY <1>3 DEF ProgressReset, TimerReset, RecoveredTimer, TimerRuns
    <2>2. recording' = recording /\ next' \in Nat \ {0} /\ task = "timer" /\ task' = "timer"
        BY <2>1 DEF NextPair, TimerInv
    <2>3. ASSUME RunsTrue' PROVE PartedSoFar'
        <3>1. RunsTrue
            BY <2>2, <2>3, RecordingStays
        <3>2. ~ProgressReset
            BY <3>1 DEF RunsTrue, ProgressReset
        <3> QED
            BY <1>3, <2>1, <3>1, <3>2, PairParts
    <2> QED
        BY <2>2, <2>3 DEF TimerInv
<1>4. CASE EndOfTimer
    <2>1. recording' = recording /\ next' = next /\ task' = "done"
        BY <1>4 DEF EndOfTimer
    <2>2. ASSUME RunsTrue' PROVE ResetsAreBeacons'
        BY <1>4, <2>1, <2>2, RecordingStays, EndParts
    <2> QED
        BY <2>1, <2>2 DEF TimerInv
<1>5. CASE UNCHANGED signalsVars
    <2>1. recording' = recording /\ next' = next /\ task' = task /\ resets' = resets
        BY <1>5 DEF signalsVars
    <2>2. PartedSoFar' = PartedSoFar
        BY <2>1, RecordingStays DEF PartedSoFar
    <2>3. ResetsAreBeacons' = ResetsAreBeacons
        BY <2>1 DEF ResetsAreBeacons, PartedAt, Witnessed, HidBeacon, Shown, Since, Sound, Numbers, At, Value
    <2> QED
        BY <2>1, <2>2, <2>3, RecordingStays DEF TimerInv
<1> QED
    BY <1>1, <1>2, <1>3, <1>4, <1>5 DEF SignalsNext

(* A lap timer that runs true parts laps at every beacon it shows, to the  *)
(* tick although a dash shows it late, and elsewhere only where it read    *)
(* zero over a beacon or for too long, whatever its unit and its samples   *)
(* that are lost (timer_reset_laps_observed).                              *)
THEOREM TruePartsAtBeacons ==
    ASSUME \A r \in Recordings : IsRecording(r),
           {MinDrop, Latency} \subseteq Nat, Milli \in Nat \ {0}, Latency <= MinDrop
    PROVE  SignalsSpec => [](RunsTrue => ResetsAreBeacons)
<1>1. TimerInv => (RunsTrue => ResetsAreBeacons)
    BY DEF TimerInv, ResetsAreBeacons
<1>2. TimerInv /\ [SignalsNext]_signalsVars => TimerInv'
    BY NextTimer DEF Limits
<1> QED
    BY <1>1, <1>2, InitTimer, PTL DEF SignalsSpec

=============================================================================
