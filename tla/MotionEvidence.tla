--------------------------- MODULE MotionEvidence ---------------------------
(***************************************************************************)
(* What the speed channel says about the car: standing before an instant   *)
(* and the longest stop of an interval (telemetry-core/src/motion.rs);     *)
(* parked at the start, leaving, moving or slow before an instant          *)
(* (lap_evidence.rs).  The lap walk asks these questions of the channel;   *)
(* here one question is put to one channel, and the loop that answers it   *)
(* takes one sample or one bin of time per step.                           *)
(*                                                                         *)
(* Speeds are whole: 0 stands still, Bad is negative or not a number.      *)
(***************************************************************************)
EXTENDS SampleAccess

CONSTANTS
  Cases,       \* a channel and what is asked of it, see IsCase
  Second,
  MaxProbes,   \* MAX_PROBES: bins of one interval
  Circuit,     \* 30 km/h: faster is driving
  Implausible  \* 150 m/s: faster is no evidence

VARIABLES signal, question, scan, answer

vars == <<signal, question, scan, answer>>

Bad == -1
None == -1
Open == << >>   \* not answered yet

IsCase(c) ==
    /\ IsSignal(c.signal) /\ \A k \in DOMAIN c.signal.values : c.signal.values[k] \in Nat \cup {Bad}
    /\ c.question.from \in Nat /\ c.question.to \in Nat
    /\ c.question.of \in {"sample", "lead-in", "departure", "stop", "motion", "window"}

ASSUME MotionAssumption ==
    /\ \A c \in Cases : IsCase(c)
    /\ {Second, MaxProbes} \subseteq Nat \ {0}

ScanAt(position) ==
    [position |-> position, stopped |-> None, movement |-> None, fast |-> None, previous |-> None,
     best |-> << >>, observed |-> 0, driven |-> 0, top |-> None]

-----------------------------------------------------------------------------
(* The samples of the channel, over all chunks                             *)

TimeOf(k) == LET c == ChunkForGlobal(signal, k) IN SampleTime(signal, c[1], c[2])

SpeedOf(k) == signal.values[k]

Positive == {k \in DOMAIN signal.values : SpeedOf(k) > 0}

\* The speed four fifths of the moving samples stay below.
Cruise ==
    LET place == (Cardinality(Positive) * 4) \div 5
        below(v) == Cardinality({k \in Positive : SpeedOf(k) < v})
        upTo(v) == Cardinality({k \in Positive : SpeedOf(k) <= v})
    IN  CHOOSE v \in {SpeedOf(k) : k \in Positive} : below(v) <= place /\ place < upTo(v)

HalfCruise(v) == Positive # {} /\ 2 * v >= Cruise

WellBelowCruise(v) == Positive = {} \/ 5 * v < 2 * Cruise

\* Samples from an instant up to, not at, another.
Window(from, to) == {k \in DOMAIN signal.values : TimeOf(k) >= from /\ TimeOf(k) < to}

\* Within a second; times are unsigned, so a step back is a gap as well.
Follows(before, time) == before <= time /\ time - before <= Second

NoGapIn(window) == \A k \in window : k + 1 \in window => Follows(TimeOf(k), TimeOf(k + 1))

Back(time, by) == IF time < by THEN 0 ELSE time - by

-----------------------------------------------------------------------------
(* Questions answered at once                                              *)

InitiallyParked ==
    LET head == {k \in DOMAIN signal.values : TimeOf(k) <= TimeOf(1) + 3 * Second}
    IN  /\ signal.values # << >>
        /\ \A k \in head : SpeedOf(k) = 0
        /\ TimeOf(Max(head)) >= TimeOf(1) + 2 * Second
        /\ NoGapIn(head)

MovingBefore(time, span) ==
    LET window == Window(Back(time, span), time)
    IN  /\ window # {}
        /\ TimeOf(Min(window)) <= Back(time, span) + Second
        /\ TimeOf(Max(window)) + Second >= time
        /\ NoGapIn(window)
        /\ \A k \in window : SpeedOf(k) > 0
        /\ 4 * Cardinality({k \in window : HalfCruise(SpeedOf(k))}) >= 3 * Cardinality(window)

SlowBefore(time) ==
    LET window == Window(Back(time, 3 * Second), time)
    IN  /\ window # {}
        /\ TimeOf(Min(window)) <= Back(time, 2 * Second)
        /\ TimeOf(Max(window)) + Second >= time
        /\ NoGapIn(window)
        /\ \A k \in window : SpeedOf(k) >= 0 /\ WellBelowCruise(SpeedOf(k))

-----------------------------------------------------------------------------
(* Standing still up to an instant: backwards from the sample that holds   *)

\* The sample, over all chunks, that holds at a time; 0 when none does.
LastSample(time) ==
    IF signal.explicit THEN CountUpTo(signal.stamps, time)
    ELSE LET c == CountUpTo([i \in DOMAIN signal.chunks |-> signal.chunks[i].at], time)
             chunk == signal.chunks[c]
         IN  IF c = 0 THEN 0
             ELSE IF chunk.period = 0 \/ chunk.count = 0 THEN 0
             ELSE SampleBase(signal, c) + Min({(time - chunk.at) \div chunk.period + 1, chunk.count})

\* How long a sample speaks for the time behind it.
Coverage(k) ==
    LET period == signal.chunks[ChunkForGlobal(signal, k)[1]].period
    IN  IF signal.explicit THEN Min({2 * period, Second}) ELSE period

StandsTo(k, since) ==
    /\ SpeedOf(k) = 0
    /\ Min({TimeOf(k) + Coverage(k), signal.duration}) >= since

StandingSince == IF scan.stopped < question.to THEN scan.stopped ELSE None

LeadInStep ==
    /\ question.of = "lead-in" /\ answer = Open
    /\ LET k == scan.position
       IN  IF k = 0 THEN answer' = <<StandingSince>> /\ UNCHANGED scan
           ELSE IF TimeOf(k) > question.to
           THEN scan' = [scan EXCEPT !.position = k - 1] /\ UNCHANGED answer
           ELSE IF TimeOf(k) > scan.stopped THEN answer' = <<None>> /\ UNCHANGED scan
           ELSE IF ~StandsTo(k, scan.stopped) THEN answer' = <<StandingSince>> /\ UNCHANGED scan
           ELSE /\ scan' = [scan EXCEPT !.stopped = TimeOf(k), !.position = k - 1]
                /\ UNCHANGED answer
    /\ UNCHANGED <<signal, question>>

-----------------------------------------------------------------------------
(* Leaving a standstill for good                                           *)

\* Wrong: slow running does not end a fast stretch.
MovedThroughSlow(s, time, v) ==
    LET movement == IF s.movement = None /\ s.stopped # None THEN time ELSE s.movement
    IN  IF HalfCruise(v)
        THEN [s EXCEPT !.movement = movement, !.fast = IF @ = None THEN time ELSE @]
        ELSE [s EXCEPT !.movement = movement]

Moved(s, time, v) ==
    LET movement == IF s.movement = None /\ s.stopped # None THEN time ELSE s.movement
    IN  IF HalfCruise(v)
        THEN [s EXCEPT !.movement = movement, !.fast = IF @ = None THEN time ELSE @]
        ELSE [s EXCEPT !.movement = movement, !.fast = None]

Forgotten(s) == [s EXCEPT !.stopped = None, !.movement = None, !.fast = None]

\* Nothing before a bad sample or a gap is held against what follows.
Seen(s, time, v) ==
    IF v = Bad \/ (s.previous # None /\ ~Follows(s.previous, time)) THEN Forgotten(s) ELSE s

AfterSample(s, time, v) ==
    LET seen == [Seen(s, time, v) EXCEPT !.previous = time]
    IN  IF v = 0 THEN [Forgotten(seen) EXCEPT !.stopped = time]
        ELSE IF v > 0 THEN Moved(seen, time, v) ELSE seen

DepartureStep ==
    /\ question.of = "departure" /\ answer = Open
    /\ LET k == scan.position
           time == TimeOf(k)
           after == AfterSample(scan, time, SpeedOf(k))
           left == SpeedOf(k) > 0 /\ HalfCruise(SpeedOf(k)) /\ time - after.fast >= 3 * Second
       IN  IF k > Len(signal.values) THEN answer' = <<None>> /\ UNCHANGED scan
           ELSE IF k \notin Window(question.from, question.to)
           THEN scan' = [scan EXCEPT !.position = k + 1] /\ UNCHANGED answer
           ELSE IF left THEN answer' = <<after.movement>> /\ UNCHANGED scan
           ELSE scan' = [after EXCEPT !.position = k + 1] /\ UNCHANGED answer
    /\ UNCHANGED <<signal, question>>

-----------------------------------------------------------------------------
(* Bins of an interval                                                     *)

IntervalEnd == Min({question.to, signal.duration})

CeilDiv(a, b) == (a + b - 1) \div b

BinWidth == Max({CeilDiv(IntervalEnd - question.from, MaxProbes), Second})

Bins == IF IntervalEnd <= question.from THEN 0 ELSE CeilDiv(IntervalEnd - question.from, BinWidth)

BinStart(bin) == question.from + (bin - 1) * BinWidth
BinEnd(bin) == Min({BinStart(bin) + BinWidth, IntervalEnd})
Probe(bin) == BinStart(bin) + (BinEnd(bin) - BinStart(bin)) \div 2

MaxAge == IF signal.chunks = << >> THEN 2 * Second
          ELSE Max({2 * signal.chunks[1].period, 2 * Second})

\* Only channels with stamps can be stale, those on a grid have ended.
Stale(time) ==
    LET k == CountUpTo(signal.stamps, time)
    IN  IF ~signal.explicit THEN FALSE
        ELSE IF k = 0 THEN TRUE ELSE time - signal.stamps[k] > MaxAge

OrBad(held) == IF held = NoSample THEN Bad ELSE held[1]

\* The speed in the middle of a bin, or Bad.
SpeedIn(bin) == IF Stale(Probe(bin)) THEN Bad ELSE OrBad(SampleAt(signal, Probe(bin), FALSE))

AfterBin(s, bin) ==
    LET run == IF s.stopped = None THEN BinStart(bin) ELSE s.stopped
        longer == s.best = << >> \/ (s.best # << >> /\ BinEnd(bin) - run > s.best[2] - s.best[1])
    IN  IF SpeedIn(bin) # 0 THEN [s EXCEPT !.stopped = None]
        ELSE [s EXCEPT !.stopped = run, !.best = IF longer THEN <<run, BinEnd(bin)>> ELSE @]

StopStep ==
    /\ question.of = "stop" /\ answer = Open
    /\ IF scan.position > Bins THEN answer' = <<scan.best>> /\ UNCHANGED scan
       ELSE /\ scan' = [AfterBin(scan, scan.position) EXCEPT !.position = @ + 1]
            /\ UNCHANGED answer
    /\ UNCHANGED <<signal, question>>

\* Time observed at a plausible speed, and driven.
Summed(s, bin, v) ==
    LET width == BinEnd(bin) - BinStart(bin)
    IN  IF v = Bad \/ v > Implausible THEN s
        ELSE [s EXCEPT !.observed = @ + width, !.top = Max({@, v}),
                       !.driven = IF v > Circuit THEN @ + width ELSE @]

MotionStep ==
    /\ question.of = "motion" /\ answer = Open
    /\ IF scan.position > Bins
       THEN answer' = <<[observed |-> scan.observed, driven |-> scan.driven, top |-> scan.top]>>
            /\ UNCHANGED scan
       ELSE /\ scan' = [Summed(scan, scan.position, SpeedIn(scan.position)) EXCEPT !.position = @ + 1]
            /\ UNCHANGED answer
    /\ UNCHANGED <<signal, question>>

-----------------------------------------------------------------------------

\* The walk backwards starts at the sample that holds, the others at the front.
First ==
    IF question.of # "lead-in" THEN ScanAt(1)
    ELSE [ScanAt(IF question.to >= signal.duration THEN 0 ELSE LastSample(question.to))
            EXCEPT !.stopped = question.to]

Init ==
    /\ \E c \in Cases : signal = c.signal /\ question = c.question
    /\ scan = First
    /\ answer = Open

AskSample ==
    /\ question.of = "sample" /\ answer = Open
    /\ answer' = <<SampleAt(signal, question.to, FALSE), SampleAt(signal, question.to, TRUE)>>
    /\ UNCHANGED <<signal, question, scan>>

AskWindow ==
    /\ question.of = "window" /\ answer = Open
    /\ answer' = <<InitiallyParked, MovingBefore(question.to, question.to - question.from),
                   SlowBefore(question.to)>>
    /\ UNCHANGED <<signal, question, scan>>

Next == AskSample \/ AskWindow \/ LeadInStep \/ DepartureStep \/ StopStep \/ MotionStep

Spec == Init /\ [][Next]_vars

-----------------------------------------------------------------------------
(* Properties                                                              *)

\* Runs that do not overlap, have samples to a rate and last as long as the
\* channel.
Disjoint ==
    /\ signal.chunks # << >> /\ signal.duration <= ChunkEnd(Last(signal.chunks))
    /\ \A c \in DOMAIN signal.chunks :
         /\ signal.chunks[c].count > 0 /\ signal.chunks[c].period > 0
         /\ c > 1 => ChunkEnd(signal.chunks[c - 1]) <= signal.chunks[c].at

SameFraction(x, y) ==
    x = y \/ (x # NoSample /\ y # NoSample /\ x[1] * y[2] = y[1] * x[2])

\* A channel on a grid answers with the sample whose period it is, none in a
\* gap, and with its times written down it answers alike, drawn lines included
\* (TelemetrySource::sample_at, both arms).
AnswersAsRecorded ==
    LET time == question.to
        within(k) == /\ TimeOf(k) <= time
                     /\ time < TimeOf(k) + signal.chunks[ChunkForGlobal(signal, k)[1]].period
        holding == {k \in DOMAIN signal.values : within(k)}
    IN  question.of = "sample" /\ answer # Open /\ ~signal.explicit /\ Disjoint =>
          /\ answer[1] = IF holding = {} \/ time >= signal.duration THEN NoSample
                         ELSE Held(SpeedOf(Max(holding)))
          /\ SameFraction(answer[1], SampleAt(Stamped(signal), time, FALSE))
          /\ SameFraction(answer[2], SampleAt(Stamped(signal), time, TRUE))

\* Every sample is later than the one before it, also across chunks: runs were
\* recorded one after the other.
InOrder == \A k \in 2..Len(signal.values) : TimeOf(k - 1) < TimeOf(k)

\* From the sample before i to sample j the car is seen moving.
Moving(i, j) == \A k \in i..j : SpeedOf(k) > 0 /\ Follows(TimeOf(k - 1), TimeOf(k))

\* Seen fast for three seconds.
DrivenFast(i, j) ==
    /\ TimeOf(j) - TimeOf(i) >= 3 * Second
    /\ \A k \in i..j : SpeedOf(k) > 0 /\ HalfCruise(SpeedOf(k))
    /\ \A k \in i + 1..j : Follows(TimeOf(k - 1), TimeOf(k))

\* Standing at the sample before i, and then driving off until sample j.
DrivesOff(i, j) == SpeedOf(i - 1) = 0 /\ Moving(i, j) /\ \E k \in i..j : DrivenFast(k, j)

\* A departure is the first sample after a stop, strictly inside the interval
\* asked about, from which the car is seen moving without a gap until it has
\* been fast for three seconds, and it was not so fast for so long before.
\* When there is none, the car was fast for three seconds without having been
\* seen to stop before it drove off from any stop (departure).
DepartureLeavesAStop ==
    LET window == Window(question.from, question.to)
    IN  question.of = "departure" /\ answer # Open /\ InOrder =>
          IF answer[1] = None
          THEN \A i, j \in window :
                 i - 1 \in window /\ DrivesOff(i, j) => \E k, l \in window : l < i /\ DrivenFast(k, l)
          ELSE \E i, j \in window :
                 /\ i - 1 \in window /\ DrivesOff(i, j) /\ TimeOf(i) = answer[1]
                 /\ question.from < answer[1] /\ answer[1] < question.to
                 /\ \A k, l \in window : DrivenFast(k, l) => j <= l

\* Every sample of a lead-in stands still and every time of it is spoken for;
\* the car was then not moving (stationary_lead_in).
LeadInIsSeen ==
    LET samples == {k \in DOMAIN signal.values : TimeOf(k) >= answer[1] /\ TimeOf(k) <= question.to}
    IN  question.of = "lead-in" /\ answer # Open /\ answer # <<None>> /\ InOrder =>
          /\ samples # {} /\ TimeOf(Min(samples)) = answer[1]
          /\ \A k \in samples : SpeedOf(k) = 0
          /\ \A time \in answer[1]..question.to :
               \E k \in samples : TimeOf(k) <= time /\ time <= TimeOf(k) + Coverage(k)
          /\ ~MovingBefore(question.to, question.to - answer[1])

Still(a, b) == \A bin \in a..b : SpeedIn(bin) = 0

\* Every bin of the longest stop stands still, and no longer row of bins does
\* (longest_stop_interval).
StopIsLongest ==
    question.of = "stop" /\ answer # Open =>
      IF answer[1] = << >> THEN \A bin \in 1..Bins : SpeedIn(bin) # 0
      ELSE /\ \E a, b \in 1..Bins : a <= b /\ Still(a, b) /\ answer[1] = <<BinStart(a), BinEnd(b)>>
           /\ \A a, b \in 1..Bins :
                a <= b /\ Still(a, b) => BinEnd(b) - BinStart(a) <= answer[1][2] - answer[1][1]

\* What is said of the motion of a car the samples witness.
MotionIsWitnessed == DepartureLeavesAStop /\ LeadInIsSeen /\ StopIsLongest

=============================================================================
