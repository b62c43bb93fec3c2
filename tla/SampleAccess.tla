---------------------------- MODULE SampleAccess ----------------------------
(***************************************************************************)
(* Random access to a channel (telemetry-core/src/lib.rs): which sample    *)
(* holds at a time, for channels on a grid and for channels with one stamp *)
(* per sample.                                                             *)
(*                                                                         *)
(* A channel is [explicit, stamps, chunks, values, duration, discrete]; a  *)
(* chunk is [at, period, count] and its samples are those behind the       *)
(* samples of the chunks before it.  An answer is << >>, no sample, or the *)
(* fraction <<numerator, denominator>>.                                    *)
(***************************************************************************)
EXTENDS Integers, Sequences, FiniteSets, SequencesExt, FiniteSetsExt

NoSample == << >>

\* How many samples the first chunks have, for each number of chunks.
Counted(chunks) ==
    LET upTo[c \in 0..Len(chunks)] == IF c = 0 THEN 0 ELSE upTo[c - 1] + chunks[c].count
    IN  upTo

SampleBase(channel, c) == Counted(channel.chunks)[c - 1]

Chunks == [at : Nat, period : Nat, count : Nat]

Channels ==
    [explicit : BOOLEAN, stamps : Seq(Nat), chunks : Seq(Chunks), values : Seq(Int),
     duration : Nat, discrete : BOOLEAN]

IsSignal(channel) ==
    /\ channel \in Channels
    /\ \A c \in 2..Len(channel.chunks) : channel.chunks[c].at >= channel.chunks[c - 1].at
    /\ Len(channel.values) = Counted(channel.chunks)[Len(channel.chunks)]
    /\ channel.explicit =>
         /\ Len(channel.stamps) = Len(channel.values)
         /\ \A k \in 2..Len(channel.stamps) : channel.stamps[k] >= channel.stamps[k - 1]

\* slice::partition_point of the keys at or before a time, on ascending keys.
CountUpTo(keys, time) == Cardinality({i \in DOMAIN keys : keys[i] <= time})

\* The last chunk that starts by sample k, and the place of k in it (from 1).
ChunkForGlobal(channel, k) ==
    LET c == Max({i \in DOMAIN channel.chunks : SampleBase(channel, i) < k})
    IN  <<c, k - SampleBase(channel, c)>>

Decode(channel, c, local) == channel.values[SampleBase(channel, c) + local]

GridTime(chunk, local) == chunk.at + (local - 1) * chunk.period

SampleTime(channel, c, local) ==
    IF channel.explicit THEN channel.stamps[SampleBase(channel, c) + local]
    ELSE GridTime(channel.chunks[c], local)

ChunkEnd(chunk) == chunk.at + chunk.count * chunk.period

Held(value) == <<value, 1>>

Between(a, b, passed, interval) ==
    IF interval = 0 THEN Held(a) ELSE <<a * interval + (b - a) * passed, interval>>

\* Wrong: the next run is joined wherever it starts.
AfterGridAnywhere(channel, c, local) ==
    LET chunk == channel.chunks[c]
    IN  IF local < chunk.count
        THEN <<Decode(channel, c, local + 1), GridTime(chunk, local + 1)>>
        ELSE IF /\ c < Len(channel.chunks) /\ channel.chunks[c + 1].count > 0
             THEN <<Decode(channel, c + 1, 1), channel.chunks[c + 1].at>>
             ELSE << >>

\* The sample a value on a grid is drawn to: the next of its run, or the first
\* of a run that starts where this one ends.
AfterOnGrid(channel, c, local) ==
    LET chunk == channel.chunks[c]
    IN  IF local < chunk.count
        THEN <<Decode(channel, c, local + 1), GridTime(chunk, local + 1)>>
        ELSE IF /\ c < Len(channel.chunks) /\ channel.chunks[c + 1].count > 0
                /\ channel.chunks[c + 1].at = ChunkEnd(chunk)
             THEN <<Decode(channel, c + 1, 1), channel.chunks[c + 1].at>>
             ELSE << >>

LastLocal(chunk, time) == Min({(time - chunk.at) \div chunk.period + 1, chunk.count})

DrawnTo(value, at, after, time) ==
    IF time = at \/ after = << >> THEN Held(value)
    ELSE Between(value, after[1], time - at, after[2] - at)

\* The value of a sample on a grid, from its time on.
FromSample(channel, c, local, time, linear) ==
    IF ~linear \/ channel.discrete THEN Held(Decode(channel, c, local))
    ELSE DrawnTo(Decode(channel, c, local), GridTime(channel.chunks[c], local),
                 AfterOnGrid(channel, c, local), time)

\* A run answers until it ends.
InRun(channel, c, time, linear) ==
    LET chunk == channel.chunks[c]
    IN  IF c = 0 THEN NoSample
        ELSE IF time >= ChunkEnd(chunk) \/ chunk.count = 0 \/ chunk.period = 0 THEN NoSample
        ELSE FromSample(channel, c, LastLocal(chunk, time), time, linear)

\* The latest run that has started answers.
OnGrid(channel, time, linear) ==
    InRun(channel, CountUpTo([i \in DOMAIN channel.chunks |-> channel.chunks[i].at], time), time, linear)

RunOfStamp(channel, k) == channel.chunks[ChunkForGlobal(channel, k)[1]]

\* The next stamp is of another run and more than a period away.
BreaksAfter(channel, k, period) ==
    /\ k < Len(channel.stamps) /\ period > 0
    /\ ChunkForGlobal(channel, k + 1)[1] # ChunkForGlobal(channel, k)[1]
    /\ channel.stamps[k + 1] > channel.stamps[k] + period

\* A stamp answers until the next; before a break for its period only.
FromStamp(channel, k, period, time, linear) ==
    LET at == channel.stamps[k]
        a == channel.values[k]
    IN  IF time = at THEN Held(a)
        ELSE IF BreaksAfter(channel, k, period) THEN (IF time < at + period THEN Held(a) ELSE NoSample)
        ELSE IF ~linear \/ channel.discrete \/ k = Len(channel.stamps) THEN Held(a)
        ELSE Between(a, channel.values[k + 1], time - at, channel.stamps[k + 1] - at)

LatestStamp(channel, k, time, linear) ==
    IF k = 0 THEN NoSample ELSE FromStamp(channel, k, RunOfStamp(channel, k).period, time, linear)

\* The latest stamp answers.
AtStamp(channel, time, linear) ==
    LatestStamp(channel, CountUpTo(channel.stamps, time), time, linear)

SampleAt(channel, time, linear) ==
    IF channel.chunks = << >> \/ time >= channel.duration THEN NoSample
    ELSE IF channel.explicit THEN AtStamp(channel, time, linear)
    ELSE OnGrid(channel, time, linear)

\* A channel of the same samples with every time written down.
Stamped(channel) ==
    [channel EXCEPT !.explicit = TRUE,
                    !.stamps = [k \in DOMAIN channel.values |->
                                  LET c == ChunkForGlobal(channel, k)
                                  IN  GridTime(channel.chunks[c[1]], c[2])]]

=============================================================================
