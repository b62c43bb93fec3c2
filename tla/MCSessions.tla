----------------------------- MODULE MCSessions -----------------------------
(***************************************************************************)
(* Small recordings for Sessions.  A recording begins at the true time     *)
(* "truth"; its clock is the source's own range, GPS week and time of week *)
(* (with a stale week for the first samples), a Unix channel, or missing.  *)
(***************************************************************************)
EXTENDS Sessions

CONSTANTS
  Begins,         \* true times at which files begin
  Lengths,        \* durations
  Longest,        \* the duration of recordings with other clocks
  Stale           \* largest number of samples with a stale week

Content(list, best, drivers) == [laps |-> list, fastest |-> best, driver |-> drivers]

Lap(number, stintLap, start, end) ==
    [number |-> number, stintLap |-> stintLap, start |-> start, end |-> end,
     duration |-> end - start]

Driven(values) == [i \in DOMAIN values |-> [at |-> i - 1, value |-> values[i]]]

\* What a file of the given length records besides its clock: nothing, the
\* middle of a lap, the whole of one and more, or only a short first lap.
Contents(length) ==
    LET cut == <<Lap(1, 1, 0, 1), Lap(2, 2, 1, length)>>
        inner == <<Lap(1, 1, 0, 1), Lap(2, 2, 1, length - 1), Lap(3, 3, length - 1, length)>>
    IN  { Content(<<>>, NoLap, <<>>),
          Content(<<Lap(1, 2, 0, length)>>, NoLap, Driven(<<1>>)),
          Content(<<Lap(1, 1, 0, 1)>>, NoLap, <<>>),
          Content(cut, NoLap, Driven(<<1, NoReading, 2>>)),
          IF length > 2 THEN Content(inner, inner[2], Driven(<<2, 1>>))
                        ELSE Content(cut, NoLap, Driven(<<2>>)) }

Ticks(first, length) == [i \in 1 .. length - first |-> first + i - 1]

File(truth, length, content) ==
    [truth |-> truth, duration |-> length, schema |-> 1,
     range |-> <<>>, week |-> <<>>, itow |-> <<>>, unix |-> <<>>,
     laps |-> content.laps, fastest |-> content.fastest, driver |-> content.driver]

Ranged(file) ==
    [file EXCEPT !.range = <<[hint |-> 1, start |-> file.truth, end |-> file.truth + file.duration]>>]

Sampled(file, first, value(_)) ==
    LET at == Ticks(first, file.duration)
    IN  [i \in DOMAIN at |-> [at |-> at[i], value |-> value(i)]]

Gps(file, first, stale) ==
    [file EXCEPT
        !.itow = Sampled(file, first, LAMBDA i : (file.truth + first + i - 1) % Week),
        !.week = Sampled(file, first,
                    LAMBDA i : IF i <= stale THEN 0 ELSE (file.truth + first + i - 1) \div Week)]

Unix(file, first) ==
    [file EXCEPT !.unix = Sampled(file, first, LAMBDA i : file.truth + first + i - 1)]

\* A counter that runs at another rate is no clock.
Counting(file) == [file EXCEPT !.unix = Sampled(file, 0, LAMBDA i : file.truth + 4 * i)]

Whole(length) == CHOOSE c \in Contents(length) : c.driver = Driven(<<1>>)

\* Any place on the clock with any content, for a source with its own range.
Placed ==
    UNION {{Ranged(File(truth, length, c)) : c \in {c \in Contents(length) : c.laps # <<>>}} :
        truth \in Begins, length \in Lengths}

\* Any kind of clock, for one content.
Clocked ==
    UNION { {f, Unix(f, 1), Counting(f), [Ranged(f) EXCEPT !.schema = 2],
             Gps(f, 0, 0), Gps(f, 1, Stale)} :
            f \in {File(truth, Longest, Whole(Longest)) : truth \in Begins} }

MCRecordings == Placed \cup Clocked

ASSUME ReceiverAssumption ==
    \A f \in MCRecordings : f.range = <<>> /\ GpsDated(f) /\ OneWeek(f) => Synchronises(f)

=============================================================================
