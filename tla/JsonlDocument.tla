---------------------------- MODULE JsonlDocument ----------------------------
(***************************************************************************)
(* The JSONL document of telemetry-format (src/jsonl): a recording is put  *)
(* on one time lattice and written line by line (align.rs, write.rs), the  *)
(* process may be killed between or inside lines, and what lies on disk is *)
(* read, by its first two lines only and as a whole (mod.rs, read.rs).     *)
(* An extension is then attached to an opened host (attach).               *)
(***************************************************************************)
EXTENDS Integers, Sequences, FiniteSets, SequencesExt, FiniteSetsExt

CONSTANTS
  Takes,          \* recordings to write, see IsTake
  Documents,      \* documents found on disk, see IsDocument
  Hosts,          \* recordings to attach an extension to, see IsHost
  Second, Milli,  \* ticks of a second and of a millisecond
  Tolerance,      \* 50: a period within 1/50 of whole milliseconds is those
  DefaultQuantum

VARIABLES
  recording,
  writer,         \* "open", "writing", "closed", "refused", "killed"
  file,           \* [lines, broken]: broken inside its last line
  phase,          \* of the reader
  out             \* [peek, headers, laps, channels, spans, line, attached]

vars == <<recording, writer, file, phase, out>>

None == -1        \* null, no clock, no hash
Missing == << >>  \* the header alone does not say

\* Values one behind the other over all chunks, None where not finite.
IsTake(r) ==
    /\ r.utc \in Nat \cup {None} /\ r.zone \in BOOLEAN /\ {r.extension, r.compress} \subseteq BOOLEAN
    /\ \A i \in DOMAIN r.channels :
         LET c == r.channels[i]
         IN  /\ Len(c.values) = FoldSeq(LAMBDA chunk, n : n + chunk.count, 0, c.chunks)
             /\ \A k \in DOMAIN c.chunks : {c.chunks[k].period, c.chunks[k].count, c.chunks[k].at} \subseteq Nat
             /\ \A k \in DOMAIN c.labels : c.labels[k] \in Nat
    /\ \A i \in DOMAIN r.laps : /\ r.laps[i].from < r.laps[i].to
                                /\ i > 1 => r.laps[i].from >= r.laps[i - 1].from

IsDocument(d) == d.broken \in BOOLEAN /\ d.lines # << >>

IsHost(h) == h.utc \in Nat \cup {None} /\ h.hash \in Nat \cup {None} /\ h.quantum > 0

NothingRead == [peek |-> Missing, headers |-> << >>, laps |-> << >>, channels |-> << >>,
                spans |-> << >>, line |-> 1, attached |-> << >>]

Blank == [lines |-> << >>, broken |-> FALSE]

Init == /\ \/ recording \in Takes /\ writer = "open" /\ file = Blank
           \/ recording = << >> /\ writer = "closed" /\ file \in Documents
        /\ phase = "peek"
        /\ out = NothingRead

-----------------------------------------------------------------------------
(* Alignment                                                               *)

\* Samples of a channel: which chunk, which time.
StartOf(channel, c) ==
    FoldSeq(LAMBDA chunk, n : n + chunk.count, 0, SubSeq(channel.chunks, 1, c - 1))

ChunkOf(channel, k) ==
    CHOOSE c \in DOMAIN channel.chunks :
      StartOf(channel, c) < k /\ k <= StartOf(channel, c) + channel.chunks[c].count

TimeIn(channel, c, k) ==
    channel.chunks[c].at + (k - StartOf(channel, c) - 1) * channel.chunks[c].period

TimeOf(channel, k) == TimeIn(channel, ChunkOf(channel, k), k)

Periods(channel) ==
    {chunk.period : chunk \in {h \in Range(channel.chunks) : h.count > 0 /\ h.period > 0}}

Weight(channel, period) ==
    FoldSeq(LAMBDA h, n : IF h.period = period THEN n + h.count ELSE n, 0, channel.chunks)

\* The period most samples have, the shorter of two.
Dominant(channel) ==
    CHOOSE p \in Periods(channel) :
      \A o \in Periods(channel) :
        Weight(channel, o) < Weight(channel, p) \/ (Weight(channel, o) = Weight(channel, p) /\ p <= o)

\* Whole milliseconds if the period is close to them.
Rounded(period) ==
    LET rounded == ((period + (Milli \div 2)) \div Milli) * Milli
        off == IF rounded > period THEN rounded - period ELSE period - rounded
    IN  IF period >= Milli /\ off * Tolerance <= period THEN rounded ELSE period

LatticePeriod(channel) == Rounded(Dominant(channel))

Origin(channel) == Min({chunk.at : chunk \in Range(channel.chunks)})

\* Wrong: a sample goes to the slot before it.
SlotBefore(channel, k) == (TimeOf(channel, k) - Origin(channel)) \div LatticePeriod(channel)

NearestSlot(after, period) == (after + (period \div 2)) \div period

Slot(channel, k) == NearestSlot(TimeOf(channel, k) - Origin(channel), LatticePeriod(channel))

\* The first sample in file order keeps a slot.
FirstOfEach(values, slots) ==
    LET value(s) == IF s \notin Range(slots) THEN None
                    ELSE values[Min({k \in DOMAIN slots : slots[k] = s})]
    IN  [i \in 1..Max(Range(slots)) + 1 |-> value(i - 1)]

SlotValues(channel) ==
    FirstOfEach(channel.values, [k \in DOMAIN channel.values |-> Slot(channel, k)])

\* A channel without a regular sample is left out.
Alignable(channel) ==
    /\ Periods(channel) # {}
    /\ \E v \in Range(SlotValues(channel)) : v # None

Aligned(channel) ==
    [name |-> channel.name, at |-> Origin(channel), period |-> LatticePeriod(channel),
     values |-> SlotValues(channel), labels |-> channel.labels]

AlignAll(channels) == [i \in DOMAIN channels |-> Aligned(channels[i])]

Series(r) == AlignAll(SelectSeq(r.channels, Alignable))

-----------------------------------------------------------------------------
(* The lattice                                                             *)

Gcd(a, b) ==
    IF a = 0 \/ b = 0 THEN a + b
    ELSE Max({d \in 1..a : a % d = 0 /\ b % d = 0})

Quantum(series) ==
    LET all == FoldSeq(LAMBDA s, q : Gcd(Gcd(q, s.period), s.at), 0, series)
    IN  IF all = 0 THEN DefaultQuantum ELSE all

SnapNearest(time, q) ==
    LET rest == time % q
    IN  IF 2 * rest < q THEN time - rest ELSE time + q - rest

SnapUp(time, q) == IF time % q = 0 THEN time ELSE time + q - (time % q)

\* A lap or span that would vanish lasts one quantum.
Snapped(interval, q) ==
    LET from == SnapNearest(interval.from, q)
    IN  [interval EXCEPT !.from = from,
                         !.to = IF SnapNearest(@, q) <= from THEN from + q ELSE SnapNearest(@, q)]

SnapAll(intervals, q) == [i \in DOMAIN intervals |-> Snapped(intervals[i], q)]

End(at, period, count) == at + period * count

LapsOf(r, q) == IF r.extension THEN << >> ELSE SnapAll(r.laps, q)

Ends(r, series, q) ==
    {End(s.at, s.period, Len(s.values)) : s \in Range(series)}
      \cup {interval.to : interval \in Range(LapsOf(r, q)) \cup Range(SnapAll(r.spans, q))}

Duration(r, series, q) == SnapUp(Max(Ends(r, series, q) \cup {SnapUp(r.duration, q)}), q)

-----------------------------------------------------------------------------
(* Lines                                                                   *)

\* A rate is a whole number, or the decimal that divides a second into
\* periods.
Hz(period) == IF Second % period = 0 THEN <<Second \div period, 1>> ELSE <<Second, period>>

PeriodOf(hz) == (2 * Second * hz[2] + hz[1]) \div (2 * hz[1])

ChannelLine(s) ==
    [kind |-> "channel", name |-> s.name, hz |-> Hz(s.period), at |-> s.at, values |-> s.values,
     labels |-> s.labels]

SpanLine(span) == [kind |-> "span", from |-> span.from, to |-> span.to]

Entry(s) == [name |-> s.name, hz |-> Hz(s.period), at |-> s.at, count |-> Len(s.values)]

\* A schema is named by the names and types of all channels.
SchemaOf(channels) == [i \in DOMAIN channels |-> <<channels[i].name, channels[i].type>>]

\* The fastest lap goes by its number or by its place in its stint.
FastestNumber(r, laps) ==
    LET same(lap) == \/ lap.number = r.fastest.number
                     \/ lap.stint = r.fastest.stint /\ lap.place = r.fastest.place
        found == SelectSeq(laps, same)
    IN  IF r.fastest = << >> \/ found = << >> THEN None ELSE found[1].number

\* An extension has a place in time and no schema.
SidecarHeader(base) == base @@ [kind |-> "mtx", hash |-> None]

Header(r, series, q) ==
    LET base == [q |-> q, dur |-> Duration(r, series, q), o |-> 0, utc |-> r.utc, zone |-> r.zone]
    IN  IF r.extension THEN SidecarHeader(base)
        ELSE base @@ [kind |-> "mtj", hash |-> SchemaOf(r.channels), hint |-> r.hint,
                      counts |-> <<Len(series), FoldSeq(LAMBDA s, n : n + Len(s.values), 0, series)>>,
                      fastest |-> FastestNumber(r, LapsOf(r, q)),
                      directory |-> [i \in DOMAIN series |-> Entry(series[i])]]

LapsLine(r, q) == [kind |-> "laps", laps |-> LapsOf(r, q)]

SpanLines(spans) == [i \in DOMAIN spans |-> SpanLine(spans[i])]

\* Header, laps, channels, spans, once channels are aligned and the lattice is
\* known.
LinesOn(r, series, q) ==
    <<Header(r, series, q)>>
      \o (IF r.extension THEN << >> ELSE <<LapsLine(r, q)>>)
      \o [i \in DOMAIN series |-> ChannelLine(series[i])]
      \o SpanLines(SnapAll(r.spans, q))

LinesOf(r, series) == LinesOn(r, series, Quantum(series))

Lines(r) == LinesOf(r, Series(r))

-----------------------------------------------------------------------------
(* Writing                                                                 *)

\* The file is created before the document is looked at: an extension that
\* has no place in time leaves it empty.
OpenFile ==
    /\ writer = "open"
    /\ file' = Blank
    /\ writer' = IF recording.extension /\ (recording.utc = None \/ ~recording.zone)
                 THEN "refused" ELSE "writing"
    /\ UNCHANGED <<recording, phase, out>>

WriteLine ==
    /\ writer = "writing" /\ Len(file.lines) < Len(Lines(recording))
    /\ file' = [file EXCEPT !.lines = Append(@, Lines(recording)[Len(@) + 1])]
    /\ UNCHANGED <<recording, writer, phase, out>>

CloseFile ==
    /\ writer = "writing" /\ Len(file.lines) = Len(Lines(recording))
    /\ writer' = "closed"
    /\ UNCHANGED <<recording, file, phase, out>>

\* Text that ends with a line is not broken; a compressed frame without its
\* end always is.
Killed ==
    /\ writer = "writing"
    /\ \E broken \in BOOLEAN : /\ recording.compress => broken
                               /\ file' = [file EXCEPT !.broken = broken]
    /\ writer' = "killed"
    /\ UNCHANGED <<recording, phase, out>>

-----------------------------------------------------------------------------
(* Reading                                                                 *)

IsHeader(line) ==
    /\ line.kind \in {"mtj", "mtx"}
    /\ line.q > 0 /\ line.o % line.q = 0 /\ line.dur >= line.o /\ (line.dur - line.o) % line.q = 0
    /\ line.kind = "mtx" => line.utc > 0 /\ line.zone

IsLapsLine(line, q) ==
    /\ line.kind = "laps"
    /\ \A i \in DOMAIN line.laps :
         LET lap == line.laps[i]
         IN  /\ lap.from < lap.to /\ lap.from % q = 0 /\ lap.to % q = 0
             /\ i > 1 => lap.from >= line.laps[i - 1].from

\* Line n is there to its end.
Whole(n) == n <= Len(file.lines) /\ (n = Len(file.lines) => ~file.broken)

Top == file.lines[1]

HeaderReads == Whole(1) /\ IsHeader(Top)

LapsRead == Whole(2) /\ IsLapsLine(file.lines[2], Top.q)

\* An extension is never told by its header.
ToldByHeader ==
    /\ Top.kind = "mtj" /\ "counts" \in DOMAIN Top
    /\ \A lap \in Range(file.lines[2].laps) : lap.kind # "unknown" /\ lap.stint > 0

\* A summary of header and laps if the header counts and every lap is
\* classified, otherwise the whole document is needed.
PeekFile ==
    /\ phase = "peek" /\ writer \in {"closed", "refused", "killed"}
    /\ out' = IF HeaderReads /\ LapsRead /\ ToldByHeader
              THEN [out EXCEPT !.peek = [duration |-> Top.dur, counts |-> Top.counts,
                                         laps |-> file.lines[2].laps,
                                         directory |-> Top.directory, fastest |-> Top.fastest,
                                         key |-> <<Top.hint, Top.hash>>]]
              ELSE out
    /\ phase' = "header"
    /\ UNCHANGED <<recording, writer, file>>

ReadHeader ==
    /\ phase = "header"
    /\ IF HeaderReads
       THEN /\ phase' = IF Top.kind = "mtj" THEN "laps" ELSE "records"
            /\ out' = [out EXCEPT !.headers = <<Top>>, !.line = 2]
       ELSE phase' = "refused" /\ UNCHANGED out
    /\ UNCHANGED <<recording, writer, file>>

ReadLaps ==
    /\ phase = "laps"
    /\ IF LapsRead
       THEN /\ phase' = "records"
            /\ out' = [out EXCEPT !.laps = file.lines[2].laps, !.line = 3]
       ELSE phase' = "refused" /\ UNCHANGED out
    /\ UNCHANGED <<recording, writer, file>>

OnLattice(line, header) ==
    LET period == PeriodOf(line.hz)
    IN  /\ period > 0 /\ period % header.q = 0
        /\ line.at >= header.o /\ line.at % header.q = 0

LabelsFit(labels, header) ==
    \A i \in DOMAIN labels :
      /\ labels[i] >= header.o /\ labels[i] % header.q = 0
      /\ i > 1 => labels[i] > labels[i - 1]

IsChannel(line, header) ==
    /\ OnLattice(line, header)
    /\ line.values # << >>
    /\ End(line.at, PeriodOf(line.hz), Len(line.values)) <= header.dur + PeriodOf(line.hz)
    /\ LabelsFit(line.labels, header)

IsSpan(line, header) ==
    line.from < line.to /\ line.from % header.q = 0 /\ line.to % header.q = 0

\* Another folder of an extension; a recording has one header.
IsFolder(line, first) == line.kind = "mtx" /\ first.kind = "mtx" /\ IsHeader(line)

\* A channel as read, under the header it stands behind.
Opened(line) ==
    [name |-> line.name, type |-> "f64", at |-> line.at, period |-> PeriodOf(line.hz),
     values |-> line.values, labels |-> line.labels, folder |-> Len(out.headers)]

\* Names are taken once.
Fits(line) ==
    CASE line.kind = "channel" -> /\ IsChannel(line, Last(out.headers))
                                  /\ line.name \notin {c.name : c \in Range(out.channels)}
      [] line.kind = "span" -> IsSpan(line, Last(out.headers))
      [] OTHER -> IsFolder(line, Top)

Taken(line) ==
    CASE line.kind = "channel" -> [out EXCEPT !.channels = Append(@, Opened(line)), !.line = @ + 1]
      [] line.kind = "span" ->
           [out EXCEPT !.spans = Append(@, [from |-> line.from, to |-> line.to,
                                            folder |-> Len(out.headers)]),
                       !.line = @ + 1]
      [] OTHER -> [out EXCEPT !.headers = Append(@, line), !.line = @ + 1]

AtLine == out.line <= Len(file.lines)

ReadRecord ==
    /\ phase = "records" /\ AtLine
    /\ LET line == file.lines[out.line]
       IN  IF Whole(out.line) /\ Fits(line)
           THEN out' = Taken(line) /\ UNCHANGED phase
           ELSE phase' = "refused" /\ UNCHANGED out
    /\ UNCHANGED <<recording, writer, file>>

\* The end of a compressed frame that is not there is an error.
EndOfDocument ==
    /\ phase = "records" /\ ~AtLine
    /\ phase' = IF file.broken THEN "refused" ELSE "done"
    /\ UNCHANGED <<recording, writer, file, out>>

-----------------------------------------------------------------------------
(* Extensions                                                              *)

\* Folders of one schema, or of none.
SchemasAgree(host) ==
    \A i \in DOMAIN out.headers :
      host.hash = None \/ out.headers[i].hash = None \/ out.headers[i].hash = host.hash

\* Wrong: the first folder's clock is everyone's.
ShiftOfFirst(host, folder) == IF host.utc = None THEN 0 ELSE out.headers[1].utc - host.utc

Shift(host, folder) == IF host.utc = None THEN 0 ELSE out.headers[folder].utc - host.utc

Moved(host) ==
    [channels |-> [i \in DOMAIN out.channels |->
        LET shift == Shift(host, out.channels[i].folder)
        IN  [name |-> out.channels[i].name, at |-> out.channels[i].at + shift,
             period |-> out.channels[i].period, count |-> Len(out.channels[i].values),
             labels |-> [k \in DOMAIN out.channels[i].labels |-> out.channels[i].labels[k] + shift]]],
     spans |-> [i \in DOMAIN out.spans |->
        LET shift == Shift(host, out.spans[i].folder)
        IN  [from |-> out.spans[i].from + shift, to |-> out.spans[i].to + shift]]]

\* Nothing lies before the host's start, and no name is the host's.
Attachable(host) ==
    LET moved == Moved(host)
    IN  /\ \A c \in Range(moved.channels) :
             c.name \notin host.names /\ c.at >= 0 /\ \A k \in DOMAIN c.labels : c.labels[k] >= 0
        /\ \A span \in Range(moved.spans) : span.from >= 0

JoinedQuantum(host, channels) ==
    FoldSeq(LAMBDA c, q : Gcd(Gcd(q, c.period), c.at), host.quantum, channels)

Attach(host) ==
    /\ phase = "done" /\ Top.kind = "mtx"
    /\ IF SchemasAgree(host) /\ Attachable(host)
       THEN LET moved == Moved(host)
            IN  /\ phase' = "attached"
                /\ out' = [out EXCEPT !.attached =
                     [host |-> host, channels |-> moved.channels, spans |-> moved.spans,
                      quantum |-> JoinedQuantum(host, moved.channels),
                      duration |-> Max({host.duration} \cup {span.to : span \in Range(moved.spans)}
                                         \cup {End(c.at, c.period, c.count) : c \in Range(moved.channels)})]]
       ELSE phase' = "apart" /\ UNCHANGED out
    /\ UNCHANGED <<recording, writer, file>>

Next == \/ OpenFile \/ WriteLine \/ CloseFile \/ Killed
        \/ PeekFile \/ ReadHeader \/ ReadLaps \/ ReadRecord \/ EndOfDocument
        \/ \E host \in Hosts : Attach(host)

Spec == Init /\ [][Next]_vars

-----------------------------------------------------------------------------
(* Properties                                                              *)

Whence(name) == CHOOSE c \in Range(recording.channels) : c.name = name /\ Alignable(c)

\* Where a value was put is never further than half a period from where it was
\* taken, and a value is lost only to an earlier one at the same place.
SamplesStay(channel, read) ==
    LET slotTime(s) == read.at + (s - 1) * read.period
        near(k, s) == 2 * (TimeOf(channel, k) - slotTime(s)) \in -read.period..read.period
    IN  /\ \A s \in DOMAIN read.values : read.values[s] # None =>
             \E k \in DOMAIN channel.values : channel.values[k] = read.values[s] /\ near(k, s)
        /\ \A k \in DOMAIN channel.values : channel.values[k] # None =>
             \E s \in DOMAIN read.values :
               /\ near(k, s)
               /\ \/ read.values[s] = channel.values[k]
                  \/ \E j \in 1..k - 1 : near(j, s)

\* The two lines a quick look reads say what follows them, also where the
\* writer was killed behind them: the same channels, at the same times and as
\* long, and all of them if it was not (write_header, read_header_metadata).
HeaderTellsWhatFollows ==
    LET told == out.peek.directory
    IN  recording # << >> /\ out.peek # Missing =>
          /\ Len(out.channels) <= Len(told)
          /\ phase = "done" /\ writer = "closed" => Len(out.channels) = Len(told)
          /\ \A i \in DOMAIN out.channels :
               /\ told[i].name = out.channels[i].name /\ told[i].at = out.channels[i].at
               /\ PeriodOf(told[i].hz) = out.channels[i].period
               /\ told[i].count = Len(out.channels[i].values)

\* Names used once, labels in order on the lattice.
SoundOf(series) ==
    /\ Cardinality({s.name : s \in Range(series)}) = Len(series)
    /\ \A s \in Range(series) : \A i \in DOMAIN s.labels :
         /\ s.labels[i] % Quantum(series) = 0
         /\ i > 1 => s.labels[i] > s.labels[i - 1]

\* What the writer finishes the reader takes, given names used once and labels
\* in order on the lattice, and every sample of a channel that has one is read
\* back where it was taken (write_jsonl_document, collect_aligned, from_reader).
DocumentReadsBack ==
    /\ HeaderTellsWhatFollows
    /\ recording # << >> /\ writer = "closed" /\ SoundOf(Series(recording)) =>
         /\ phase # "refused"
         /\ phase \in {"done", "attached", "apart"} =>
              /\ {c.name : c \in Range(out.channels)} = {s.name : s \in Range(Series(recording))}
              /\ \A read \in Range(out.channels) : SamplesStay(Whence(read.name), read)

\* An attached sample or span is at the instant its own folder says, on the
\* host's axis, on the joined lattice with the host and within the joined
\* duration (attach, join_shift_ns, shift_channel, shift_span).
AttachedKeepInstants ==
    phase = "attached" =>
      LET joined == out.attached
          host == joined.host
      IN  /\ host.quantum % joined.quantum = 0
          /\ \A i \in DOMAIN out.channels :
               LET c == joined.channels[i]
               IN  /\ c.at >= 0 /\ c.name \notin host.names
                   /\ c.at + (IF host.utc = None THEN 0 ELSE host.utc)
                        = out.channels[i].at
                            + (IF host.utc = None THEN 0 ELSE out.headers[out.channels[i].folder].utc)
                   /\ c.at % joined.quantum = 0 /\ c.period % joined.quantum = 0
                   /\ End(c.at, c.period, c.count) <= joined.duration
          /\ \A i \in DOMAIN out.spans :
               joined.spans[i].to <= joined.duration
                 /\ joined.spans[i].to - joined.spans[i].from = out.spans[i].to - out.spans[i].from

\* What the writer finishes the reader takes.
WrittenIsAccepted == recording # << >> /\ writer = "closed" => phase # "refused"

=============================================================================
