----------------------------- MODULE MotecExport -----------------------------
(***************************************************************************)
(* The MoTeC writer (motec-telemetry/src/write.rs) and the sidecar it      *)
(* derives (src/ldx.rs): a recording is flattened, written over whatever   *)
(* export lies at the path, LD first and LDX second, and opened again by   *)
(* the reader of MotecFile.  The process may be killed at any time, and a  *)
(* write that is cut short leaves the beginning of the file.               *)
(***************************************************************************)
EXTENDS MotecFile

CONSTANTS
  Recordings,   \* the recordings to export, see IsRecording
  MetaPtr,      \* META_PTR: where the channel blocks start
  MaxHz,        \* 65535: the largest frequency an LD channel can have
  Spacing,      \* MIN_MARKER_SPACING_NS
  Milli         \* ticks of a millisecond, the resolution of the fastest time

VARIABLES
  recording,
  writer        \* "flatten", "ld", "sidecar", "closed", "refused", "killed"

exportVars == <<file, phase, out, recording, writer>>

\* A channel's role says whether its name is one a beacon is looked for in:
\* values are the decoded samples, one behind the other over all chunks.
IsRecording(r) ==
    \A i \in DOMAIN r :
      LET c == r[i]
      IN  /\ c.role \in {"trigger", "counter", "other"}
          /\ c.type \in {"u8", "i16", "u16", "i32", "u32", "f32", "f64"}
          /\ \A k \in DOMAIN c.chunks : /\ c.chunks[k].period \in Nat
                                        /\ c.chunks[k].count \in Nat /\ c.chunks[k].at \in Nat
          /\ \A k \in DOMAIN c.values : c.values[k] \in Nat \cup {-1}

NotANumber == -1

\* What a previous export left at the path, or nothing.
ExportInit == /\ Init
              /\ recording \in Recordings
              /\ writer = "flatten"

-----------------------------------------------------------------------------
(* The recording flattened                                                 *)

Sampled(channel) == channel.values # << >>

Written == SelectSeq(recording, Sampled)

\* One period that is a whole frequency, and chunks that follow each other
\* without a gap from the first one's start.
Flat(channel) ==
    LET chunks == channel.chunks
        period == chunks[1].period
    IN  /\ period > 0 /\ \A k \in DOMAIN chunks : chunks[k].period = period
        /\ Second % period = 0 /\ Second \div period <= MaxHz
        /\ \A k \in 2..Len(chunks) :
              chunks[k].at = chunks[k - 1].at + chunks[k - 1].count * period

\* The narrowest encoding that holds every value of the type.
KindOf(type) == CASE type \in {"u32", "f64"} -> "double" [] type = "f32" -> "float" [] OTHER -> "integer"

WidthOf(type) == CASE type \in {"u8", "i16"} -> 2
                   [] type \in {"u16", "i32", "f32"} -> 4
                   [] OTHER -> 8

\* Only a double can say that there is no value.
Encodable(channel) ==
    KindOf(channel.type) = "double" \/ \A k \in DOMAIN channel.values : channel.values[k] # NotANumber

Writable == /\ Written # << >>
            /\ \A i \in DOMAIN Written : Flat(Written[i]) /\ Encodable(Written[i])

-----------------------------------------------------------------------------
(* The LD                                                                  *)

BlockAddress(i) == MetaPtr + (i - 1) * MetaSize

DataOf(i) == Len(Written[i].values) * WidthOf(Written[i].type)

\* Wrong: every channel's data start where the first one's do.
SharedPtr(i) == BlockAddress(Len(Written) + 1)

\* Samples lie behind all blocks, in channel order.
DataPtr(i) == FoldSeq(LAMBDA n, sum : n + sum, BlockAddress(Len(Written) + 1),
                      [k \in 1..i - 1 |-> DataOf(k)])

Blocks == [a \in {BlockAddress(i) : i \in DOMAIN Written} |->
             LET i == CHOOSE k \in DOMAIN Written : BlockAddress(k) = a
             IN  [next |-> IF i = Len(Written) THEN 0 ELSE BlockAddress(i + 1),
                  ptr |-> DataPtr(i), count |-> Len(Written[i].values),
                  kind |-> KindOf(Written[i].type), width |-> WidthOf(Written[i].type),
                  frequency |-> Second \div Written[i].chunks[1].period]]

LdLength == DataPtr(Len(Written) + 1)

\* The sidecar stays what it was.
WithLd(length) == [file EXCEPT !.length = length, !.first = MetaPtr, !.blocks = Blocks]

-----------------------------------------------------------------------------
(* The sidecar                                                             *)

\* When sample k of a channel was taken.
SampleTime(channel, k) ==
    LET start(c) == FoldSeq(LAMBDA chunk, n : n + chunk.count, 0, SubSeq(channel.chunks, 1, c - 1))
        c == CHOOSE j \in DOMAIN channel.chunks :
               start(j) < k /\ k <= start(j) + channel.chunks[j].count
    IN  channel.chunks[c].at + (k - start(c) - 1) * channel.chunks[c].period

\* A pulse rises from nothing between two samples.
Rises(channel, k) == k > 1 /\ channel.values[k - 1] = 0 /\ channel.values[k] > 0

\* A counter exceeds all it showed before.
Counts(channel, k) ==
    LET before == {channel.values[j] : j \in 1..k - 1} \ {NotANumber}
    IN  before # {} /\ channel.values[k] > Max(before)

\* Changes after the start, none sooner after the last one kept.
Transitions(channel) ==
    LET changed(k) == IF channel.role = "trigger" THEN Rises(channel, k) ELSE Counts(channel, k)
        keep(kept, k) ==
          LET time == SampleTime(channel, k)
          IN  IF changed(k) /\ time > 0 /\ (kept = << >> \/ time - Last(kept) >= Spacing)
              THEN Append(kept, time) ELSE kept
    IN  FoldLeft(keep, << >>, [k \in DOMAIN channel.values |-> k])

\* The first channel of a role that has samples, triggers before counters.
Inferred ==
    LET of(role) == SelectSeq(recording, LAMBDA c : c.role = role /\ Sampled(c))
        markers(role) == IF of(role) = << >> THEN << >> ELSE Transitions(of(role)[1])
    IN  IF markers("trigger") # << >> THEN markers("trigger") ELSE markers("counter")

\* The shortest lap between two markers, the first of equal ones, with its
\* time to the millisecond.
FastestOf(markers) ==
    LET time(i) == markers[i + 1] - markers[i]
        laps == 1..Len(markers) - 1
        best == CHOOSE i \in laps : \A j \in laps : time(i) < time(j) \/ (time(i) = time(j) /\ i <= j)
    IN  IF laps = {} THEN [number |-> 0, time |-> -1]
        ELSE [number |-> best + 1, time |-> ((time(best) + (Milli \div 2)) \div Milli) * Milli]

TotalLaps(markers) == Len(markers) + 1

\* Without a beacon channel there are no markers and the summary is empty.
Xml(markers) == [state |-> "xml", markers |-> markers,
                 total |-> IF markers = << >> THEN 0 ELSE TotalLaps(markers),
                 fastest |-> FastestOf(markers).number, fastestTime |-> FastestOf(markers).time]

\* XML that breaks off inside a tag is an error, elsewhere the markers so far
\* without the summary behind them.
CutXml(markers, n) == [state |-> "xml", markers |-> SubSeq(markers, 1, n), total |-> 0,
                       fastest |-> 0, fastestTime |-> -1]

-----------------------------------------------------------------------------
(* write_motec                                                             *)

Flatten == /\ writer = "flatten"
           /\ writer' = IF Writable THEN "ld" ELSE "refused"
           /\ UNCHANGED <<file, phase, out, recording>>

WriteLd == /\ writer = "ld"
           /\ file' = WithLd(LdLength)
           /\ writer' = "sidecar"
           /\ UNCHANGED <<phase, out, recording>>

WriteSidecar == /\ writer = "sidecar"
                /\ file' = [file EXCEPT !.sidecar = Xml(Inferred)]
                /\ writer' = "closed"
                /\ UNCHANGED <<phase, out, recording>>

KilledInLd == /\ writer = "ld"
              /\ \E length \in 0..LdLength : file' = WithLd(length)
              /\ writer' = "killed"
              /\ UNCHANGED <<phase, out, recording>>

KilledBetween == /\ writer = "sidecar"
                 /\ writer' = "killed"
                 /\ UNCHANGED <<file, phase, out, recording>>

KilledInSidecar ==
    /\ writer = "sidecar"
    /\ \/ file' = [file EXCEPT !.sidecar = [state |-> "broken"]]
       \/ \E n \in 0..Len(Inferred) : file' = [file EXCEPT !.sidecar = CutXml(Inferred, n)]
    /\ writer' = "killed"
    /\ UNCHANGED <<phase, out, recording>>

\* The path is opened when nobody writes it any more.
Reopen == /\ writer \in {"closed", "killed", "refused"}
          /\ Next
          /\ UNCHANGED <<recording, writer>>

ExportNext == \/ Flatten \/ WriteLd \/ WriteSidecar
              \/ KilledInLd \/ KilledBetween \/ KilledInSidecar
              \/ Reopen

ExportSpec == ExportInit /\ [][ExportNext]_exportVars

-----------------------------------------------------------------------------
(* Properties                                                              *)

\* What each type may come back as.
WideEnough(type, read) ==
    read \in CASE type \in {"u8", "i16"} -> {"i16", "i32", "f64"}
               [] type \in {"u16", "i32"} -> {"i32", "f64"}
               [] type = "u32" -> {"f64"}
               [] type = "f32" -> {"f32", "f64"}
               [] OTHER -> {"f64"}

\* An export that was not disturbed is read back with every channel that has
\* samples, all of them, at their period and in a type that holds them, and
\* with a lap boundary at every beacon: at most the reported fastest lap
\* begins half a millisecond off (write_motec_bytes, write_motec_ldx_bytes).
ExportReadsBack ==
    writer = "closed" /\ phase \in {"done", "refused"} =>
      /\ phase = "done" /\ Len(out.channels) = Len(Written)
      /\ \A i \in DOMAIN Written :
            /\ out.channels[i].count = Len(Written[i].values)
            /\ out.channels[i].chunks[1].period = Written[i].chunks[1].period
            /\ WideEnough(Written[i].type, out.channels[i].type)
      /\ \A i \in DOMAIN Inferred :
            Inferred[i] < Duration =>
              /\ \E lap \in Range(out.laps) : lap.to = Inferred[i]
              /\ \E lap \in Range(out.laps) :
                    /\ 2 * (lap.from - Inferred[i]) <= Milli
                    /\ 2 * (Inferred[i] - lap.from) <= Milli

=============================================================================
