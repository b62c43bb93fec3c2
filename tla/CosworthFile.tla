---------------------------- MODULE CosworthFile ----------------------------
(***************************************************************************)
(* The Cosworth PDS reader (cosworth-telemetry/src/lib.rs): the directory  *)
(* is found, channel definitions and chunk descriptors are read, the field *)
(* that holds the sample types is inferred from how the data lie in the    *)
(* file, and chunks are placed in time.                                    *)
(*                                                                         *)
(* One action is one of these passes.  Tables are sequences of records:    *)
(* the byte framing of a record (its size, markers, name and unit offsets) *)
(* is left out.                                                            *)
(***************************************************************************)
EXTENDS Integers, Sequences, FiniteSets, SequencesExt, FiniteSetsExt

CONSTANTS
  Files,          \* the files to read
  Layouts,        \* LAYOUTS: pairs <<directory, marker>> in the order tried
  MinStride, MaxStride,   \* 48 and 512 bytes of a chunk descriptor
  MaxExportDefs,  \* 200: an export defines no more channels
  Widths,         \* byte widths of the sample type codes
  DefaultWidth,   \* of an unknown code: float32
  MaxCode,        \* 255: no candidate field holds more
  ExportCode      \* 7: every channel of an export is float64

VARIABLES
  file,    \* see IsFile
  phase,
  out

vars == <<file, phase, out>>

(* directories: the entries found at each directory position;
   marked:      the definitions carry record markers;
   defs:        name "good", "bad" or "none"; fields: the candidate type codes;
   rows:        the chunk table, every row naming its channel twice;
   typeField:   the field that really holds the type, see TypeWidthsFit       *)
IsFile(f) ==
    /\ f.size \in Nat /\ f.marked \in BOOLEAN /\ f.typeField \in Nat
    /\ \A d \in DOMAIN f.directories : \A i \in DOMAIN f.directories[d] :
          LET entry == f.directories[d][i]
          IN  {entry.offset, entry.count, entry.class, entry.next} \subseteq Nat
    /\ \A d \in DOMAIN f.defs : f.defs[d].id \in Nat /\ f.defs[d].name \in {"good", "bad", "none"}
    /\ \A i \in DOMAIN f.rows :
          LET row == f.rows[i]
          IN  {row.id, row.again, row.period, row.count, row.ptr, row.start, row.end} \subseteq Nat

Init == /\ file \in Files
        /\ phase = "layout"
        /\ out = [layout |-> << >>, defs |-> << >>, export |-> FALSE, chunks |-> << >>,
                  codes |-> << >>, stamped |-> FALSE, channels |-> << >>]

Refused == phase' = "refused" /\ out' = out

-----------------------------------------------------------------------------
(* The directory                                                           *)

\* The number of descriptors a count stands for, 0 when it cannot be one.
Plausible(count, span) ==
    IF count > 0 /\ span % count = 0 /\ span \div count \in MinStride..MaxStride THEN count ELSE 0

\* Three entries in a row that can be definitions, chunks and what follows.
WindowFits(entries, i) ==
    LET defs == entries[i]  chunks == entries[i + 1]  next == entries[i + 2]
        span == next.offset - chunks.offset
    IN  /\ defs.offset < chunks.offset /\ chunks.offset < next.offset /\ next.offset <= file.size
        /\ defs.class = 1 /\ defs.count # 0
        /\ Plausible(defs.next, span) > 0 \/ Plausible(chunks.count, span) > 0

\* The windows of a layout that fit; a marked layout needs a marker.
Windows(layout) ==
    LET entries == file.directories[layout[1]]
    IN  {i \in 1..Len(entries) - 2 : WindowFits(entries, i) /\ (layout[2] => file.marked)}

LayoutOf(layout) ==
    LET entries == file.directories[layout[1]]
        i == Min(Windows(layout))
        span == entries[i + 2].offset - entries[i + 1].offset
    IN  [defsCount |-> entries[i].count, marker |-> layout[2],
         chunkCount |-> IF Plausible(entries[i].next, span) > 0
                        THEN Plausible(entries[i].next, span)
                        ELSE Plausible(entries[i + 1].count, span)]

DiscoverLayout ==
    /\ phase = "layout"
    /\ LET fitting == {l \in DOMAIN Layouts : Windows(Layouts[l]) # {}}
       IN  IF fitting = {} THEN Refused
           ELSE phase' = "defs" /\ out' = [out EXCEPT !.layout = LayoutOf(Layouts[Min(fitting)])]
    /\ UNCHANGED file

-----------------------------------------------------------------------------
(* Definitions and chunk descriptors                                       *)

\* Marked records need an id; markerless ones are taken with any.
Accepted(def, marker) == def.name = "good" /\ (marker => def.id # 0)
Rejected(def, marker) == def.name # "none" /\ ~Accepted(def, marker)

\* More unreadable names than readable ones: the region was never written.
ReadDefs ==
    /\ phase = "defs"
    /\ LET accepted(m) == SelectSeq(file.defs, LAMBDA d : Accepted(d, m))
           marker == out.layout.marker /\ accepted(TRUE) # << >>
           rejected == Cardinality({i \in DOMAIN file.defs : Rejected(file.defs[i], marker)})
       IN  IF accepted(marker) = << >> \/ rejected > Len(accepted(marker))
           THEN Refused
           ELSE /\ phase' = "chunks"
                /\ out' = [out EXCEPT !.defs = accepted(marker),
                                      !.export = ~marker /\ out.layout.defsCount <= MaxExportDefs]
    /\ UNCHANGED file

Rows == file.rows

\* The descriptors start at the first row that names its channel twice; in an
\* export rows of channel 0 may lie before it.
Aligned ==
    LET named == {i \in DOMAIN Rows : Rows[i].id > 0 /\ Rows[i].id = Rows[i].again /\ Rows[i].count > 0}
        before(i) == \A j \in i..Min(named) : Rows[j].id = Rows[j].again /\ Rows[j].count > 0
    IN  IF named = {} THEN 0
        ELSE IF out.export THEN Min({i \in DOMAIN Rows : i <= Min(named) /\ before(i)})
        ELSE Min(named)

NamesItsChannel(row) ==
    /\ row.id = row.again /\ (row.id > 0 \/ out.export)
    /\ row.period > 0 /\ row.count > 0 /\ row.ptr < file.size

\* Without a usable row the channels take turns, in definition order.
Interleaved ==
    LET turn(i) == [Rows[i] EXCEPT !.id = (i - 1) % out.layout.defsCount]
        all == [i \in 1..Min({out.layout.chunkCount, Len(Rows)}) |-> turn(i)]
    IN  SelectSeq(all, LAMBDA r : r.period > 0 /\ r.count > 0 /\ 0 < r.ptr /\ r.ptr < file.size)

ParsedChunks ==
    LET last == Min({Len(Rows), Aligned + out.layout.chunkCount - 1})
        named == SelectSeq(SubSeq(Rows, Aligned, last), NamesItsChannel)
    IN  IF Aligned > 0 /\ named # << >> THEN named ELSE Interleaved

ParseChunks ==
    /\ phase = "chunks"
    /\ IF ParsedChunks = << >> THEN Refused
       ELSE phase' = "types" /\ out' = [out EXCEPT !.chunks = ParsedChunks]
    /\ UNCHANGED file

-----------------------------------------------------------------------------
(* The sample types                                                        *)

Width(code) == IF code \in DOMAIN Widths THEN Widths[code] ELSE DefaultWidth

\* The definition of a chunk's channel.
DefsOf(chunk) == {d \in DOMAIN out.defs : out.defs[d].id = chunk.id}

\* Chunks of defined channels in the order of their data.
Laid == SortSeq(SelectSeq(out.chunks, LAMBDA c : DefsOf(c) # {}), LAMBDA a, b : a.ptr < b.ptr)

CodeAt(chunk, field) == out.defs[Min(DefsOf(chunk))].fields[field]

EndOf(chunk, field) == chunk.ptr + chunk.count * Width(CodeAt(chunk, field))

Distance(a, b) == IF a < b THEN b - a ELSE a - b

\* How badly a candidate field explains the layout of the data: payloads past
\* the end of the file, bytes between or shared by neighbours, unknown codes.
Score(field) ==
    LET reached(i) == Max({EndOf(Laid[j], field) : j \in 1..i})
    IN  <<Cardinality({i \in DOMAIN Laid : EndOf(Laid[i], field) > file.size}),
          FoldSet(LAMBDA i, n : n + Distance(Laid[i].ptr, reached(i - 1)), 0, 2..Len(Laid)),
          Cardinality({d \in DOMAIN out.defs : out.defs[d].fields[field] \notin DOMAIN Widths}),
          field>>

Better(a, b) == \E k \in DOMAIN a : a[k] < b[k] /\ \A j \in 1..k - 1 : a[j] = b[j]

\* Fields every definition has, none of them with more than a byte.
Candidates == {f \in DOMAIN out.defs[1].fields :
                 \A d \in DOMAIN out.defs : /\ f \in DOMAIN out.defs[d].fields
                                            /\ out.defs[d].fields[f] <= MaxCode}

BestField == CHOOSE f \in Candidates : \A g \in Candidates \ {f} : Better(Score(f), Score(g))

ResolveTypes ==
    /\ phase = "types"
    /\ IF ~out.export /\ (Candidates = {} \/ Laid = << >>) THEN Refused
       ELSE /\ phase' = "place"
            /\ out' = [out EXCEPT !.codes =
                         [d \in DOMAIN out.defs |->
                            IF out.export THEN ExportCode ELSE out.defs[d].fields[BestField]]]
    /\ UNCHANGED file

-----------------------------------------------------------------------------
(* Chunks in time                                                          *)

\* The end stamp lies where count and period put the last sample.
StampsConsistent(chunk) ==
    chunk.start > 0 /\ chunk.start + (chunk.count - 1) * chunk.period = chunk.end

\* Stamps are believed when every chunk's are consistent.
Stamped == \A i \in DOMAIN out.chunks : StampsConsistent(out.chunks[i])

OriginTicks == Min({out.chunks[i].start : i \in DOMAIN out.chunks})

\* Wrong: as the table lists them.
TableOrder == out.chunks

\* Stable: chunks of one stamp stay in table order.
InOrder ==
    LET n == Len(out.chunks)
        comes(i, j) == LET a == out.chunks[i]  b == out.chunks[j]
                       IN  \/ a.id < b.id
                           \/ a.id = b.id /\ a.start < b.start
                           \/ a.id = b.id /\ a.start = b.start /\ i < j
        order == SetToSortSeq(1..n, comes)
    IN  IF Stamped THEN [k \in 1..n |-> out.chunks[order[k]]] ELSE out.chunks

\* The definition a chunk is appended to: the last one of its id.
Channel(chunk) == Max(DefsOf(chunk))

\* Samples that lie inside the file.
Kept(chunk) ==
    Min({chunk.count, (file.size - chunk.ptr) \div Width(out.codes[Channel(chunk)])})

\* At its stamp, or after what the channel already has.
Place(channel, chunk) ==
    LET at == IF Stamped THEN chunk.start - OriginTicks ELSE channel.duration
    IN  [chunks |-> Append(channel.chunks, [period |-> chunk.period, count |-> Kept(chunk),
                                            base |-> channel.count, at |-> at, ptr |-> chunk.ptr]),
         count |-> channel.count + Kept(chunk),
         duration |-> Max({channel.duration, at + Kept(chunk) * chunk.period})]

PlaceChunks ==
    /\ phase = "place"
    /\ LET none == [d \in DOMAIN out.defs |-> [chunks |-> << >>, count |-> 0, duration |-> 0]]
           add(channels, chunk) ==
             IF DefsOf(chunk) = {} \/ Kept(chunk) = 0 THEN channels
             ELSE [channels EXCEPT ![Channel(chunk)] = Place(@, chunk)]
       IN  out' = [out EXCEPT !.stamped = Stamped, !.channels = FoldLeft(add, none, InOrder)]
    /\ phase' = "done"
    /\ UNCHANGED file

Stopped == phase \in {"done", "refused"}

Next == DiscoverLayout \/ ReadDefs \/ ParseChunks \/ ResolveTypes \/ PlaceChunks

Spec == Init /\ [][Next]_vars

-----------------------------------------------------------------------------
(* Properties                                                              *)

\* Where the payloads of a native log lie one behind the other under the
\* field that really holds the types, every chunk with another behind it is
\* decoded with its true width, although other fields read as valid codes too
\* (type_layout_score, resolve_sample_types).
TypeWidthsFit ==
    phase \in {"place", "done"} /\ ~out.export /\ file.typeField \in Candidates =>
      LET true == file.typeField
          tiled == /\ \A i \in 1..Len(Laid) - 1 : EndOf(Laid[i], true) = Laid[i + 1].ptr
                   /\ \A i \in DOMAIN Laid : EndOf(Laid[i], true) <= file.size
      IN  tiled => \A i \in 1..Len(Laid) - 1 :
                     Width(out.codes[Min(DefsOf(Laid[i]))]) = Width(CodeAt(Laid[i], true))

\* Believed stamps put the chunks of every channel on one clock and in order,
\* wherever the table lists them; without them a channel's chunks follow each
\* other without a gap, in table order (parse).
ChunksOnOneClock ==
    phase = "done" =>
      \A d \in DOMAIN out.channels :
        LET chunks == out.channels[d].chunks
        IN  \A i \in DOMAIN chunks :
              /\ i > 1 => chunks[i].base = chunks[i - 1].base + chunks[i - 1].count
              /\ IF out.stamped
                 THEN /\ \E r \in Range(out.chunks) :
                           chunks[i].ptr = r.ptr /\ chunks[i].at = r.start - OriginTicks
                      /\ i > 1 => chunks[i - 1].at <= chunks[i].at
                 ELSE chunks[i].at = IF i = 1 THEN 0
                                     ELSE chunks[i - 1].at + chunks[i - 1].count * chunks[i - 1].period

\* Chunks have the right width and the right place.
ChunksAreTrue == TypeWidthsFit /\ ChunksOnOneClock

=============================================================================
