------------------------------- MODULE AimFile -------------------------------
(***************************************************************************)
(* The AiM reader (aim-telemetry/src/lib.rs): samples located through the  *)
(* MP4 tables, packets scanned for records, logger stamps put on one clock *)
(* and fitted with chunks, and the GPS position of the first fix carried   *)
(* back over a standing start.                                             *)
(*                                                                         *)
(* Scanning is one action per record met.  A packet is a sequence of       *)
(* cells: the two bytes "(S", a closing ")", the five bytes "<hGPS", and   *)
(* any other field as one number.  A record is Open, stamp, id, value,     *)
(* Close; a GPS block is Gps, size, stamp.  A field may look like a mark.  *)
(***************************************************************************)
EXTENDS Integers, Sequences, FiniteSets, SequencesExt, FiniteSetsExt

CONSTANTS
  Files,        \* the files to read
  Open, Close, Gps,   \* the marks
  MaxId,        \* 65535: the largest record id
  GpsSize,      \* 56: the size of the one GPS record understood
  GpsId,        \* the channels derived from GPS blocks
  IndexSamples, \* INDEX_PACKET_SAMPLES
  GpsPeriod     \* 40 ms: the cadence of a lone fix

VARIABLES
  file,    \* see IsFile
  phase,
  out

vars == <<file, phase, out>>

(* track:   sizes of the samples, chunk offsets, sample-to-chunk runs, length of
            the file, how many samples have a time;
   schema:  the channel blocks of the first packet;
   packets: the packets after it; sound: its length word and signature are right;
            written: what the logger meant to record; misleads: damage has left a
            mark behind, see ScanFindsEveryRecord;
   kept:    the ids of lap, motion and GPS evidence;   index: index mode;
   parked:  the GPS sample of the first valid fix or 0, and the start of the
            standing start or -1                                              *)
IsFile(f) ==
    /\ f.track.length \in Nat /\ f.track.timed \in Nat
    /\ \A i \in DOMAIN f.schema : /\ f.schema[i].id \in Nat /\ f.schema[i].width \in Nat
                                 /\ f.schema[i].named \in BOOLEAN /\ f.schema[i].gps \in BOOLEAN
    /\ \A p \in DOMAIN f.packets : /\ f.packets[p].sound \in BOOLEAN
                                  /\ \A i \in DOMAIN f.packets[p].cells : f.packets[p].cells[i] \in Nat
    /\ f.index \in BOOLEAN
    /\ f.parked.fix \in Nat /\ f.parked.from \in Nat \cup {-1}

Init == /\ file \in Files
        /\ phase = "track"
        /\ out = [locations |-> << >>, known |-> {}, gps |-> FALSE,
                  packet |-> 1, at |-> 1, gpsAt |-> 1, samples |-> << >>,
                  chunks |-> << >>, duration |-> << >>, positions |-> << >>]

Channels == out.known \cup (IF out.gps THEN {GpsId} ELSE {})

-----------------------------------------------------------------------------
(* The samples of the track                                                *)

\* The last run of the sample-to-chunk table that starts by then.
PerChunk(track, chunk) ==
    LET runs == {i \in DOMAIN track.chunkRuns : track.chunkRuns[i].first <= chunk}
    IN  track.chunkRuns[Max(runs)].samples

\* Samples are laid out one after the other from each chunk's offset.
Locations(track) ==
    LET place(done, chunk) ==
          LET room == Len(track.sizes) - Len(done)
              n == IF PerChunk(track, chunk) < room THEN PerChunk(track, chunk) ELSE room
              size(k) == track.sizes[Len(done) + k]
              start(k) == track.offsets[chunk] + FoldSeq(LAMBDA a, b : a + b, 0,
                              SubSeq(track.sizes, Len(done) + 1, Len(done) + k - 1))
          IN  done \o [k \in 1..n |-> [offset |-> start(k), size |-> size(k)]]
        upTo[c \in 0..Len(track.offsets)] ==
          IF c = 0 THEN << >> ELSE place(upTo[c - 1], c)
    IN  upTo[Len(track.offsets)]

\* Every sample is addressed, and inside the file.
TrackFits(track) ==
    /\ track.chunkRuns # << >> /\ track.chunkRuns[1].first = 1
    /\ track.timed = Len(track.sizes)
    /\ Len(Locations(track)) = Len(track.sizes) /\ track.sizes # << >>
    /\ \A i \in DOMAIN track.sizes :
          Locations(track)[i].offset + Locations(track)[i].size <= track.length

LocateSamples ==
    /\ phase = "track"
    /\ IF TrackFits(file.track)
       THEN phase' = "schema" /\ out' = [out EXCEPT !.locations = Locations(file.track)]
       ELSE phase' = "refused" /\ out' = out
    /\ UNCHANGED file

\* schema: the blocks of a 16-bit id, a name and a width of 1 or 4 are the
\* channels; two of one id, or none and no GPS record, refuse the file.
Scalars == {i \in DOMAIN file.schema :
              /\ ~file.schema[i].gps /\ file.schema[i].named
              /\ file.schema[i].id <= MaxId /\ file.schema[i].width \in {1, 4}}

ReadSchema ==
    /\ phase = "schema"
    /\ LET known == {file.schema[i].id : i \in Scalars}
           gps == \E i \in DOMAIN file.schema : file.schema[i].gps
       IN  IF Cardinality(known) < Cardinality(Scalars) \/ (known = {} /\ ~gps)
           THEN phase' = "refused" /\ out' = out
           ELSE /\ phase' = "records"
                /\ out' = [out EXCEPT !.known = known, !.gps = gps,
                                      !.samples = [id \in known \cup {GpsId} |-> << >>]]
    /\ UNCHANGED file

-----------------------------------------------------------------------------
(* Records and GPS blocks of a packet                                      *)

\* Wrong: what is no record is looked at again.
PastNothing(start) == start

\* What is no record is passed over by its mark alone.
PastMark(start) == start + 1

Packet == file.packets[out.packet]
Cells == Packet.cells

\* Cells from a position on that hold a mark.
MarksFrom(mark, at) == {i \in DOMAIN Cells : i >= at /\ Cells[i] = mark}

\* The sample list with one more stamp.
Sampled(id, stamp) == [out.samples EXCEPT ![id] = Append(@, stamp)]

\* A packet whose length word or signature is wrong is skipped whole.
SkipPacket ==
    /\ phase = "records" /\ out.packet <= Len(file.packets) /\ ~Packet.sound
    /\ out' = [out EXCEPT !.packet = @ + 1]
    /\ UNCHANGED <<file, phase>>

\* The next record: a mark too near the end of the packet refuses the file; a
\* record of an unknown id or without its closing mark is passed over by the
\* mark alone, and one that is complete as a whole.
ReadRecord ==
    /\ phase = "records" /\ out.packet <= Len(file.packets) /\ Packet.sound
    /\ MarksFrom(Open, out.at) # {}
    /\ LET start == Min(MarksFrom(Open, out.at))
       IN  IF start + 2 > Len(Cells)
           THEN phase' = "refused" /\ out' = out
           ELSE /\ phase' = phase
                /\ IF /\ Cells[start + 2] \in out.known
                      /\ start + 4 <= Len(Cells) /\ Cells[start + 4] = Close
                   THEN out' = [out EXCEPT !.samples = Sampled(Cells[start + 2], Cells[start + 1]),
                                           !.at = start + 5]
                   ELSE out' = [out EXCEPT !.at = PastMark(start)]
    /\ UNCHANGED file

\* Then the GPS blocks, over the same bytes. One of another size or cut off is
\* passed over, by its size where that leads forward.
ReadGps ==
    /\ phase = "records" /\ out.packet <= Len(file.packets) /\ Packet.sound
    /\ MarksFrom(Open, out.at) = {} /\ MarksFrom(Gps, out.gpsAt) # {}
    /\ LET start == Min(MarksFrom(Gps, out.gpsAt))
           size == IF start + 1 <= Len(Cells) THEN Cells[start + 1] ELSE 0
           end == start + 2 + size
       IN  /\ IF size = GpsSize /\ end <= Len(Cells) + 1
              THEN out' = [out EXCEPT !.samples = IF out.gps THEN Sampled(GpsId, Cells[start + 2]) ELSE @,
                                      !.gpsAt = end]
              ELSE out' = [out EXCEPT !.gpsAt = Max({end, start + 1})]
    /\ UNCHANGED <<file, phase>>

NextPacket ==
    /\ phase = "records" /\ out.packet <= Len(file.packets) /\ Packet.sound
    /\ MarksFrom(Open, out.at) = {} /\ MarksFrom(Gps, out.gpsAt) = {}
    /\ out' = [out EXCEPT !.packet = @ + 1, !.at = 1, !.gpsAt = 1]
    /\ UNCHANGED <<file, phase>>

-----------------------------------------------------------------------------
(* One clock                                                               *)

\* The earliest first stamp of any channel, as met in the file.
Origin == Min({out.samples[id][1] : id \in {c \in Channels : out.samples[c] # << >>}})

\* Stamps in order, counted from the origin; an earlier one is put at 0.
Normalized(stamps) ==
    LET sorted == SortSeq(stamps, <)
    IN  [i \in DOMAIN sorted |-> IF sorted[i] > Origin THEN sorted[i] - Origin ELSE 0]

EndOfPackets ==
    /\ phase = "records" /\ out.packet > Len(file.packets)
    /\ IF \A id \in Channels : out.samples[id] = << >>
       THEN phase' = "refused" /\ out' = out
       ELSE /\ phase' = "chunks"
            /\ out' = [out EXCEPT !.samples =
                         [id \in DOMAIN @ |-> IF @[id] = << >> THEN << >> ELSE Normalized(@[id])]]
    /\ UNCHANGED file

-----------------------------------------------------------------------------
(* Chunks fitted to stamps                                                 *)

Delta(times, i) == times[i] - times[i - 1]

\* The commonest positive step, the shorter of two as common.
Modal(times) ==
    LET steps == {i \in 2..Len(times) : Delta(times, i) > 0}
        often(d) == Cardinality({i \in steps : Delta(times, i) = d})
        deltas == {Delta(times, i) : i \in steps}
        most == {d \in deltas : \A e \in deltas : often(e) <= often(d)}
    IN  IF steps = {} THEN 1 ELSE Min(most)

Tolerance(times) == Max({Modal(times) \div 2, 1})

Chunk(period, count, base, at) == [period |-> period, count |-> count, base |-> base, at |-> at]

\* Wrong: only a late sample drifts.
Lateness(times, lo, period, i) == Max({0, times[i] - (times[lo] + period * (i - lo))})

Drift(times, lo, period, i) ==
    LET off == times[i] - (times[lo] + period * (i - lo)) IN IF off < 0 THEN -off ELSE off

\* fitted_chunks: one chunk with the mean period, or the fit of the two halves
\* at the first of the worst samples.
Fitted(times, from, to) ==
    LET fit[lo, hi \in from..to] ==
          LET steps == hi - lo
              period == Max({(times[hi] - times[lo] + (steps \div 2)) \div steps, 1})
              worst == Max({Drift(times, lo, period, i) : i \in lo..hi})
              split == Min({i \in lo..hi : Drift(times, lo, period, i) = worst})
          IN  CASE lo = hi -> <<Chunk(Modal(times), 1, lo, times[lo])>>
                [] lo # hi /\ worst > Tolerance(times) -> fit[lo, split - 1] \o fit[split, hi]
                [] OTHER -> <<Chunk(period, steps + 1, lo, times[lo])>>
    IN  fit[from, to]

\* period_chunks: the runs between gaps of more than two modal steps.
PeriodChunks(times) ==
    LET gaps == {i \in 2..Len(times) : Delta(times, i) > 2 * Modal(times)}
        bounds == SetToSortSeq({1, Len(times) + 1} \cup gaps, <)
        runs == [r \in 1..Len(bounds) - 1 |-> Fitted(times, bounds[r], bounds[r + 1] - 1)]
    IN  CASE times = << >> -> << >>
          [] Len(times) = 1 -> <<Chunk(1, 1, 1, times[1])>>
          [] OTHER -> FlattenSeq(runs)

\* At most IndexSamples samples, the first and the last among them.
IndexOf(times) ==
    LET n == Len(times)
        m == Min({n, IndexSamples})
    IN  [slot \in 1..m |-> times[IF m = 1 THEN 1 ELSE ((n - 1) * (slot - 1)) \div (m - 1) + 1]]

DurationOf(times) ==
    IF times = << >> THEN 0 ELSE Last(times) + PeriodChunks(times)[1].period

\* In index mode a channel that is no evidence is thinned out after its
\* duration was taken from all of its samples.
FitChunks ==
    /\ phase = "chunks"
    /\ LET thin(id) == file.index /\ id \notin file.kept \cup {GpsId}
           kept == [id \in DOMAIN out.samples |->
                      IF thin(id) THEN IndexOf(out.samples[id]) ELSE out.samples[id]]
       IN  out' = [out EXCEPT !.samples = kept,
                              !.chunks = [id \in DOMAIN kept |-> PeriodChunks(kept[id])],
                              !.duration = [id \in DOMAIN kept |-> DurationOf(out.samples[id])]]
    /\ phase' = "backfill"
    /\ UNCHANGED file

-----------------------------------------------------------------------------
(* The standing start                                                      *)

Fixes == out.samples[GpsId]

\* The period of the last GPS chunk with the most samples, if any has two.
Cadence ==
    LET chunks == {c \in Range(out.chunks[GpsId]) : c.count > 1}
        most == {c \in chunks : \A d \in chunks : d.count <= c.count}
    IN  IF most = {} THEN GpsPeriod
        ELSE (CHOOSE c \in most : \A d \in most : d.base <= c.base).period

\* The first valid fix is repeated from the start of the standstill on.
Backfilled(start, anchor) ==
    LET n == (anchor - start + Cadence - 1) \div Cadence
    IN  SelectSeq(Fixes, LAMBDA t : t < start)
          \o [k \in 1..n |-> start + (k - 1) * Cadence]
          \o SelectSeq(Fixes, LAMBDA t : t >= anchor)

Backfill ==
    /\ phase = "backfill"
    /\ LET anchored == file.parked.fix \in DOMAIN Fixes /\ file.parked.from >= 0
                         /\ file.parked.from < Fixes[file.parked.fix]
       IN  out' = IF out.gps /\ anchored
                  THEN [out EXCEPT !.positions = Backfilled(file.parked.from, Fixes[file.parked.fix])]
                  ELSE out
    /\ phase' = "done"
    /\ UNCHANGED file

Stopped == phase \in {"done", "refused"}

Next == \/ LocateSamples \/ ReadSchema \/ SkipPacket \/ ReadRecord \/ ReadGps \/ NextPacket
        \/ EndOfPackets \/ FitChunks \/ Backfill

Spec == Init /\ [][Next]_vars

-----------------------------------------------------------------------------
(* Properties                                                              *)

\* Every record the logger wrote into a sound packet is found, once and in
\* order, behind damage, unknown records and GPS blocks, also when its own
\* fields look like marks; only a mark that damage leaves behind misleads
\* the scan (ingest_packet, scalar_record_start).
ScanFindsEveryRecord ==
    /\ phase = "records" /\ out.packet > Len(file.packets)
    /\ \A p \in DOMAIN file.packets : file.packets[p].sound => ~file.packets[p].misleads
    => LET written == FlattenSeq([p \in DOMAIN file.packets |->
                         IF file.packets[p].sound THEN file.packets[p].written ELSE << >>])
           of(id) == SelectSeq(written, LAMBDA r : r.id = id)
       IN  \A id \in Channels :
              out.samples[id] = [i \in 1..Len(of(id)) |-> of(id)[i].stamp]

\* The chunk i lies in, by number.
ChunksOf(chunks, i) == {c \in DOMAIN chunks : chunks[c].base <= i /\ i < chunks[c].base + chunks[c].count}

\* Every sample lies in one chunk, and the chunk's even spacing puts it within
\* half a modal step of the logger's stamp, wherever the clock drifted, jumped
\* or stood still (fitted_chunks), also on the positions carried back over a
\* standing start (backfill_gps_start).
ChunksHonourStamps ==
    phase = "done" =>
      \A times \in {out.samples[id] : id \in Channels} \cup {out.positions} :
        \A i \in DOMAIN times :
          \E c \in DOMAIN PeriodChunks(times) :
            /\ ChunksOf(PeriodChunks(times), i) = {c}
            /\ LET chunk == PeriodChunks(times)[c]
                   off == times[i] - (chunk.at + chunk.period * (i - chunk.base))
               IN  off <= Tolerance(times) /\ -off <= Tolerance(times)

\* What was logged is found, and at its time.
LoggedSamplesKept == ScanFindsEveryRecord /\ ChunksHonourStamps

=============================================================================
