----------------------------- MODULE MCReaders -----------------------------
(***************************************************************************)
(* The readers behind one door: whatever file is opened (motorsport-       *)
(* telemetry/src/lib.rs, open_native), its reader runs to an end.  Every   *)
(* behaviour picks a reader and one of the small files below.              *)
(***************************************************************************)
EXTENDS Integers, Sequences, FiniteSets, SequencesExt

VARIABLES reader, file, phase, out

vars == <<reader, file, phase, out>>

NoFix == 98
NaN == 99

-----------------------------------------------------------------------------
(* VBO files: four rows around midnight, five rows at the gate, four rows  *)
(* of video clocks                                                         *)

Row(time, fix, tracking, video) ==
    [time |-> time, fix |-> fix, tracking |-> tracking, clip |-> video[1], pts |-> video[2]]

VboOf(rows, written, period, gate) ==
    [rows |-> rows, written |-> written, period |-> period, gate |-> gate]

Unfixed(written, lost) ==
    [i \in DOMAIN written |-> Row(IF i = lost THEN NaN ELSE written[i] % 16, NoFix, TRUE, <<0, -1>>)]

ClockFiles ==
    {VboOf(Unfixed(w, lost), w, period, FALSE) :
        w \in {[i \in 1..4 |-> start + (IF i = 1 THEN 0 ELSE gaps[i - 1])] :
                  start \in {0, 13}, gaps \in [1..3 -> {0, 1, 2, 4, 7}]},
        lost \in 0..4, period \in {0, 1}}

GateClocks == {<<0, 1, 2, 3, 4>>, <<1, 2, 2, 5, 6>>, <<3, 4, 0, 6, 8>>}

GateFiles ==
    {VboOf([i \in 1..5 |-> Row(w[i], fixes[i], i # silent, <<0, -1>>)], w, 1, TRUE) :
        w \in GateClocks, silent \in {0, 3}, fixes \in [1..5 -> {-3, -1, 0, 2, NoFix}]}

VideoFiles ==
    {VboOf([i \in 1..4 |-> Row(w[i], NoFix, TRUE, videos[i])], w, 1, FALSE) :
        w \in {<<0, 1, 2, 3>>, <<0, 1, 1, 2>>, <<0, 1, 3, 4>>, <<2, 1, 3, 4>>},
        videos \in [1..4 -> {<<0, -1>>, <<1, 0>>, <<1, 1>>, <<1, 3>>, <<2, 0>>, <<2, 1>>}]}

VboFiles == ClockFiles \cup GateFiles \cup VideoFiles \cup {VboOf(<< >>, << >>, 0, FALSE)}

Vbo == INSTANCE VboFile WITH
          Files <- VboFiles, Day <- 16, DefaultPeriod <- 1, MaxSpeed <- 4, MaxGap <- 3,
          Debounce <- 2, JumpsPerPair <- 3

-----------------------------------------------------------------------------
(* MP4 files: every short list of box headers, and tables behind one moov  *)

Box(size, large, kind) == [size |-> size, large |-> large, kind |-> kind]

Track(runs, offsets, edits, scale) ==
    [id |-> 1, video |-> TRUE, runs |-> runs, offsets |-> offsets, edits |-> edits,
     scale |-> scale, sizes |-> FoldSeq(LAMBDA run, n : n + run.count, 0, runs)]

Moov(tracks) == [fragments |-> FALSE, scale |-> 1, tracks |-> tracks]

Plain == Track(<<[count |-> 1, delta |-> 1]>>, << >>, << >>, 1)

BoxFiles ==
    {[headers |-> [p \in 0..3 |-> boxes[p]], size |-> 4, moov |-> Moov(<<Plain>>)] :
        boxes \in [0..3 -> {Box(0, 0, "mdat"), Box(1, 2, "moov"), Box(1, 0, "mdat"),
                            Box(2, 0, "moov"), Box(2, 0, "ftyp"), Box(3, 0, "moof")}]}

Runs == {<<[count |-> c, delta |-> d]>> : c \in 1..3, d \in 1..2}
          \cup {<<[count |-> c, delta |-> 1], [count |-> d, delta |-> 3]>> : c \in 1..2, d \in 1..2}

OffsetRuns ==
    {<< >>} \cup {<<[count |-> c, offset |-> o]>> : c \in 1..3, o \in {1, -1}}
            \cup {<<[count |-> c, offset |-> 2], [count |-> d, offset |-> o]>> :
                     c \in 1..2, d \in 1..2, o \in {0, -2}}

EditLists ==
    LET edit == [duration : {2, 9}, media : {-1, 0, 2}]
    IN  {<< >>} \cup {<<e>> : e \in edit} \cup {<<e, f>> : e \in edit, f \in edit}

TableFiles ==
    {[headers |-> [p \in {0} |-> Box(1, 2, "moov")], size |-> 2, moov |-> Moov(tracks)] :
        tracks \in {<<Track(r, o, e, s)>> : r \in Runs, o \in OffsetRuns, e \in EditLists, s \in {1, 2}}
                     \cup {<< >>, <<Plain, Plain>>, <<Plain, [Plain EXCEPT !.id = 2]>>}}

Mp4Files == BoxFiles \cup TableFiles

Mp4 == INSTANCE Mp4Media WITH
          Files <- Mp4Files, MaxBoxes <- 3, MaxMoov <- 2, Second <- 2

-----------------------------------------------------------------------------
(* AiM files: tables that do and do not fit, packets put together from     *)
(* records, blocks and damage, and stamps of one channel                   *)

Open == 101
Close == 102
GpsMark == 103

TrackOf(sizes, offsets, chunkRuns, length) ==
    [sizes |-> sizes, offsets |-> offsets, chunkRuns |-> chunkRuns, timed |-> 2, length |-> length]

OneChunk == <<[first |-> 1, samples |-> 2]>>

Located == TrackOf(<<2, 3>>, <<0>>, OneChunk, 5)

Block(id, width, gps) == [id |-> id, width |-> width, named |-> TRUE, gps |-> gps]

TwoChannels == <<Block(1, 4, FALSE), Block(2, 1, FALSE), Block(0, 56, TRUE), Block(7, 2, FALSE)>>

AimOf(track, schema, packets) ==
    [track |-> track, schema |-> schema, packets |-> packets, kept |-> {2}, index |-> FALSE,
     parked |-> [fix |-> 0, from |-> -1]]

\* What a logger writes, and the cells it leaves; damage that keeps a mark may
\* mislead the scan.
Record(id, stamp, value) ==
    [cells |-> <<Open, stamp, id, value, Close>>, misleads |-> FALSE,
     written |-> IF id \in {1, 2} THEN <<[id |-> id, stamp |-> stamp]>> ELSE << >>]
GpsBlock(stamp) ==
    [cells |-> <<GpsMark, 3, stamp, 0, 0>>, misleads |-> FALSE,
     written |-> <<[id |-> 0, stamp |-> stamp]>>]
Damage(cells, misleads) == [cells |-> cells, misleads |-> misleads, written |-> << >>]

Items == {Record(1, 4, 0), Record(1, 6, Open), Record(2, Open, Close), Record(9, 5, 1),
          Record(9, Open, Open), GpsBlock(3), GpsBlock(7), Damage(<<8>>, FALSE),
          Damage(<<GpsMark, 0, 5>>, FALSE), Damage(<<GpsMark>>, TRUE),
          Damage(<<Open, 5, 1, 0>>, FALSE), Damage(<<Close, Open>>, TRUE)}

PacketOf(items, sound) ==
    [sound |-> sound, misleads |-> \E i \in DOMAIN items : items[i].misleads,
     cells |-> FlattenSeq([i \in DOMAIN items |-> items[i].cells]),
     written |-> FlattenSeq([i \in DOMAIN items |-> items[i].written])]

ScanFiles ==
    {AimOf(Located, TwoChannels, <<PacketOf(<<a, b, c>>, TRUE)>>) : a, b, c \in Items}
      \cup {AimOf(Located, TwoChannels, <<PacketOf(<<a>>, FALSE), PacketOf(<<a, b>>, TRUE)>>) :
              a, b \in Items}

TrackFiles ==
    {AimOf(TrackOf(sizes, offsets, runs, length), schema, <<PacketOf(<<Record(1, 4, 0)>>, TRUE)>>) :
        sizes \in {<<2, 3>>, <<2>>, << >>}, offsets \in {<<0>>, <<0, 2>>, <<3, 0>>},
        runs \in {OneChunk, <<[first |-> 1, samples |-> 1]>>, <<[first |-> 2, samples |-> 2]>>,
                  <<[first |-> 1, samples |-> 1], [first |-> 2, samples |-> 2]>>},
        length \in {4, 5},
        schema \in {TwoChannels, <<Block(1, 4, FALSE), Block(1, 1, FALSE)>>, <<Block(1, 2, FALSE)>>}}

\* Stamps of one channel that is GPS or not, kept or thinned out.
StampFiles ==
    {[AimOf(Located, TwoChannels,
            <<PacketOf([i \in DOMAIN stamps |-> IF id = 0 THEN GpsBlock(stamps[i])
                                                ELSE Record(id, stamps[i], 0)], TRUE)>>)
        EXCEPT !.index = index, !.parked = parked] :
        stamps \in {[i \in 1..5 |-> FoldSeq(LAMBDA step, n : n + step, 1, SubSeq(steps, 1, i - 1))] :
                       steps \in [1..4 -> {0, 1, 2, 7}]}
                     \cup {<<5, 2, 9>>, <<2, 2, 1>>},
        id \in {0, 1}, index \in BOOLEAN, parked \in {[fix |-> 3, from |-> 0], [fix |-> 2, from |-> 3]}}

AimFiles == ScanFiles \cup TrackFiles \cup StampFiles

Aim == INSTANCE AimFile WITH
          Files <- AimFiles, Gps <- GpsMark, MaxId <- 50,
          GpsSize <- 3, GpsId <- 0, IndexSamples <- 3, GpsPeriod <- 2

-----------------------------------------------------------------------------
(* PDS files: directories, chunk tables under three candidate type fields, *)
(* and chunk tables with stamps                                            *)

Entry(offset, count, class, next) == [offset |-> offset, count |-> count, class |-> class, next |-> next]

Directory(count) == <<Entry(2, 2, 1, count), Entry(6, count, 0, 0), Entry(12, 0, 0, 0)>>

Def(id, fields) == [id |-> id, name |-> "good", fields |-> fields]

TwoDefs == <<Def(1, <<2>>), Def(2, <<1>>)>>

PdsOf(directories, marked, defs, rows, size) ==
    [size |-> size, directories |-> directories, marked |-> marked, defs |-> defs, rows |-> rows,
     typeField |-> 2]

ChunkRow(id, count, ptr, start) ==
    [id |-> id, again |-> id, period |-> 1, count |-> count, ptr |-> ptr,
     start |-> start, end |-> start + count - 1]

Templates ==
    {ChunkRow(1, 2, 12, 1), ChunkRow(1, 2, 16, 4), ChunkRow(2, 1, 20, 2), ChunkRow(2, 3, 38, 1),
     ChunkRow(3, 1, 22, 1), ChunkRow(0, 1, 13, 9), [ChunkRow(1, 1, 24, 3) EXCEPT !.again = 2],
     [ChunkRow(2, 2, 26, 3) EXCEPT !.end = 9], [ChunkRow(1, 1, 28, 1) EXCEPT !.period = 0]}

RowFiles ==
    {PdsOf(<<Directory(3), << >> >>, marked, defs, <<a, b, c>>, 40) :
        a, b, c \in Templates, marked \in BOOLEAN,
        defs \in {TwoDefs, <<Def(0, <<2>>), Def(1, <<1>>)>>}}

DirectoryFiles ==
    {PdsOf(<<first, second>>, marked, defs, <<ChunkRow(1, 2, 12, 1)>>, size) :
        first \in {<< >>, Directory(0), Directory(4), <<Entry(1, 1, 0, 0)>> \o Directory(3)},
        second \in {<< >>, Directory(2)}, marked \in BOOLEAN, size \in {11, 40},
        defs \in {TwoDefs, << >>, <<[TwoDefs[1] EXCEPT !.name = "bad"], TwoDefs[2]>>,
                  <<[TwoDefs[1] EXCEPT !.name = "bad"], [TwoDefs[2] EXCEPT !.name = "none"]>>}}

\* Payloads one behind the other under the second of three candidates.
TypeFiles ==
    LET width(code) == <<1, 2, 4>>[code]
        rows(codes, counts, slack) ==
          LET of(i) == codes[1 + (i % 2)]
              ptr[i \in 1..4] == IF i = 1 THEN 12
                                 ELSE ptr[i - 1] + counts[i - 1] * width(of(i - 1)) + slack
          IN  [i \in 1..4 |-> ChunkRow(1 + (i % 2), counts[i], ptr[i], 1)]
    IN  {PdsOf(<<Directory(3), << >> >>, TRUE,
               <<Def(1, <<f[1], codes[1], f[2]>>), Def(2, <<f[3], codes[2], f[4]>>)>>,
               SubSeq(rows(codes, counts, slack), 1, n), 60) :
           codes \in [1..2 -> 1..3], counts \in [1..4 -> 1..2], f \in [1..4 -> {1, 3, 9}],
           slack \in {0, 1}, n \in {3}}

PdsFiles == RowFiles \cup DirectoryFiles \cup TypeFiles

Pds == INSTANCE CosworthFile WITH
          Files <- PdsFiles,
          Layouts <- << <<1, TRUE>>, <<1, FALSE>>, <<2, TRUE>>, <<2, FALSE>> >>,
          MinStride <- 1, MaxStride <- 3, MaxExportDefs <- 2, Widths <- <<1, 2, 4>>,
          DefaultWidth <- 4, MaxCode <- 9, ExportCode <- 2

-----------------------------------------------------------------------------
ASSUME WellFormedFiles ==
    /\ \A f \in VboFiles : Vbo!IsFile(f)
    /\ \A f \in Mp4Files : Mp4!IsFile(f)
    /\ \A f \in AimFiles : Aim!IsFile(f)
    /\ \A f \in PdsFiles : Pds!IsFile(f)

Init == \/ reader = "vbo" /\ Vbo!Init
        \/ reader = "mp4" /\ Mp4!Init
        \/ reader = "aim" /\ Aim!Init
        \/ reader = "pds" /\ Pds!Init

Next == /\ UNCHANGED reader
        /\ \/ reader = "vbo" /\ Vbo!Next
           \/ reader = "mp4" /\ Mp4!Next
           \/ reader = "aim" /\ Aim!Next
           \/ reader = "pds" /\ Pds!Next

\* One thread reads, and nothing stops it: the steps of the scanning loops,
\* the only ones whose number depends on what the bytes say.
Scanning ==
    /\ UNCHANGED reader
    /\ \/ reader = "mp4" /\ (Mp4!WalkBox \/ Mp4!EndOfBoxes)
       \/ reader = "aim" /\ (Aim!SkipPacket \/ Aim!ReadRecord \/ Aim!ReadGps \/ Aim!NextPacket
                               \/ Aim!EndOfPackets)

Spec == Init /\ [][Next]_vars /\ WF_vars(Scanning)

-----------------------------------------------------------------------------
(* Properties                                                              *)

\* A scan over boxes or packets comes to an end, whatever sizes and marks the
\* bytes claim: every step leads forward (inspect, ingest_packet).
ScansEnd == (phase \in {"boxes", "records"}) ~> (phase \notin {"boxes", "records"})

\* Rows keep their order and distance over midnight; gate laps cover the
\* recording and none is shorter than the debounce (VboFile, ReadTimes,
\* TimeAtGate).
ClockHolds == reader = "vbo" => Vbo!ClockHolds

\* The mapping to videos gives every row its own frame and every frame its
\* own row, or none (VboFile, SyncVideos; VideoTimeline).
VideosHonourRows == reader = "vbo" => Vbo!VideosHonourRows

\* A track's extent is that of its frames, and both readers of the timing
\* tables agree on its start (Mp4Media, InspectTracks).
PresentationIsOfFrames == reader = "mp4" => Mp4!PresentationIsOfFrames

\* A scan finds all that was recorded behind damage, and fitted chunks put
\* samples where the logger stamped them (AimFile, ReadRecord, FitChunks).
LoggedSamplesKept == reader = "aim" => Aim!LoggedSamplesKept

\* The inferred type field gives payloads their true widths, and the chunks of
\* a channel are in order on one clock (CosworthFile, ResolveTypes,
\* PlaceChunks).
ChunksAreTrue == reader = "pds" => Pds!ChunksAreTrue

=============================================================================
