----------------------------- MODULE MCDocuments -----------------------------
(***************************************************************************)
(* What the writers write the readers read: a MoTeC pair of LD and LDX, or *)
(* a JSONL document, is written over what lies at the path, perhaps cut    *)
(* short, and opened again; what a document's header carries is written    *)
(* and read twice.                                                         *)
(***************************************************************************)
EXTENDS Integers, Sequences, FiniteSets, SequencesExt

VARIABLES container, recording, writer, file, phase, out

vars == <<container, recording, writer, file, phase, out>>

-----------------------------------------------------------------------------
(* MoTeC: a second is 10 ticks, a block 3 bytes from address 2             *)

Run(period, count, at) == [period |-> period, count |-> count, at |-> at]

LdChannel(role, type, chunks, values) ==
    [role |-> role, type |-> type, chunks |-> chunks, values |-> values]

\* Beacons of four samples, in one chunk or two.
Beacons ==
    {LdChannel(role, "u8", chunks, values) :
        role \in {"trigger", "counter"},
        chunks \in {<<Run(1, 4, 0)>>, <<Run(2, 2, 0), Run(2, 2, 4)>>, <<Run(5, 4, 2)>>},
        values \in [1..4 -> 0..2]}

Slow(type, chunks, values) == LdChannel("other", type, chunks, values)

LdRecordings ==
    {<<b>> : b \in Beacons}
      \cup {<<Slow("f32", <<Run(5, 3, 0)>>, <<1, 1, 1>>), b>> :
              b \in {c \in Beacons : c.values[1] = 0 /\ c.values[2] > 0}}
      \cup {<<a, b>> :
              a \in {Slow(type, <<Run(period, 2, 1)>>, values) :
                       type \in {"u8", "i16", "u16", "i32", "u32", "f32", "f64"},
                       period \in {0, 1, 3, 5}, values \in {<<1, 2>>, <<1, -1>>}},
              b \in {Slow("i16", << >>, << >>), Slow("i32", <<Run(2, 1, 0), Run(2, 1, 3)>>, <<1, 2>>),
                     LdChannel("counter", "u8", <<Run(1, 4, 0)>>, <<1, 2, 2, 3>>)}}

NoLdx == [state |-> "missing"]

OldLdx(markers, total, fastest, time) ==
    [state |-> "xml", markers |-> markers, total |-> total, fastest |-> fastest, fastestTime |-> time]

\* What a longer or shorter export before left: any block list and any laps.
LdOf(length, first, nexts, sidecar) ==
    [length |-> length, first |-> first, sidecar |-> sidecar,
     blocks |-> [a \in 1..10 |-> [next |-> nexts[a], ptr |-> 5, count |-> 4, width |-> 2,
                                 kind |-> "integer", frequency |-> 10]]]

Chain == [a \in 1..10 |-> IF a = 2 THEN 5 ELSE 0]

LdFiles ==
    {LdOf(0, 2, Chain, sidecar) :
        sidecar \in {NoLdx, [state |-> "broken"], OldLdx(<<3, 9>>, 3, 2, 6)}}

OldFiles ==
    {LdOf(length, first, [Chain EXCEPT ![2] = next], NoLdx) :
        length \in {0, 4, 8, 13}, first \in {0, 2, 8}, next \in {0, 1, 2, 5, 11}}
      \cup {LdOf(13, 2, Chain, OldLdx(<<a, b, c>>, total, fastest, time)) :
              a, b, c \in {-1, 0, 2, 3, 7}, total \in {0, 2, 5}, fastest \in 0..4, time \in {-1, 0, 2, 3}}

Ld == INSTANCE MotecExport WITH
        Files <- LdFiles \cup OldFiles, Recordings <- LdRecordings \cup {<< >>},
        MetaSize <- 3, MetaPtr <- 2, MaxChannels <- 3, Second <- 10, MaxHz <- 10,
        Spacing <- 2, Milli <- 2

-----------------------------------------------------------------------------
(* JSONL: a second is 1000 ticks, a millisecond 50                         *)

None == -1

Series(name, type, chunks, lost, labels) ==
    [name |-> name, type |-> type, chunks |-> chunks, labels |-> labels,
     values |-> [k \in 1..FoldSeq(LAMBDA c, n : n + c.count, 0, chunks) |->
                   IF k \in lost THEN None ELSE k]]

Lap(number, from, to, place, kind) ==
    [number |-> number, from |-> from, to |-> to, stint |-> 1, place |-> place, kind |-> kind]

TwoLaps(turn) == <<Lap(1, 0, turn, 0, "out"), Lap(2, turn, 130, 1, "flying")>>

TakeOf(channels, laps, spans, duration) ==
    [channels |-> channels, laps |-> laps, spans |-> spans, duration |-> duration,
     fastest |-> IF laps = << >> THEN << >> ELSE laps[2],
     utc |-> 500, zone |-> TRUE, extension |-> FALSE, compress |-> FALSE, hint |-> "day"]

\* Three chunks fitted to stamps that jitter, overlap or leave gaps.
Fitted ==
    {<<a, b, c>> : a \in {Run(50, 2, 0), Run(51, 2, 0), Run(49, 2, 10), Run(50, 0, 0), Run(50, 1, 70)},
                   b \in {Run(50, 2, 100), Run(51, 1, 130), Run(30, 3, 60), Run(0, 1, 40)},
                   c \in {Run(50, 1, 180), Run(51, 2, 20), Run(0, 0, 0), Run(30, 2, 300)}}

AlignedTakes ==
    {TakeOf(<<Series("a", "f32", chunks, lost, << >>)>>, << >>, << >>, 120) :
        chunks \in Fitted, lost \in {{}, {1}, {2, 3}, 1..7}}

LatticeTakes ==
    {TakeOf(<<Series("a", type, <<Run(p, 2, at)>>, {}, labels), Series(name, "f64", <<Run(q, 1, b)>>, lost, << >>)>>,
            laps, spans, duration) :
        type \in {"f32", "f64"}, p \in {20, 50}, at \in {0, 15}, labels \in {<< >>, <<0, 50>>, <<7>>},
        name \in {"a", "b"}, q \in {50, 75}, b \in {0, 40}, lost \in {{}, {1}},
        laps \in {TwoLaps(61), TwoLaps(128)}, spans \in {<<[from |-> 33, to |-> 34]>>}, duration \in {103}}

ExtensionTakes ==
    {[TakeOf(<<Series("x", "f64", <<Run(50, 2, 10)>>, {}, << >>)>>, TwoLaps(60), spans, 90)
        EXCEPT !.utc = utc, !.zone = zone, !.extension = TRUE, !.compress = compress] :
        utc \in {None, 400, 500, 530}, zone \in BOOLEAN, compress \in BOOLEAN,
        spans \in {<< >>, <<[from |-> 0, to |-> 300]>>}}

CompressedTakes == {[take EXCEPT !.compress = TRUE] : take \in {t \in AlignedTakes : t.channels[1].chunks[1].period = 51}}

Takes == AlignedTakes \cup CompressedTakes \cup LatticeTakes \cup ExtensionTakes

\* Documents of other writers: older headers, folders behind folders.
OldHeader(q, dur, o) ==
    [kind |-> "mtj", q |-> q, dur |-> dur, o |-> o, utc |-> None, zone |-> FALSE, hash |-> None, hint |-> "day"]

Folder(utc, hash, q) ==
    [kind |-> "mtx", q |-> q, dur |-> 200, o |-> 0, utc |-> utc, zone |-> TRUE, hash |-> hash]

Line(name, hz, at, labels) ==
    [kind |-> "channel", name |-> name, hz |-> hz, at |-> at, values |-> <<1, None>>, labels |-> labels]

SpanAt(from, to) == [kind |-> "span", from |-> from, to |-> to]

OldDocuments ==
    {[lines |-> <<OldHeader(q, dur, o), [kind |-> "laps", laps |-> laps], Line("a", hz, at, labels), more>>,
      broken |-> broken] :
        q \in {10, 50}, dur \in {50, 200}, o \in {0, 50}, broken \in BOOLEAN,
        laps \in {<< >>, <<[Lap(1, 0, 50, 1, "unknown") EXCEPT !.stint = 0]>>},
        hz \in {<<20, 1>>, <<3, 1>>, <<1000, 30>>}, at \in {0, 50, 60}, labels \in {<< >>, <<50, 100>>, <<50, 50>>},
        more \in {SpanAt(50, 100), SpanAt(50, 50), Line("a", <<20, 1>>, 0, << >>), OldHeader(10, 50, 0)}}

Folders ==
    {[lines |-> <<Folder(u, h, 10), Line("x", <<20, 1>>, at, labels), SpanAt(0, 50), Folder(v, None, q), more,
                  SpanAt(50, 150)>>, broken |-> FALSE] :
        u \in {460, 500}, h \in {None, 7}, at \in {0, 40, 50}, labels \in {<< >>, <<30>>, <<50>>},
        v \in {0, 480, 525}, q \in {5, 25},
        more \in {Line("y", <<40, 1>>, 25, << >>), Line("x", <<20, 1>>, 0, << >>), Line("z", <<20, 1>>, 0, << >>)}}

Hosts ==
    {[utc |-> utc, hash |-> hash, quantum |-> q, duration |-> 100, names |-> {"z"}] :
        utc \in {None, 470, 500}, hash \in {None, 7, 8}, q \in {20, 50}}

Mtj == INSTANCE JsonlDocument WITH
         Takes <- Takes, Documents <- OldDocuments \cup Folders, Hosts <- Hosts,
         Second <- 1000, Milli <- 50, Tolerance <- 50, DefaultQuantum <- 50

-----------------------------------------------------------------------------
(* Headers: clocks, videos and passes of a recording of 6 ticks            *)

Video(name, index, frames, offset) == [name |-> name, index |-> index, frames |-> frames, offset |-> offset]

Clocked(name, offset, start, end) == [name |-> name, offset |-> offset, start |-> start, end |-> end]

Unclocked == Clocked("", << >>, << >>, << >>)

RecordedClocks ==
    {Unclocked} \cup {Clocked("utc", offset, <<first>>, end) :
                        offset \in {<<5>>, <<-2>>}, first \in {5, 7}, end \in {<< >>, <<12>>}}

Point(at, pts) == [at |-> at, pts |-> pts]

RecordedSegments ==
    {<< >>, <<[clip |-> 1, points |-> <<Point(0, 3), Point(2, 3), Point(4, 9)>>],
              [clip |-> 2, points |-> <<Point(6, 0)>>]>>,
     <<[clip |-> 3, points |-> <<Point(1, 1)>>]>>}

RecordedVideos ==
    {<< >>, <<Video("a", 1, 0, << >>)>>, <<Video("a", 1, 0, <<1>>), Video("b", 2, 4, << >>)>>,
     <<Video("a", 1, 0, << >>), Video("b", 1, 0, << >>), Video("c", 3, 0, << >>)>>, <<Video("", 1, 0, << >>)>>}

RecordedPasses ==
    {<< >>, <<[name |-> "gps.clean", version |-> 1, in |-> <<"lat", "lon">>, out |-> <<"latclean">>],
              [name |-> "distance", version |-> 17, in |-> << >>, out |-> <<"d">>]>>}

Originals ==
    {[file |-> "mp4", clock |-> clock, duration |-> 6, offset |-> offset, videos |-> videos, times |-> times,
      frames |-> IF times = << >> THEN << >> ELSE <<Len(times)>>, segments |-> segments, passes |-> passes] :
        clock \in RecordedClocks, offset \in {<< >>, <<-3>>, <<2>>}, videos \in RecordedVideos,
        times \in {<< >>, <<0, 2, 2, 5>>, <<4, 1>>}, segments \in RecordedSegments, passes \in RecordedPasses}

Keys == INSTANCE DocumentHeader WITH
          original <- recording, current <- out, header <- file, generation <- writer,
          Word <- 16, Generations <- 2, LastInstant <- 8

-----------------------------------------------------------------------------
ASSUME WellFormedInputs ==
    /\ \A f \in LdFiles \cup OldFiles : Ld!IsFile(f)
    /\ \A r \in LdRecordings : Ld!IsRecording(r)
    /\ \A r \in Takes : Mtj!IsTake(r)
    /\ \A d \in OldDocuments \cup Folders : Mtj!IsDocument(d)
    /\ \A h \in Hosts : Mtj!IsHost(h)
    /\ \A r \in Originals : Keys!IsOriginal(r)

\* Old files are read as they are, exports written over a former one.
Init == \/ /\ container = "ld" /\ Ld!ExportInit
           /\ IF recording = << >> THEN file \in OldFiles
              ELSE file \in LdFiles /\ (Len(recording) = 1 => file.sidecar.state = "xml")
        \/ container = "mtj" /\ Mtj!Init
        \/ container = "header" /\ Keys!Init

Next == /\ UNCHANGED container
        /\ \/ container = "ld" /\ Ld!ExportNext
           \/ container = "mtj" /\ Mtj!Next
           \/ container = "header" /\ Keys!Next

Spec == Init /\ [][Next]_vars

-----------------------------------------------------------------------------
(* Properties                                                              *)

\* A finished export is read back with all channels, counts and beacons
\* (MotecExport, WriteLd, WriteSidecar).
ExportReadsBack == container = "ld" => Ld!ExportReadsBack

\* A finished document is accepted, samples stay where they were, and the first
\* two lines announce them (JsonlDocument, WriteLine, PeekFile, ReadRecord).
DocumentReadsBack == container = "mtj" => Mtj!DocumentReadsBack

\* Attached samples keep their instants, on a common lattice (JsonlDocument,
\* Attach).
AttachedKeepInstants == container = "mtj" => Mtj!AttachedKeepInstants

\* Clock, videos, frames and passes are the same after every rewriting
\* (DocumentHeader, WriteHeader, ReadHeader).
RereadAnswersAlike == container = "header" => Keys!RereadAnswersAlike

\* The reader accepts what the writer finished (JsonlDocument).
WrittenIsAccepted == container = "mtj" => Mtj!WrittenIsAccepted

=============================================================================
