# A verification development for motorsport-telemetry

TLA+ models, TLC runs and TLAPS proofs about `motorsport-telemetry-rs`: a Rust
workspace that reads motorsport recordings (AiM, Cosworth, MoTeC, Racelogic,
its own JSONL), recovers laps from imperfect signals, groups files into
sessions, adds derived channels and converts recordings.

The program is sequential: no threads, no async, no network. What is hard in it
is *order*: lap recovery reads a counter that lies in several ways, merges in
GPS events, looks ahead, takes back what it already published, and hands its
result to four further steps that each move boundaries or change kinds; sessions
join files with clocks of different worth; and the same recording is converted
again and again, by different builds, onto its own path. A test exercises one
trace; the runs here exercise all short ones.

All line references are to `src/`.

## Inventory

| Component | State | Operations | Interacts with | What makes it correct |
|---|---|---|---|---|
| Lap state machine (`telemetry-core/lap_state.rs`) | `Phase` | `apply(event)` | called by the walk and by validation | flying only from crossing to crossing; pit left only on a departure |
| Counter walk (`laps.rs:252`) | open lap, closed laps, high-water mark, crossing count, stint | a sample, a pit event, the end | evidence below; result goes to publication | intervals tile; no lap across a reset; counts agree |
| Counter and timer (`laps.rs:192`, `laps.rs:633`) | best candidate per class; resets found | one walk per channel, one pair of timer samples at a time | the walk; publication | strongest counter wins, whatever the file order; laps part at beacons |
| Evidence (`lap_evidence.rs`, `motion.rs`, `track.rs`) | scan position, gate, lane, pit visits | `departure`, `crossing`, `slow_before`, `moving_before`, `pit_visits`, the venue | asked by the walk and by `gps.clean` | every verdict is witnessed by samples |
| Publication (`laps.rs:722-1262`, `metadata.rs:720`) | the lap list | timer laps, refine, validate, classify, fastest | the walk; vendor lap lists; all clients of `FileMetadata` | ordered laps, flying laps anchored, the fastest is on the list |
| Clocks (`metadata.rs:440-700`) | — | `derive_clock`, `driver_stints` | sessions | the true start of the recording, or none |
| Sessions (`metadata.rs:839`, facade `lib.rs:1020-1100`) | groups, joined laps and stints | `group_sessions`, `open_sessions`, `position` | clocks and lap lists of several files | every file in one session, pieces joined once and never across a gap |
| Sample access (`telemetry-core/lib.rs`, `span.rs`) | chunks on a grid or with stamps | `sample_at` and its two arms | every client | no value across a gap, both arms alike |
| Roles, units, position (facade `lib.rs:380-830`, `units.rs`, `names.rs`) | resolved roles and scales | `resolved_roles`, `normalize_sample`, `match_track` | every reader and pass | a reading is what was measured where the unit is declared or told by the values |
| Passes (`gps_quality.rs`, `gps_clean.rs`, `speed_distance.rs`) | last fix, streak, odometer | check, derive | the pass driver | no impossible position survives |
| Views and pass driver (`view.rs`, `telemetry-passes/lib.rs`) | channels, provenance | `append`, `retain`, `apply_passes`, `stripped_view` | conversion | source channels untouched, a pass recorded once, stripping undoes it |
| Conversion (`main.rs:866`, `jsonl/write.rs:119`) | the files on disk | `convert`: apply, skip, strip | views, passes, the JSONL writer | no recording lost, what is written can be stripped |
| JSONL document (`telemetry-format/jsonl`) | lattice, lines, header, extensions | write, header read, full read, attach | conversion, clients | what is read back is what was written; the header tells what follows |
| VBO reader (`racelogic-telemetry`) | row clock, gate crossings, clips | parse, laps, video rows | publication, video timeline | row times rise with the clock of the car |
| Video timeline (`telemetry-core/video.rs`) | clips | presentation and telemetry lookup | VBO, JSONL header | unambiguous, no time claimed without a row |
| AiM reader and MP4 (`aim-telemetry`) | scan position, tables, chunks | locate, scan, fit; box walk, frame tables | source trait | logged samples are found, scans end |
| PDS reader (`cosworth-telemetry`) | layout, definitions, chunks | discover, infer types, place | source trait | chunks have their width and place |
| MoTeC LD and LDX (`motec-telemetry`) | block list, sidecar | write, read, laps of a sidecar | export, publication | an export that ends is read back, also over a stale sidecar |
| TRACK.yml (`track_metadata.rs`) | documents per directory | open, summarise, convert | facade | the nearest statement wins, also after a conversion |
| Video links (`video_links.rs`, `native_content.rs`) | directory entries, catalogs | find, resolve, catalogue | VBO, JSONL | both directions name the same file |
| CLI, audit, atlas, display, diagnostics | — | inspect, verify, audit | everything | reports; not modelled |

Hard behaviours: events merged from two lists by time; look-ahead (a drop is
judged by samples not read yet); history rewritten (a fold takes the last lap
back); decisions replayed from less information than they were taken with
(validation); values computed before a list was rewritten and used after
(fastest lap); renumbering done twice (stints); numbers, offsets and clocks that
mean something only within their file; scans that must resynchronise in damaged
data and still end; layouts that are guessed from how the data fit; samples of
several rates forced onto one lattice; summaries written before what they
summarise; a kill between emptying a file and writing it, or between two files
that belong together. Each is in the `hazards` of `PROJECT.json`, at its line,
with the properties that watch it.

## Modules

| Module | Models | Notes |
|---|---|---|
| `LapPhase` | `Phase::apply` | `ClosingKind(p, e)` and `NextPhase(p, e)` are its two results; `Reset{stationary}` is two events |
| `LapRecovery` | `increasing_counter_laps` | one action per branch of the sample loop, per pit event outcome, and `Finish` |
| `LapContract` | the promise (`specs/laps/README.md`) | abstract: intervals, an anchor, and what may set or clear it |
| `LapPublication` | `read_source_metadata` after the walk | EXTENDS `LapRecovery`; `Pick` → `ValidateLap`* → `Validated` → `Classify`; starts from a walk or from a vendor's list |
| `Lists`, `ListProofs` | Rust's `filter`, `retain` and `sort` | recursive functions and cardinalities, so that they can be proved about |
| `LapPublicationProofs` | — | theorems about `LapRecovery` and its contract, then about `LapPublication`, which begins with how the laps of a walk follow each other |
| `LapSignalsProofs`, `MotionEvidenceProofs` | — | theorems about the lap counter and the lap timer that are read; about the answers of a speed channel and about `sample_at` |
| `TrackEvidenceProofs`, `DerivedChannelsProofs` | — | theorems about pit visits and the venue, and about cleaned positions |
| `Clocks`, `Sessions`, `SessionsProofs` | `derive_clock`, driver runs; `open_sessions`, `group_sessions`, `position` | one action per file read, placed and joined, per piece of a lap or stint |
| `Conversion`, `ConversionProofs` | `convert`, `apply_passes`, `ViewSource`, `stripped_view` | one action per outcome of a pass and per step of writing a file; `Killed` at any of them |
| `LapSignals` | `select_lap_counter`, the resets of `timer_reset_laps_observed` | one action per channel and per pair of timer samples |
| `SampleAccess` | `sample_at` | operators on one channel |
| `MotionEvidence` | `motion.rs`, the speed half of `lap_evidence.rs` | EXTENDS `SampleAccess`; one scan per question, one action per sample |
| `TrackEvidence` | `track.rs`, the GPS half of `lap_evidence.rs` | one action per fix, beacon, passage and probe |
| `SignalRoles` | roles, units, `match_track` | EXTENDS `SampleAccess`; resolve, then sample, then locate |
| `DerivedChannels` | the three passes | one action per sample and pass outcome |
| `VideoTimeline`, `VboFile` | the lookups; the Racelogic reader | `VboFile` EXTENDS `VideoTimeline`; one action per row |
| `Mp4Media`, `AimFile`, `CosworthFile` | box walk and frame tables; AiM record scan; PDS passes | one action per box, table, record or pass |
| `MotecFile`, `MotecExport` | the LD reader with LDX laps; the writer of both | `MotecExport` EXTENDS `MotecFile`; LD and LDX are written in steps and may be cut short |
| `JsonlDocument`, `DocumentHeader` | alignment, writing, header and full read, attach; clock, videos and passes over generations | one action per line written or read |
| `DirectoryMetadata`, `VideoLinks` | `TRACK.yml` layers; discovery in both directions | one action per opening, conversion, search and catalog |
| `MCLapRecovery`, `MCLapPublication`, `MCSessions`, `MCConversion` | — | one component each, on small inputs |
| `MCReaders` | `open_native` | `VboFile`, `Mp4Media`, `AimFile`, `CosworthFile` behind one variable that says which |
| `MCDocuments` | what is written and read again | `MotecExport`, `JsonlDocument`, `DocumentHeader` |
| `MCEvidence` | what is concluded from channels | EXTENDS `MotionEvidence`, `LapSignals`, `TrackEvidence` and `DerivedChannels`, with an instance of `SignalRoles` |
| `MCLibrary` | a collection on disk | `DirectoryMetadata`, `VideoLinks` |
| `MCArchive` | what is kept beside each other | `MCDocuments`, `MCLibrary` |

A behaviour of a composing module is about one file, question or collection at a
time. `MCReaders`, `MCDocuments`, `MCLibrary` and `MCArchive` take their parts with
`INSTANCE ... WITH` and map the variables of each onto shared ones; their properties
are the parts' own, under the condition that the part is the one at work.
`MCEvidence` EXTENDS its parts, each with its own variables, and those that are not
asked stay in an idle state; so what a run checks there is, by name, what the
theorems state.

### State and code

`LapRecovery`'s variables are the locals of `increasing_counter_laps`: `phase`,
`laps`, `current`, `highWater`, `crossings`, `stint`, with `position` and
`pitPosition` for the two iterators and `finished` for the return. `resets` is
a history variable (the code keeps no such list). `recording` is everything the
walk reads: the finite non-negative counter samples, the flattened pit visits,
the duration, what the first seconds look like (`initially_parked`,
`on_circuit(0)`), the reference lap and the kind of counter.

`LapPublication` adds `published` (the `Vec<LapMetadata>` handed from step to
step), `stage`, the replayed phase and cursor of `validate_crossings`, the
`minimum` a lap must last, the vendor list when the source reports laps of its
own, `fastest`, and `stops`, a history variable naming the laps with a long
standstill.

`Sessions` opens files in any order and sorts them as the code does, by taking
the least of what is left under the sort key; `groups` is the `Vec` being built,
and each group is then gone through piece by piece, by start, into its joined
laps and stints. Each file carries a history field `truth`, when it was
really recorded, which the code never reads; `ColdStartIgnored` is stated
against it. Clock units and conversion checks are one
tick; a GPS week is `Week` ticks, a day `Day`. Boundaries and kinds of session
laps and the video frames of a position are left out.

`Conversion` keeps `files` (what each path holds: nothing, a torn file or a whole
one), `run` (the locals of `convert` and `apply_passes`) and the number of runs
started. A channel is its name, sample type, where its data comes from (the
vendor, or a pass at a version) and whether any sample is finite. A whole file
has the schema hash of its header and the history field `origin`, the vendor's
channels it descends from. Opening reads a document into memory in one step;
writing is emptying, writing and, for an in-place strip, renaming. A write that
fails is the same as a kill there.

The readers keep a file as the tables a reader sees after its fields are cut out:
a VBO row is its time, fix, and video clock; an AiM packet is a sequence of
cells with marks among the numbers; a PDS file is directory entries,
definitions and chunk descriptors with addresses; an MP4 file is box headers at
positions and run-length tables; an LD file is a block list with addresses. Beside
what the code reads, files carry history fields (`written`, `misleads`) that
say what a logger recorded, and the properties compare the two.

`JsonlDocument` keeps the recording, the lines of the document with how far it
was written, and what a header read and a full read made of it; extensions are
further documents attached to a host. `DocumentHeader` keeps the original and
the current generation side by side. `MotionEvidence` answers one question per
behaviour; `scan` holds the locals of the function at work. `LapSignals` keeps
the locals of the two functions; its recordings carry the beacons that were
passed and how late the dash shows them, which the code does not see.
`DirectoryMetadata`
keeps the documents of a small tree, and what an opened file, a summary and a
converted file show. `VideoLinks` keeps the directory entries, links included,
and the results of the two searches.

### What is abstract

* In `LapRecovery`, motion and GPS verdicts (`stationary`, `slow`, `moving`, gate crossing, timer
  activation, the instant of a departure, long standstills) are chosen
  nondeterministically where the code asks. Whatever the floating-point analysis
  answers is among the choices, so the invariants hold for all of it; a
  violation run was kept only where its verdicts were read back against the
  code and can occur together.
* Times are small naturals; the windows (`RESET_CONFIRM_NS`, 0.5 s, `SNAP`,
  stint gap, shortest pit stop, shortest plausible lap) are constants.
* `i64::MAX` is `MaxCounter`, so the beacon offset overflow happens.
* `LapRecovery` walks one counter channel, the selected one; `LapSignals` selects
  among finished walks. The resets it finds are the `TimerResets` that
  `LapPublication` is given.
* What a pass computes and whether its input is fit are open: `NotReady` and
  `DeriveFails` may happen to any pass that is not on record, and any subset of
  its outputs may turn out all-NaN. Pass parameters and inputs on record, lap
  lists, placement and MTX destinations are not part of a conversion here.
* The schema hash is injective: two hashes agree only if names and types do.
* The track is a line of places in percent of a lap with a signed distance to
  one side; positions of the passes lie on one line too. Speeds are whole numbers
  of places per tick.
* Text, numbers and bytes are cut out before the model begins: a field is its
  value, or unreadable. Sizes that decide something (a box header, a descriptor
  stride, a sample width, a block) are kept.
* Scaled quantities are hundredths, so that unit conversions are exact.
* YAML documents are trees of text, null and maps; content comparison is
  equality of contents, within the size limits the code has.
* A vendor list is what LDX, VBO or MTJ laps look like after parsing: any order,
  complete or not, with or without kinds and stints.

## Runs

| Run | Question | Result |
|---|---|---|
| `LapRecovery` | Does the walk keep its promises on every trace? | passes, about 524,000 states |
| `LapPublication` | Do they survive refinement, validation and classification, and what happens to a source's own laps? | passes, about 976,000 states |
| `Sessions` | Do files end up in the right sessions, with laps and stints joined soundly? | passes, about 919,000 states |
| `Conversion` | Can conversions in a row, by different builds and killed anywhere, spoil a recording? | passes, about 400,000 states |
| `Readers` | Does every reader come to an end with rows, frames, records and chunks where they were recorded? | passes, about 316,000 states |
| `Archive` | Is what the writers write what the readers read, also over stale files, and do names, masks and links survive directories, conversions and copies? | passes, about 469,000 states |
| `Evidence` | Is what is concluded from single channels witnessed by their samples? | passes, about 546,000 states |
| `Fastest`, `Rejected`, `SessionPosition`, `Reversing`, `Rewritten` | Statements of the repository's docs and comments that the code does not keep | violated, see Findings |

Bounds. `LapRecovery` walks every trace of five samples with counters 0–2, and of
three samples with counters 0–3 (a jump to 3 overflows a completed counter), each
spacing inside or outside the confirmation window, from a moving, a parked and a
stopped car, with and without a reference lap; traces of four samples are
combined with a pit visit that coincides with samples, falls between them, or
comes late. Five samples are what the longest pattern needs: a crossing, a
pit-closing increment, the reset that folds it, a re-arm and a crossing. A pit
visit is offered only for traces in which the detector could have measured the
track lane (two unit increments, one after the visit), as `lap_evidence.rs`
requires. `LapPublication` uses four samples, because each walk is multiplied by
timer resets near and away from the crossings, a minimum lap that rejects some
crossings, and every set of laps with a standstill. Three vendor laps are enough
for a lap with a neighbour on both sides and a stint before and after. `Rejected` walks
`LateRecordings` only: a GPS exit on the sample that increments the counter, a
reset right behind it, and any three samples after that.

`Sessions` opens up to three files (`MaxFiles`): two that join and one between,
around, before or after them. They begin at any of three instants and last two
lengths, so they overlap, nest, touch, lie within the gap or beyond it, with
explicit, GPS, Unix or no clocks, and with a stale week at power-on. No file of
the run runs across a week rollover: `ColdStartIgnored` speaks of the stale week
only (`OneWeek`), and what is known of rollovers is under Findings. `Conversion` runs three conversions (`MaxRuns`), the fewest that
apply a pass, lose an all-NaN output and meet a later build, over two output
paths (symmetric: nothing names either of them); two passes, the first with two
outputs; two builds that differ in the second pass; vendor channels named like
an output exactly, in another spelling, and like each other.

`Readers`: four VBO rows around midnight with any spacing and one unreadable
time, five rows at the gate, four rows of every video clock; every list of up to
four boxes of six kinds, and frame tables with two runs each; three AiM records
out of twelve, sound or damaged, and five stamps with every spacing; three chunk
descriptors out of nine under three candidate type fields. `Archive`: beacons of
four samples in one chunk or two, every sample type, old LD files whose block
list loops or leaves the file and every short list of old markers; fitted chunks
that jitter, overlap or leave gaps, two rates with and without a common lattice,
extensions of two folders attached to hosts with other starts and lattices; two
levels of `TRACK.yml` documents that name, mask, blank or break things, two
conversions; directories with up to four entries out of eighteen beside a video,
in a parent, a child and elsewhere, with links and copies. `Evidence`: seven samples
that stand, crawl, drive or are bad, gaps in and between chunks, chunks that overlap
or step back in time, ten fixes through
the pit lane with any two replaced by a lost, inaccurate, fast or misplaced one;
eight positions near and away from the circuits in three spellings; channels of up
to six samples seen by three probes (`Probes`, 4096 in the code), with peaks that
last long enough to be seen and peaks that fall between two probes, pedals, timers
and steering on both sides of the value that tells their units apart; six fixes
with teleports and standstills; three lap counters of two names with up to three
crossings; a lap timer sampled every one or two seconds over two laps, shown late,
read as zero for up to six samples, bad in some, in four units. In each case the bound is the smallest at which a
neighbour on both sides of the interesting element exists.

Fairness. Only `MCReaders` assumes any: weak fairness of `Scanning`, the step of
whichever reader is at work. One thread reads and nothing stops it or waits on
anything, so a reader that can take a step takes it; `ScansEnd` then says that no
chain of resynchronisation, box sizes or entries keeps it going for ever. The
other runs check safety only. `CHECK_DEADLOCK FALSE` in every configuration: the
program returns, and the model stops there.

### What the properties say

* `LapsTile`, `CoversRecording`: backdated departures, pit events and folds
  neither open a gap nor overlap; the whole recording is covered.
* `FlyingIsTimed`: a flying lap is a timed lap; every drop inside it recovered
  within the window.
* `KindsMatchBoundaries`: the kind of every interval fits the evidence at its
  ends.
* `TypeOK` of `LapRecovery`: among others, the unsigned crossing count stays
  natural, so the decrement of a fold cannot underflow.
* `PitExitNeedsEvidence`, `OnlyFoldRewrites`: increments alone never end pit time;
  closed laps are history except for the one a fold hands its fragment.
* `ImplementsContract`: the walk refines `LapContract` under the mapping stated
  there (`anchored` is `phase = "on-track"`).
* `PublishedInOrder`, `PublishedFlyingIsTimed`, `PublishedStintsAdvance`:
  what the reader of the metadata may rely on after all steps.
* `VendorLapsKept`: a source's own laps are only classified and carved, without
  losing or counting time twice.
* `GroupedOnce`: every file is in exactly one group, or still waits for one.
* `NoLapBridgesAGap`, `PiecesCovered`: a joined lap never spans a stretch
  longer than the gap that no file recorded of it, and nothing recorded of a lap
  or stint is lost.
* `ColdStartIgnored`: a few samples with a stale week do not move the clock.
* `StripRecoversRaw`: stripping gives back the vendor's channels after any history.
* `ProvenanceIsTrue`: a pass is recorded once and every derived channel is the
  work of the version on record.
* `StripKeepsItsInput`: at no moment of a strip is the path it reads torn.
* `ClockHolds`: rows keep the time they were written at through midnight and
  unreadable times, and laps lie between the rows at the gate.
* `VideosHonourRows`: the mapping to videos gives every row its frame and none
  where none was recorded, and is answered back without guessing.
* `PresentationIsOfFrames`: the extent of a video is that of its frames one by
  one, and the two readers of one video agree on its first frame.
* `LoggedSamplesKept`: what an AiM logger wrote is found at its time, around
  damage that leaves no false mark.
* `ChunksAreTrue`: PDS chunks have the width and place they were written with.
* `ScansEnd` (liveness): every reader comes to an end.
* `ExportReadsBack`: an undisturbed MoTeC export is read back whole, with its laps, and
  with none of an older sidecar at its path. After a kill between the two files the
  new recording is read with the old laps; the kills are steps of the model, and the
  property says nothing of what is read after them.
* `DocumentReadsBack`: what is written as JSONL is accepted and read back sample
  for sample, given names used once and labels on the lattice; the header tells
  what the lines say.
* `AttachedKeepInstants`: attached samples and spans keep their instants.
* `RereadAnswersAlike`: clock, videos, frames and passes are the same in every
  generation of a document.
* `AnswersAsRecorded`: both arms of `sample_at` answer with the sample whose period
  it is, and none in a gap.
* `MotionIsWitnessed`, `TrackEvidenceHolds`: each verdict about standing,
  departing, the lane or the venue is shown by samples.
* `ReadingsAreTrue`: the quantity measured is read of every channel that declares its
  unit or whose values tell it (`Told`): in the coarse unit of its role (ratio, m/s,
  rad, rad/s, s) it stays where a car can be, in a fine one (percent, km/h, deg, rpm,
  ms) it gets past that for as long as from one probe to the next. When a channel
  tells a speed, one is read. Nothing is claimed of a channel whose values do not
  tell its unit: the run has such channels, some of them misread, so the property
  would fail without `Told`.
* `CircuitIsWhereTheCarIs`: a car is found at its circuit however its fixes are
  written.
* `StrongestCounterIsRead`: whatever the order of the channels, no counter with
  more crossings, or with as many and a better name, is passed over.
* `ResetsAreBeacons`: the timer parts laps at the beacons that were passed, to the
  tick, and elsewhere only where it read zero over a beacon or for too long.
* `CleanIsPlausible`: no impossible jump is left in a cleaned position unless the
  receiver insisted or the car stood.
* `NearestWins`, `ConversionKeepsNames`: the nearest `TRACK.yml` has the last word,
  masks included, also in converted files.
* `LinksAgree`: a recording found for a video never names another file for it,
  and catalogs lead where the headers led.

### Findings

1. `Fastest`: a source's fastest lap that was carved is still published as the
   fastest, as a pit lap, against `docs/CLIENT_GUIDE.md:283`.
2. `SessionPosition`: a file whose time 0 comes before the session's first clock
   reading ends the search for its position and hides all files after it
   (`crates/motorsport-telemetry/src/lib.rs:1069`).
3. `Reversing`: a speed below zero is replaced by the last speed, so rolling
   backwards after driving adds distance at the old speed, where the docs say it
   is clamped to zero (`crates/telemetry-passes/src/speed_distance.rs:36`).
4. `Rewritten`: labels are written with the times the source gives them, and the
   lattice is computed from the channels; a document whose labels need a finer
   lattice is written without an error and refused by the reader. Channels of one
   name end the same way.
5. `Rejected`: a GPS pit exit on the sample that increments the counter would close
   an empty interval, which is dropped. A reset within the confirmation window then
   folds the pit lap itself, so it ends in a counter reset. The replay of validation
   sees no departure and stays in the pits, where a rejected crossing changes
   nothing; the lap that starts at the rejected crossing still flies, against
   `crates/telemetry-core/src/laps.rs:1156`. `PublishedFlyingIsTimed` sets this case
   apart as `~StopsStand`, and its proof shows that there is no other.

Read in the code while modelling, and not kept as runs of their own:

* validation replays the phases without the second reset that upgraded uncertain
  to pit, so such pit time is published as uncertain (`laps.rs:1168`);
* laps are joined across files by numbers that count from 1 in every file, so a
  lap cut by the end of a file may stay in two parts (`metadata.rs:938`);
* the fastest lap of a session keeps the times of its file (`metadata.rs:960`);
* a recording that runs mostly after a week rollover is dated a week late
  (`metadata.rs:509`);
* the schema hash is computed over what the writer is given, so a stripped file is
  not byte for byte the raw conversion (`jsonl/write.rs:407`);
* a progress channel is not watched for dropouts as a timer is: a zero late in a lap
  parts it (`laps.rs:675`, where `laps.rs:623` speaks of a timer only);
* of two counters that never count, the better name is read even if only the other
  one saw a reset, and the timer then wins over that reset (`laps.rs:228`);
* a channel that begins after time 0 is exported to LD as if it began there
  (`motec-telemetry/src/write.rs:300`);
* the unit of a channel that declares none is read from its values also where they
  leave two readings, although `docs/CLIENT_GUIDE.md:115` says "only where one reading
  is physically possible" (the table below it has the rules as coded): a lap timer in
  seconds that ran past 1000, as in a long stop, is read as milliseconds and one in
  milliseconds that stayed below as seconds; a pedal in percent that was hardly
  pressed, or whose presses fell between two probes, as a ratio; steering in radians
  beyond a turn as degrees (`crates/motorsport-telemetry/src/lib.rs:787`, `:806`,
  `:811`);
* two fixes at one instant are both kept by `gps.clean`, and a fill is tested
  against the whole gap only
  (`gps_clean.rs:137`).

## Proofs

The theorems hold for every value of the constants: every set of recordings, lap
lists, registry of passes and window. What is assumed is named where the constants
are declared, and TLC evaluates it on every run:

* `RecordingAssumption`, `BoundAssumption` (`LapRecovery`): samples come in order of
  time with natural counters, pit events in order, windows are naturals.
* `PublicationAssumption` (`LapPublication`): a source's laps end after they start,
  as every reader sees to; a pit stop is not empty.
* `SummaryAssumption`, `LapsAssumption` (`Sessions`): a file's metadata is well-typed,
  and no lap in it runs backwards. Nothing is assumed of clocks.
* `PathsDiffer`, `VendorAssumption`, `RegistryAssumption` (`Conversion`): the
  temporary file is no output, a vendor's file holds recorded channels only, and
  the registry is a list of passes with lists of outputs. Outputs of two passes may
  have the same name, and so may vendor channels.
* `MotionAssumption` (`MotionEvidence`): channels and questions are well-formed, and
  a second and the number of bins are positive. Times may step back from one run of
  samples to the next; such a step ends a stretch as a gap does (`Follows`).
  What is said of departures is said where they do not (`InOrder`), and of
  `sample_at` where runs do not overlap (`Disjoint`), as in the properties.
* `IsRecording` (`LapSignals`), `IsInput` (`DerivedChannels`), `IsTrace`
  (`TrackEvidence`): recordings are well-formed and in order of time, and the atlas
  knows a venue by one length; the limits of `gps.clean` and the pit markers are
  naturals. Speeds out of order, which `speed.distance` refuses and `gps.clean` does
  not look at, are left out of `CleanHolds`.
* `Synchronises` (`Sessions`), only for `ColdStartHolds`: a receiver whose time of week
  never falls knows its week in more than half of the samples. The code counts weeks
  and takes the most frequent, so this is the least a receiver must do for it; with a
  stale week in half of them the recording is dated wrongly. `MCSessions` checks it of
  the recordings it opens (`ReceiverAssumption`).
* `RunsTrue` (`LapSignals`), only for `TruePartsAtBeacons`: the sound samples of a lap
  timer show the time since the last beacon the dash was told of, at most `Latency`
  late, the others nothing or zero; it is sampled once a period or more often, and no
  lap is shorter than a period. What a dash does that adopts a time from elsewhere is
  the run's: the code cannot tell it from a lap in general.

`IsRecording`, `IsTrace` and `IsInput` are hypotheses of the theorems that need them,
and `MCEvidence` assumes them of what it checks (`WellFormedInputs`).

The invariants of `LapRecovery` and `LapPublication` form a chain, each adding what
the next one needs; those of the other modules stand on their own:

| Theorem | States | Invariant | What it adds, and why |
|---|---|---|---|
| `TypeCorrect` | `[]TypeOK` | `TypeInv` | `AnchorCounted`: the fold takes the crossing count back, and it stays a natural number only because an interval that starts at a crossing was counted |
| `Tiling` | `[]LapsTile` | `TileInv` | `OpenInTime`: what is open began no later than the next sample, so closing it there leaves no negative interval; `Tiled`, `NothingYet` |
| `KindsFit` | `[]KindsMatchBoundaries` | `KindInv` | `PhaseFits`: the phase determines at which boundary the open interval starts, so the kind the reducer gives it fits |
| `HistoryStands`, `PitNeedsDeparture` | `OnlyFoldRewrites`, `PitExitNeedsEvidence` | `ContractInv` | action properties, from the same invariant |
| `WalkImplementsContract` | `ImplementsContract` | `ContractInv` | `AnchorBefore`: an anchor is strictly earlier than the next sample, so a flying interval is not empty; `NothingAnchors`: no crossing finds nothing open |
| `WholeIsCovered` | `[]CoversRecording` | `CoverInv` | `FromFirst`: the first interval starts at the first sample, whatever is backdated or folded; `OpenByEnd`, `ToEnd`: what is open began by the end of the recording and is closed there |
| `FlyingLapsTimed` | `[]FlyingIsTimed` | `TimingInv` | `AnchorHolds`: on track, the crossing that opened the interval stands, and every drop below its counter since then recovered in time; so the lap the next crossing closes is timed |
| `PublishesInOrder` | `[]PublishedInOrder` | `PublicationInv` | `Ascending` at every stage: a boundary snapped to a timer reset does not pass what its neighbour is snapped to, dropping empty laps keeps the order, and the parts of a carved lap meet |
| `PublishesTimedLaps` | `[]PublishedFlyingIsTimed` | `LinkInv`, `PublicationInv` | `Replayed`: validation replays the phases from the published laps and lacks what the walk saw, so its phase must be tied to the lap before its cursor, the lap at it and the ones behind (`HandsOver`, `LeavesPits`); that these hold when it starts is `LinkInv`, which says how each lap of a walk takes over from the one before |
| `PublishesStintsInTurn` | `[]PublishedStintsAdvance` | the same | `Numbered`: stints given by the walk ascend, and each of sorting, numbering, bumping and carving keeps them so and keeps what ends a stint apart |
| `PublishesVendorLaps` | `[]VendorLapsKept` | the same | a source's list is classified as it is; what carving does to each lap covers the same time, also where laps overlap or come in any order |
| `EveryFileOnce` (`SessionsProofs`) | `[]GroupedOnce` | `GroupInv` | groups and the files still to place share nothing and miss nothing, for any files, clocks and gap |
| `NoPieceLost` (`SessionsProofs`) | `[]PiecesCovered` | `MergeInv` | `StintsTaken`, `LapsTaken`: what is joined so far is covered, and no piece to come starts before the entry that may grow, because pieces are taken by their start; assumes only that a file's metadata is well-typed (`SummaryAssumption`) |
| `GapsPreserved` (`SessionsProofs`) | `[]NoLapBridgesAGap` | `GapInv` | `Unbroken`: every instant the lap that may still grow spans is within the gap of a piece already joined, so a piece that joins it, though it may end first, opens no gap |
| `ColdStartHolds` (`SessionsProofs`) | `[]ColdStartIgnored`, for receivers that synchronise | `ReadInv` | what is known of a file is what `derive_clock` makes of it; a week with more than half of the votes has more than any other (`MostIsDominant`), and with it the first time of week is dated rightly (`TrueWeekDates`) |
| `StrongestIsRead` (`LapSignalsProofs`) | `[]StrongestCounterIsRead` | `SelectionInv` | `HoldsBest`: each class holds a counter seen that none seen of it beats, and that beats all before it; assumes only that the recordings are well-formed (`IsRecording`) |
| `TruePartsAtBeacons` (`LapSignalsProofs`) | `ResetsAreBeacons`, while `RunsTrue` | `TimerInv` | `PartedSoFar`: of the pairs passed, those around a beacon that shows have parted a lap there, and every reset has a beacon between its samples or zeros behind them; a fall of a true timer says how long ago the beacon was, to the tick (`PartingFalls`), and does not resume (`PartingStands`) |
| `MotionHolds` (`MotionEvidenceProofs`) | `[]MotionIsWitnessed` | `Witnessing` | one part per question: `Departing` says what the stop, the movement and the fast stretch in hand are, and that behind the scan there is no later stop from which the car would be seen leaving; `LeadingIn` that every sample passed stands and follows the one before; `Stopping` that the longest stop so far is no shorter than any row of standing bins passed |
| `AnswersHold` (`MotionEvidenceProofs`) | `[]AnswersAsRecorded` | `Answered` | it rests on lemmas about lookups: `chunk_for_global` finds the place of every sample, the bases of the chunks partition the samples, and a binary search in ascending times counts those up to a time; so both arms find the sample whose period it is |
| `EvidenceHolds` (`TrackEvidenceProofs`) | `TrackEvidenceHolds` | `EvidenceInv` | `Ordered`, `Behind`: the fixes kept ascend in time, so a stay that begins at the entry or later and ends before the exit lies inside the visit; it does, because the fix before the entry is outside the pit sector unless the fixes jump back, and the fix at the exit is faster than a car in the lane (`StayIsInside`); `SeenInRow`: the venue to see again was seen, and no other one since |
| `CleanHolds` (`DerivedChannelsProofs`) | `CleanIsPlausible`, for speeds in order of time | `CleanInv` | `Anchored`: everything behind the fix accepted last is masked, the gap begins there and the streak counts the trusted fixes in it; so a jump is to a fix the receiver insisted on, and what is filled was masked and the car seen standing since (`StoodWhileFilled`) |
| `StripIsAtomic` (`ConversionProofs`) | `StripKeepsItsInput` | `StripInv` | `Stripping`: the file is as it was read, nothing is written over it, and what is about to be renamed is complete; assumes only `PathsDiffer` |
| `ProvenanceHolds` (`ConversionProofs`) | `[]ProvenanceIsTrue` | `RecoveryInv` | `FileKept`: a derived channel is an output of the pass on record, at its version, and the passes on record own different names; so appending one pass can neither forge nor hide the work of another |
| `StripRecovers` (`ConversionProofs`) | `[]StripRecoversRaw` | `RecoveryInv` | what is left of a file without its outputs is the vendor's list filtered, in order; every append, all-NaN loss, write and read of a conversion by another build keeps that, so a strip recovers it |

In each module there is one lemma per idea (what the reducer returns, what
closing an interval gives, a departure, what taking a sample or a pit event
leaves alone), then one step per action. The refinement maps every action to
steps of the contract: a crossing to `CompleteLap` or `EstablishAnchor`, a reset
or pit event to `ClearAnchor`, a fold to `WithdrawAnchor`, the rest to `Begin`,
`End` or a stutter.

Publication and conversion go through filters, stable sorts and running numbers.
`ListProofs` holds what those proofs need of them once: `Only` keeps the
members and their order, `Sorted` is a permutation, in order and stable, running
numbers grow by at most one. Where these rest on induction over a list, the
induction is an argument about the least counterexample, a set of indices, because
the induction theorems of the library take an operator. What a filter chooses is
named by an order-preserving function of positions, so that statements about
neighbours survive it.

Only model-checked:

* what the runs `Readers` and `Archive` check, and of `Evidence`, `ReadingsAreTrue` and
  `CircuitIsWhereTheCarIs`. What folds and recursions compute for every input needs a
  lemma first, as `FlattenIs` of `ListProofs` and those about the sample bases of
  `SampleAccess` are; there is none yet for those of the readers and documents
  (`FoldSeq`, `Gcd`), and the layers of `DirectoryMetadata` are merged by a
  `RECURSIVE` operator, which the prover cannot reach;
* `ResetsAreBeacons` for progress channels and for dashes that adopt a time: the code
  compares numbers, and whether they come from a lap is a matter of the dash;
* `ScansEnd`, which is liveness under fairness and out of the prover's reach.

## Not modelled

- **Decoding of text, numbers and bytes**: JSON, YAML and CSV syntax, character
  sets, endianness, width of stored samples. The readers are modelled from the
  records they have found, and from scan positions where finding them is the
  question (`AimScan`).
- **Hashing** (`native_content.rs`). Equality of fingerprints is equality of
  content.
- **Display, diagnostics, validation reports, the CLI's reports** (`inspect`,
  `verify`). They print what the other parts computed.
- **The audit's geometry and the embedded atlas.** Circuits are points on a line.
- **Floating point.** Values are integers on a scale that keeps every comparison
  of the code exact; rounding within a scale is not modelled.

## Plan

1. `LinksAgree`, whose searches end at the first hit; then `NearestWins`, once the
   layers of `DirectoryMetadata` are merged without recursion.
2. `ReadingsAreTrue`: the lemmas about `sample_at` it needs are in
   `MotionEvidenceProofs`.
3. `ChunksAreTrue` and `ClockHolds` of the readers, with lemmas about their folds.
