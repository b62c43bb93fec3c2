----------------------------- MODULE Conversion -----------------------------
(***************************************************************************)
(* The convert command: a recording is opened, processing passes append    *)
(* derived channels to a view of it (or recorded ones are stripped), and   *)
(* the view is written to a file, possibly the one that was opened.  Runs  *)
(* follow each other, by builds whose passes have other versions, and any  *)
(* of them may be killed between two steps.                                *)
(*                                                                         *)
(* A channel is its name, its sample type, where its data comes from and   *)
(* whether it has a finite sample (a channel without one is not written).  *)
(***************************************************************************)
EXTENDS Naturals, Sequences, SequencesExt, FiniteSets, Lists

CONSTANTS
  Normalized,     \* names::normalize: name of a channel -> its normal form
  Registry,       \* sequence of passes: [name, outputs, needs]
  Builds,         \* builds of the program: pass name -> version
  VendorFiles,    \* the channel lists of the recordings there are to convert
  Outputs,        \* paths the user converts to
  Temp,           \* the hidden file beside an in-place strip
  MaxRuns         \* bound on conversions

\* The temporary name is hidden, and no vendor's file is an output.
ASSUME PathsDiffer == Temp \notin Outputs /\ "external" \notin Outputs \cup {Temp}

VARIABLES
  files,          \* path -> what is there
  run,            \* the conversion under way, or Idle
  runs            \* conversions started

vars == <<files, run, runs>>

NoFile == [state |-> "absent"]
Torn == [state |-> "torn"]
Idle == [stage |-> "idle"]

\* origin is a history variable of the file: the vendor channels it holds.
Recording(channels, passes, origin) ==
    [state |-> "whole", hash |-> <<>>, channels |-> channels, passes |-> passes,
     origin |-> origin]

Raw(name, type, silent) ==
    [name |-> name, type |-> type, data |-> "vendor", version |-> 0, silent |-> silent]

\* A vendor's file holds channels as they were recorded.
ASSUME VendorAssumption ==
    \A channels \in VendorFiles :
        /\ channels \in Seq(Range(channels))
        /\ \A c \in Range(channels) :
              c = Raw(c.name, c.type, c.silent) /\ c.silent \in BOOLEAN

ASSUME RegistryAssumption ==
    /\ Registry \in Seq(Range(Registry))
    /\ \A pass \in Range(Registry) : pass.outputs \in Seq(Range(pass.outputs))

Vendor == {Recording(channels, <<>>, channels) : channels \in VendorFiles}

Modes == {"apply", "skip", "strip"}

Is(path, state) == files[path].state = state

External == "external"     \* the vendor's own file, never written to

-----------------------------------------------------------------------------
(* The view: the channels and provenance of the opened file.               *)

OutputsOf(passes) == UNION {Range(passes[i].outputs) : i \in DOMAIN passes}

\* The channels that are named like none of the outputs of passes.
Without(channels, outputs) == Only(channels, {c \in Range(channels) : c.name \notin outputs})

\* Wrong: only the outputs of the pass applied last are dropped.
StrippedOfLast(view) ==
    [view EXCEPT
        !.channels = IF view.passes = <<>> THEN @ ELSE Without(@, Range(Last(view.passes).outputs)),
        !.passes = <<>>]

Stripped(view) ==
    [view EXCEPT !.channels = Without(@, OutputsOf(view.passes)), !.passes = <<>>]

\* schema_hash, injective here: the header says what the writer was given.
SchemaHash(channels) == [i \in DOMAIN channels |-> <<channels[i].name, channels[i].type>>]

Sampled(channels) == Only(channels, {c \in Range(channels) : ~c.silent})

\* What is read back from the file: the channels with a finite sample, whose
\* values are doubles now.
Written(view) ==
    [view EXCEPT
        !.hash = SchemaHash(view.channels),
        !.channels = [i \in DOMAIN Sampled(@) |-> [Sampled(@)[i] EXCEPT !.type = "f64"]]]

Named(channels, name) == {i \in DOMAIN channels : channels[i].name = name}

\* names::eq, which ignores case and punctuation.
Alike(channels, name) ==
    {i \in DOMAIN channels : Normalized[channels[i].name] = Normalized[name]}

\* Wrong: a pass on record at another version is not found.
RecordedHere(view, pass) ==
    {i \in DOMAIN view.passes :
        view.passes[i].name = pass.name /\ view.passes[i].version = run.build[pass.name]}

Recorded(view, pass) == {i \in DOMAIN view.passes : view.passes[i].name = pass.name}

-----------------------------------------------------------------------------

\* Wrong: the recording being stripped is written over while it is read.
InPlaceTarget(mode, input, dest) == dest

\* Only an in-place strip goes through a file beside its destination.
Target(mode, input, dest) == IF mode = "strip" /\ input = dest THEN Temp ELSE dest

Start(mode, source, input, dest, build) ==
    /\ run = Idle
    /\ runs < MaxRuns
    /\ runs' = runs + 1
    /\ run' = [stage |-> IF mode = "apply" THEN "pass" ELSE "create",
               mode |-> mode, build |-> build, next |-> 1,
               source |-> source, input |-> input,
               view |-> IF mode = "strip" THEN Stripped(source) ELSE source,
               dest |-> dest,
               target |-> Target(mode, input, dest)]
    /\ UNCHANGED files

\* A vendor recording is converted, or an earlier conversion once more.
ConvertVendor(mode, source, dest, build) ==
    Start(mode, source, External, dest, build)

\* The reader rejects a document with two channels of one name.
Readable(path) ==
    /\ Is(path, "whole")
    /\ LET channels == files[path].channels
       IN \A i \in DOMAIN channels : Named(channels, channels[i].name) = {i}

ConvertAgain(mode, path, dest, build) ==
    /\ Readable(path)
    /\ Start(mode, files[path], path, dest, build)

Pass == Registry[run.next]

OfferPass ==
    /\ run.stage = "pass"
    /\ run.next <= Len(Registry)
    /\ UNCHANGED <<files, runs>>

NextPass(view) ==
    run' = [run EXCEPT !.view = view, !.next = @ + 1]

Fails == run' = Idle

\* The recorded version is not this build's: nothing is written.
VersionConflict ==
    /\ OfferPass
    /\ \E i \in Recorded(run.view, Pass) : run.view.passes[i].version # run.build[Pass.name]
    /\ Fails

AlreadyApplied ==
    /\ OfferPass
    /\ \E i \in Recorded(run.view, Pass) : run.view.passes[i].version = run.build[Pass.name]
    /\ NextPass(run.view)

NotRecorded == Recorded(run.view, Pass) = {}

\* check: a channel the pass reads is missing, or its data unfit (no sample,
\* another unit, times going back), which is left open.
NotReady ==
    /\ OfferPass
    /\ NotRecorded
    /\ NextPass(run.view)

Ready == \A name \in Pass.needs : Alike(run.view.channels, name) # {}

Collides == \E name \in Range(Pass.outputs) : Named(run.view.channels, name) # {}

\* A channel of exactly that name exists: the pass is skipped.
Collision ==
    /\ OfferPass
    /\ NotRecorded /\ Ready /\ Collides
    /\ NextPass(run.view)

\* append refuses names that are alike, which the collision check let pass.
Refused ==
    \E j \in DOMAIN Pass.outputs :
        \/ Alike(run.view.channels, Pass.outputs[j]) # {}
        \/ \E i \in 1 .. j - 1 : Normalized[Pass.outputs[i]] = Normalized[Pass.outputs[j]]

RefusedOutput ==
    /\ OfferPass
    /\ NotRecorded /\ Ready /\ ~Collides /\ Refused
    /\ Fails

\* derive finds the data unfit after all.
DeriveFails ==
    /\ OfferPass
    /\ NotRecorded /\ Ready
    /\ Fails

Derived(silent) ==
    [j \in DOMAIN Pass.outputs |->
        [name |-> Pass.outputs[j], type |-> "f64", data |-> Pass.name,
         version |-> run.build[Pass.name], silent |-> Pass.outputs[j] \in silent]]

\* push_pass: the outputs come last, and the provenance names them.
Pushed(silent) ==
    [run.view EXCEPT
        !.channels = @ \o Derived(silent),
        !.passes = Append(@, [name |-> Pass.name, version |-> run.build[Pass.name],
                              outputs |-> Pass.outputs])]

ApplyPass(silent) ==
    /\ OfferPass
    /\ NotRecorded /\ Ready /\ ~Collides /\ ~Refused
    /\ NextPass(Pushed(silent))

AllOffered ==
    /\ run.stage = "pass"
    /\ run.next > Len(Registry)
    /\ run' = [run EXCEPT !.stage = "create"]
    /\ UNCHANGED <<files, runs>>

\* File::create empties the target before the document is written.
CreateFile ==
    /\ run.stage = "create"
    /\ files' = [files EXCEPT ![run.target] = Torn]
    /\ run' = [run EXCEPT !.stage = "write"]
    /\ UNCHANGED runs

WriteFile ==
    /\ run.stage = "write"
    /\ files' = [files EXCEPT ![run.target] = Written(run.view)]
    /\ run' = IF run.target = Temp THEN [run EXCEPT !.stage = "rename"] ELSE Idle
    /\ UNCHANGED runs

RenameFile ==
    /\ run.stage = "rename"
    /\ files' = [files EXCEPT ![run.dest] = files[Temp], ![Temp] = NoFile]
    /\ run' = Idle
    /\ UNCHANGED runs

Killed ==
    /\ run # Idle
    /\ Fails
    /\ UNCHANGED <<files, runs>>

Init ==
    /\ files = [path \in Outputs \cup {Temp} |-> NoFile]
    /\ run = Idle
    /\ runs = 0

Next ==
    \/ \E mode \in Modes, dest \in Outputs, build \in Builds :
        \/ \E source \in Vendor : ConvertVendor(mode, source, dest, build)
        \/ \E path \in Outputs : ConvertAgain(mode, path, dest, build)
    \/ VersionConflict \/ AlreadyApplied \/ NotReady \/ Collision \/ RefusedOutput
    \/ DeriveFails
    \/ run.stage = "pass" /\ run.next <= Len(Registry)
        /\ \E silent \in SUBSET Range(Pass.outputs) : ApplyPass(silent)
    \/ AllOffered \/ CreateFile \/ WriteFile \/ RenameFile \/ Killed

Spec == Init /\ [][Next]_vars

-----------------------------------------------------------------------------
(* Properties                                                              *)

Wholes == {files[path] : path \in {p \in DOMAIN files : Is(p, "whole")}}

(* Whatever passes were applied, by which builds and in how many runs,     *)
(* stripping a recording leaves the channels of the vendor's file          *)
(* ("--strip-passes recovers the raw conversion").                         *)
StripRecoversRaw ==
    \A file \in Wholes :
        Stripped(file).channels = Written(Recording(file.origin, <<>>, file.origin)).channels

(* A pass is recorded once, and the derived channels of a file are outputs *)
(* of the recorded pass that computed them, at the version on record,      *)
(* though builds with other versions went over the file.                   *)
ProvenanceIsTrue ==
    \A file \in Wholes :
        /\ \A i, j \in DOMAIN file.passes : file.passes[i].name = file.passes[j].name => i = j
        /\ \A c \in Range(file.channels) : c.data # "vendor" =>
            \E i \in DOMAIN file.passes :
                /\ c.name \in Range(file.passes[i].outputs)
                /\ file.passes[i].name = c.data /\ file.passes[i].version = c.version

(* While a conversion strips a recording, and wherever it is killed, the   *)
(* path it reads holds the recording, before or after the strip ("write    *)
(* next to the destination, then swap").                                   *)
StripKeepsItsInput ==
    [][ run # Idle /\ run.mode = "strip" /\ run.input # External
        => files'[run.input] \in {run.source, Written(Stripped(run.source))} ]_vars

=============================================================================
