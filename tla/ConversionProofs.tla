-------------------------- MODULE ConversionProofs --------------------------
(***************************************************************************)
(* A strip never loses the recording it reads, for every set of paths,     *)
(* registry of passes and sequence of conversions.                         *)
(***************************************************************************)
EXTENDS Conversion, ListProofs, TLAPS

\* A conversion under way has all its fields.
Underway(r) ==
    r = [stage |-> r.stage, mode |-> r.mode, build |-> r.build, next |-> r.next,
         source |-> r.source, input |-> r.input, view |-> r.view,
         dest |-> r.dest, target |-> r.target]

\* A strip of a converted file: the file is as it was read, nothing is
\* written over it, and a finished temporary file holds the stripped view.
Stripping(r) ==
    /\ r.stage \in {"create", "write", "rename"}
    /\ r.input \in Outputs
    /\ r.dest \in Outputs
    /\ r.target # r.input
    /\ r.target = Temp => r.dest = r.input
    /\ files[r.input] = r.source
    /\ r.view = Stripped(r.source)
    /\ r.stage = "rename" => r.target = Temp /\ files[Temp] = Written(r.view)

PathsKnown == DOMAIN files = Outputs \cup {Temp}

RunKnown ==
    \/ run = Idle
    \/ /\ run.stage \in {"pass", "create", "write", "rename"}
       /\ run.input \in Outputs \cup {External}
       /\ Underway(run)

StripSafe == run.stage # "idle" /\ run.mode = "strip" /\ run.input # External => Stripping(run)

StripInv == PathsKnown /\ RunKnown /\ StripSafe

-----------------------------------------------------------------------------

LEMMA IdleStage == Idle.stage = "idle"
BY DEF Idle

(* A step that fails or is killed leaves the files and no conversion.      *)
LEMMA EndKeeps ==
    ASSUME StripInv, run' = Idle, files' = files
    PROVE  StripInv'
<1>1. PathsKnown' BY DEF StripInv, PathsKnown
<1>2. RunKnown' BY DEF RunKnown
<1>3. StripSafe' BY IdleStage DEF StripSafe
<1> QED BY <1>1, <1>2, <1>3 DEF StripInv

(* A step of the passes is no step of a strip.                             *)
LEMMA PassKeeps ==
    ASSUME StripInv, run.stage = "pass", files' = files,
           NEW view, run' = [run EXCEPT !.view = view, !.next = @ + 1]
    PROVE  StripInv'
<1>1. PathsKnown' BY DEF StripInv, PathsKnown
<1>2. Underway(run) /\ run.input \in Outputs \cup {External}
  BY IdleStage DEF StripInv, RunKnown
<1>3. run.mode # "strip" \/ run.input = External
  BY DEF StripInv, StripSafe, Stripping
<1>4. /\ run'.stage = "pass" /\ run'.mode = run.mode /\ run'.input = run.input
      /\ Underway(run')
  BY <1>2 DEF Underway
<1>5. RunKnown' BY <1>2, <1>4 DEF RunKnown
<1>6. StripSafe' BY <1>3, <1>4 DEF StripSafe
<1> QED BY <1>1, <1>5, <1>6 DEF StripInv

LEMMA StartKeeps ==
    ASSUME StripInv, NEW mode, NEW source, NEW input \in Outputs \cup {External},
           NEW dest \in Outputs, NEW build,
           input # External => files[input] = source,
           Start(mode, source, input, dest, build)
    PROVE  StripInv'
<1> DEFINE r == [stage |-> IF mode = "apply" THEN "pass" ELSE "create",
                 mode |-> mode, build |-> build, next |-> 1,
                 source |-> source, input |-> input,
                 view |-> IF mode = "strip" THEN Stripped(source) ELSE source,
                 dest |-> dest, target |-> Target(mode, input, dest)]
<1>1. run' = r /\ files' = files BY DEF Start
<1>2. PathsKnown' BY <1>1 DEF StripInv, PathsKnown
<1>3. RunKnown' BY <1>1 DEF RunKnown, Underway
<1>4. ASSUME mode = "strip", input # External
      PROVE  Stripping(run)'
  <2>1. Temp # input /\ (Target(mode, input, dest) = Temp => dest = input)
    BY <1>4, PathsDiffer DEF Target
  <2>2. Target(mode, input, dest) # input BY <1>4, <2>1 DEF Target
  <2>3. r.stage = "create" /\ r.view = Stripped(source) BY <1>4
  <2> QED BY <1>1, <1>4, <2>1, <2>2, <2>3 DEF Stripping
<1>5. StripSafe' BY <1>1, <1>4 DEF StripSafe
<1> QED BY <1>2, <1>3, <1>5 DEF StripInv

LEMMA AllOfferedKeeps == StripInv /\ AllOffered => StripInv'
<1> SUFFICES ASSUME StripInv, AllOffered PROVE StripInv'
  OBVIOUS
<1>1. Underway(run) /\ run.input \in Outputs \cup {External}
  BY IdleStage DEF StripInv, RunKnown, AllOffered
<1>2. run.mode # "strip" \/ run.input = External
  BY DEF StripInv, StripSafe, Stripping, AllOffered
<1>3. /\ run'.stage = "create" /\ run'.mode = run.mode /\ run'.input = run.input
      /\ Underway(run')
  BY <1>1 DEF Underway, AllOffered
<1>4. PathsKnown' BY DEF StripInv, PathsKnown, AllOffered
<1>5. RunKnown' BY <1>1, <1>3 DEF RunKnown
<1>6. StripSafe' BY <1>2, <1>3 DEF StripSafe
<1> QED BY <1>4, <1>5, <1>6 DEF StripInv

LEMMA CreateKeeps == StripInv /\ CreateFile => StripInv'
<1> SUFFICES ASSUME StripInv, CreateFile PROVE StripInv'
  OBVIOUS
<1>1. Underway(run) /\ run.input \in Outputs \cup {External}
  BY IdleStage DEF StripInv, RunKnown, CreateFile
<1>2. /\ run' = [run EXCEPT !.stage = "write"]
      /\ files' = [files EXCEPT ![run.target] = Torn]
  BY DEF CreateFile
<1>3. /\ run'.stage = "write" /\ run'.mode = run.mode /\ run'.input = run.input
      /\ run'.dest = run.dest /\ run'.target = run.target
      /\ run'.source = run.source /\ run'.view = run.view /\ Underway(run')
  BY <1>1, <1>2 DEF Underway
<1>4. PathsKnown' BY <1>2 DEF StripInv, PathsKnown
<1>5. RunKnown' BY <1>1, <1>3 DEF RunKnown
<1>6. ASSUME run.mode = "strip", run.input # External
      PROVE  Stripping(run)'
  <2>1. Stripping(run) BY <1>6, IdleStage DEF StripInv, StripSafe, CreateFile
  <2>2. files'[run.input] = files[run.input]
    BY <1>2, <2>1 DEF Stripping, StripInv, PathsKnown
  <2> QED BY <1>3, <2>1, <2>2 DEF Stripping
<1>7. StripSafe' BY <1>3, <1>6 DEF StripSafe
<1> QED BY <1>4, <1>5, <1>7 DEF StripInv

LEMMA WriteKeeps == StripInv /\ WriteFile => StripInv'
<1> SUFFICES ASSUME StripInv, WriteFile PROVE StripInv'
  OBVIOUS
<1>1. Underway(run) /\ run.input \in Outputs \cup {External}
  BY IdleStage DEF StripInv, RunKnown, WriteFile
<1>2. files' = [files EXCEPT ![run.target] = Written(run.view)]
  BY DEF WriteFile
<1>3. PathsKnown' BY <1>2 DEF StripInv, PathsKnown
<1>4. CASE run.target # Temp
  <2>1. run' = Idle BY <1>4 DEF WriteFile
  <2>2. RunKnown' BY <2>1 DEF RunKnown
  <2>3. StripSafe' BY <2>1, IdleStage DEF StripSafe
  <2> QED BY <1>3, <2>2, <2>3 DEF StripInv
<1>5. CASE run.target = Temp
  <2>1. run' = [run EXCEPT !.stage = "rename"] BY <1>5 DEF WriteFile
  <2>2. /\ run'.stage = "rename" /\ run'.mode = run.mode /\ run'.input = run.input
        /\ run'.dest = run.dest /\ run'.target = run.target
        /\ run'.source = run.source /\ run'.view = run.view /\ Underway(run')
    BY <1>1, <2>1 DEF Underway
  <2>3. RunKnown' BY <1>1, <2>2 DEF RunKnown
  <2>4. ASSUME run.mode = "strip", run.input # External
        PROVE  Stripping(run)'
    <3>1. Stripping(run) BY <2>4 DEF StripInv, StripSafe, WriteFile
    <3>2. files'[run.input] = files[run.input] /\ files'[Temp] = Written(run.view)
      BY <1>2, <1>5, <3>1 DEF Stripping, StripInv, PathsKnown
    <3> QED BY <1>5, <2>2, <3>1, <3>2 DEF Stripping
  <2>5. StripSafe' BY <2>2, <2>4 DEF StripSafe
  <2> QED BY <1>3, <2>3, <2>5 DEF StripInv
<1> QED BY <1>4, <1>5

LEMMA RenameKeeps == StripInv /\ RenameFile => StripInv'
<1> SUFFICES ASSUME StripInv, RenameFile PROVE StripInv'
  OBVIOUS
<1>1. run' = Idle /\ files' = [files EXCEPT ![run.dest] = files[Temp], ![Temp] = NoFile]
  BY DEF RenameFile
<1>2. PathsKnown' BY <1>1 DEF StripInv, PathsKnown
<1>3. RunKnown' BY <1>1 DEF RunKnown
<1>4. StripSafe' BY <1>1, IdleStage DEF StripSafe
<1> QED BY <1>2, <1>3, <1>4 DEF StripInv

-----------------------------------------------------------------------------

LEMMA StripInvInit == Init => StripInv
<1> SUFFICES ASSUME Init PROVE StripInv
  OBVIOUS
<1>1. PathsKnown BY DEF Init, PathsKnown
<1>2. RunKnown BY DEF Init, RunKnown
<1>3. StripSafe BY IdleStage DEF Init, StripSafe
<1> QED BY <1>1, <1>2, <1>3 DEF StripInv

LEMMA StripInvNext == StripInv /\ [Next]_vars => StripInv'
<1> SUFFICES ASSUME StripInv, [Next]_vars PROVE StripInv'
  OBVIOUS
<1>1. CASE \E mode \in Modes, dest \in Outputs, build \in Builds :
             \E source \in Vendor : ConvertVendor(mode, source, dest, build)
  <2>1. PICK mode \in Modes, dest \in Outputs, build \in Builds, source \in Vendor :
               ConvertVendor(mode, source, dest, build)
    BY <1>1
  <2> QED BY <2>1, StartKeeps DEF ConvertVendor
<1>2. CASE \E mode \in Modes, dest \in Outputs, build \in Builds :
             \E path \in Outputs : ConvertAgain(mode, path, dest, build)
  <2>1. PICK mode \in Modes, dest \in Outputs, build \in Builds, path \in Outputs :
               ConvertAgain(mode, path, dest, build)
    BY <1>2
  <2> QED BY <2>1, StartKeeps DEF ConvertAgain
<1>3. CASE VersionConflict \/ RefusedOutput \/ DeriveFails \/ Killed
  BY <1>3, EndKeeps DEF VersionConflict, RefusedOutput, DeriveFails, Killed, OfferPass, Fails
<1>4. CASE AlreadyApplied \/ NotReady \/ Collision
  BY <1>4, PassKeeps DEF AlreadyApplied, NotReady, Collision, OfferPass, NextPass
<1>5. CASE \E silent \in SUBSET Range(Pass.outputs) : ApplyPass(silent)
  <2>1. PICK silent \in SUBSET Range(Pass.outputs) : ApplyPass(silent)
    BY <1>5
  <2> QED BY <2>1, PassKeeps DEF ApplyPass, OfferPass, NextPass
<1>6. CASE AllOffered BY <1>6, AllOfferedKeeps
<1>7. CASE CreateFile BY <1>7, CreateKeeps
<1>8. CASE WriteFile BY <1>8, WriteKeeps
<1>9. CASE RenameFile BY <1>9, RenameKeeps
<1>10. CASE UNCHANGED vars
  <2>1. files' = files /\ run' = run BY <1>10 DEF vars
  <2>2. PathsKnown' BY <2>1 DEF StripInv, PathsKnown
  <2>3. RunKnown' BY <2>1 DEF StripInv, RunKnown, Underway
  <2>4. StripSafe' BY <2>1 DEF StripInv, StripSafe, Stripping
  <2> QED BY <2>2, <2>3, <2>4 DEF StripInv
<1> QED
  BY <1>1, <1>2, <1>3, <1>4, <1>5, <1>6, <1>7, <1>8, <1>9, <1>10 DEF Next

LEMMA StripStep ==
    StripInv /\ [Next]_vars =>
        [ run # Idle /\ run.mode = "strip" /\ run.input # External
          => files'[run.input] \in {run.source, Written(Stripped(run.source))} ]_vars
<1> SUFFICES ASSUME StripInv, Next, run # Idle, run.mode = "strip", run.input # External
             PROVE  files'[run.input] \in {run.source, Written(Stripped(run.source))}
  OBVIOUS
<1>1. Stripping(run) BY IdleStage DEF StripInv, RunKnown, StripSafe
<1>2. run.input # Temp /\ run.input \in DOMAIN files /\ run.target # run.input
  BY <1>1, PathsDiffer DEF Stripping, StripInv, PathsKnown
<1>3. CASE files' = files BY <1>1, <1>3 DEF Stripping
<1>4. CASE CreateFile
  BY <1>1, <1>2, <1>4 DEF CreateFile, Stripping
<1>5. CASE WriteFile
  BY <1>1, <1>2, <1>5 DEF WriteFile, Stripping
<1>6. CASE RenameFile
  <2>1. files' = [files EXCEPT ![run.dest] = files[Temp], ![Temp] = NoFile]
        /\ files[Temp] = Written(Stripped(run.source))
    BY <1>1, <1>6 DEF RenameFile, Stripping
  <2>2. run.dest = run.input BY <1>1, <1>6 DEF RenameFile, Stripping
  <2> QED BY <1>2, <2>1, <2>2
<1>7. files' = files \/ CreateFile \/ WriteFile \/ RenameFile
  BY DEF Next, ConvertVendor, ConvertAgain, Start, VersionConflict, AlreadyApplied,
         NotReady, Collision, RefusedOutput, DeriveFails, ApplyPass, OfferPass,
         AllOffered, Killed
<1> QED BY <1>3, <1>4, <1>5, <1>6, <1>7

(* Killed or not, a strip leaves the recording it reads as it was or       *)
(* stripped: the main promise of the swap in convert (main.rs).            *)
THEOREM StripIsAtomic == Spec => StripKeepsItsInput
<1>1. Init => StripInv BY StripInvInit
<1>2. StripInv /\ [Next]_vars => StripInv' BY StripInvNext
<1>3. StripInv /\ [Next]_vars =>
        [ run # Idle /\ run.mode = "strip" /\ run.input # External
          => files'[run.input] \in {run.source, Written(Stripped(run.source))} ]_vars
  BY StripStep
<1> QED BY <1>1, <1>2, <1>3, PTL DEF Spec, StripKeepsItsInput

-----------------------------------------------------------------------------
(* What a recording's channels are: the set they are in, and what writing  *)
(* and stripping do to a list of them.                                     *)

VendorChannels == UNION {Range(channels) : channels \in VendorFiles}

Passes == Range(Registry)

OutputNames == UNION {Range(pass.outputs) : pass \in Passes}

Versions == {0} \cup {build[pass.name] : build \in Builds, pass \in Passes}

Channels ==
    [name : {c.name : c \in VendorChannels} \cup OutputNames,
     type : {c.type : c \in VendorChannels} \cup {"f64"},
     data : {"vendor"} \cup {pass.name : pass \in Passes},
     version : Versions,
     silent : BOOLEAN]

PassRecords ==
    [name : {pass.name : pass \in Passes}, version : Versions,
     outputs : {pass.outputs : pass \in Passes}]

Audible == {c \in Channels : ~c.silent}
Unnamed(outputs) == {c \in Channels : c.name \notin outputs}
Double == [c \in Channels |-> [c EXCEPT !.type = "f64"]]

\* The channels a reader finds in the file written of channels.
Heard(channels) == Mapped(Only(channels, Audible), Double)

\* Channels as a file holds them.
InFile == {c \in Channels : ~c.silent /\ c.type = "f64"}

\* A view or file, with what it was converted from.
Shaped(file) ==
    file = [state |-> file.state, hash |-> file.hash, channels |-> file.channels,
            passes |-> file.passes, origin |-> file.origin]

Typed(file) ==
    /\ Shaped(file) /\ file.state = "whole"
    /\ file.channels \in Seq(Channels)
    /\ file.passes \in Seq(PassRecords)
    /\ file.origin \in VendorFiles

OncePerPass(passes) ==
    \A i, j \in DOMAIN passes : passes[i].name = passes[j].name => i = j

\* What a computed channel needs to be found in the provenance.
Credited(c, passes) ==
    c.data # "vendor" =>
        \E i \in DOMAIN passes :
            /\ c.name \in Range(passes[i].outputs)
            /\ passes[i].name = c.data /\ passes[i].version = c.version

Provenance(file) ==
    /\ OncePerPass(file.passes)
    /\ \A c \in Range(file.channels) : Credited(c, file.passes)

\* The channels no pass added, once written, are the vendor's, once written.
Recoverable(file) ==
    Heard(Only(file.channels, Unnamed(OutputsOf(file.passes)))) = Heard(file.origin)

\* The conversion under way is of a build and at a pass of the registry.
RunTyped ==
    \/ run = Idle
    \/ /\ run.stage \in {"pass", "create", "write", "rename"}
       /\ Underway(run)
       /\ run.build \in Builds
       /\ run.next \in Nat \ {0}

Kept(file) == Typed(file) /\ Provenance(file) /\ Recoverable(file)

ViewKept == run.stage # "idle" => Kept(run.view)

FileKept(file) ==
    file.state = "whole" => Kept(file) /\ file.channels \in Seq(InFile)

FilesKept == \A path \in Outputs \cup {Temp} : FileKept(files[path])

RecoveryInv == PathsKnown /\ RunTyped /\ ViewKept /\ FilesKept
-----------------------------------------------------------------------------

LEMMA DoubleIs ==
    \A c \in Channels :
        /\ Double[c] \in Channels /\ Double[c].type = "f64"
        /\ Double[c].name = c.name /\ Double[c].data = c.data
        /\ Double[c].version = c.version /\ Double[c].silent = c.silent
BY DEF Double, Channels

LEMMA DoubledIsDouble == \A c \in Channels : c.type = "f64" => Double[c] = c
BY DEF Double, Channels

LEMMA DoubleTwice == \A c \in Channels : Double[Double[c]] = Double[c]
BY DoubleIs, DoubledIsDouble

LEMMA AudibleDoubled ==
    \A c \in Channels : c \in Audible <=> Double[c] \in Audible
BY DoubleIs DEF Audible

LEMMA UnnamedDoubled ==
    ASSUME NEW outputs
    PROVE  \A c \in Channels : c \in Unnamed(outputs) <=> Double[c] \in Unnamed(outputs)
BY DoubleIs DEF Unnamed

(* Channels without some outputs, whatever set the filter is written with. *)
LEMMA WithoutIs ==
    ASSUME NEW channels \in Seq(Channels), NEW outputs
    PROVE  Without(channels, outputs) = Only(channels, Unnamed(outputs))
<1>1. channels \in Seq(Range(channels)) /\ Range(channels) \subseteq Channels
  BY DEF Range
<1>2. Range(channels) \cap {c \in Range(channels) : c.name \notin outputs}
      = Range(channels) \cap Unnamed(outputs)
  BY <1>1 DEF Unnamed
<1> QED BY <1>1, <1>2, OnlyOfElements DEF Without

LEMMA SampledIs ==
    ASSUME NEW channels \in Seq(Channels)
    PROVE  Sampled(channels) = Only(channels, Audible)
<1>1. channels \in Seq(Range(channels)) /\ Range(channels) \subseteq Channels
  BY DEF Range
<1>2. Range(channels) \cap {c \in Range(channels) : ~c.silent}
      = Range(channels) \cap Audible
  BY <1>1 DEF Audible
<1> QED BY <1>1, <1>2, OnlyOfElements DEF Sampled

LEMMA OnlyChannels ==
    ASSUME NEW channels \in Seq(Channels), NEW S
    PROVE  Only(channels, S) \in Seq(Channels)
<1>1. Only(channels, S) \in Seq(Channels \cap S) BY OnlyTyped
<1> QED BY <1>1

LEMMA HeardTyped ==
    ASSUME NEW channels \in Seq(Channels)
    PROVE  Heard(channels) \in Seq(InFile) /\ Heard(channels) \in Seq(Channels)
<1>1. Only(channels, Audible) \in Seq(Channels \cap Audible) BY OnlyTyped
<1>2. Heard(channels) \in Seq(Image(Double, Channels \cap Audible))
  BY <1>1, MappedTyped DEF Heard
<1>3. Image(Double, Channels \cap Audible) \subseteq InFile /\ InFile \subseteq Channels
  BY DoubleIs DEF Image, InFile, Audible
<1>4. Image(Double, Channels \cap Audible) \subseteq Channels BY <1>3
<1> QED BY <1>2, <1>3, <1>4, SeqMonotonic

(* Reading back what a list was written as gives a filter of the list the  *)
(* same answer before and after.                                           *)
LEMMA HeardOnly ==
    ASSUME NEW channels \in Seq(Channels), NEW outputs
    PROVE  Only(Heard(channels), Unnamed(outputs)) = Heard(Only(channels, Unnamed(outputs)))
<1> DEFINE U == Unnamed(outputs)
           kept == Only(channels, Audible)
<1>1. kept \in Seq(Channels) BY OnlyChannels
<1>2. Only(kept, U) = Only(channels, Audible \cap U) BY OnlyTwice
<1>3. Only(Only(channels, U), Audible) = Only(channels, U \cap Audible) BY OnlyTwice
<1>4. \A c \in Channels : c \in U <=> Double[c] \in U BY UnnamedDoubled
<1>5. Audible \cap U = U \cap Audible OBVIOUS
<1> HIDE DEF U, kept
<1>6. Only(Mapped(kept, Double), U) = Mapped(Only(kept, U), Double)
  BY <1>1, <1>4, OnlyMapped
<1>7. Only(kept, U) = Only(Only(channels, U), Audible)
  BY <1>2, <1>3, <1>5
<1> QED BY <1>6, <1>7 DEF Heard, U, kept

LEMMA MappedTwice ==
    ASSUME NEW channels \in Seq(Channels)
    PROVE  Mapped(Mapped(channels, Double), Double) = Mapped(channels, Double)
<1>1. \A i \in DOMAIN channels : Double[Double[channels[i]]] = Double[channels[i]]
  BY DoubleTwice
<1> QED BY <1>1 DEF Mapped

LEMMA HeardTwice ==
    ASSUME NEW channels \in Seq(Channels)
    PROVE  Heard(Heard(channels)) = Heard(channels)
<1> DEFINE kept == Only(channels, Audible)
<1>1. kept \in Seq(Channels) BY OnlyChannels
<1>2. Only(kept, Audible) = Only(channels, Audible \cap Audible) BY OnlyTwice
<1>3. Audible \cap Audible = Audible OBVIOUS
<1>4. Only(kept, Audible) = kept BY <1>2, <1>3
<1> HIDE DEF kept
<1>5. Only(Mapped(kept, Double), Audible) = Mapped(Only(kept, Audible), Double)
  BY <1>1, AudibleDoubled, OnlyMapped
<1>6. Mapped(Mapped(kept, Double), Double) = Mapped(kept, Double)
  BY <1>1, MappedTwice
<1> QED BY <1>4, <1>5, <1>6 DEF Heard, kept

(* What is in a file is read back as it is.                                *)
LEMMA HeardInFile ==
    ASSUME NEW channels \in Seq(InFile)
    PROVE  Heard(channels) = channels
<1>1. InFile \subseteq Audible /\ \A c \in InFile : Double[c] = c
  BY DoubledIsDouble DEF InFile, Audible
<1>2. Only(channels, Audible) = channels BY <1>1, OnlyAll
<1>3. Mapped(channels, Double) = channels
  <2>1. \A i \in DOMAIN channels : Double[channels[i]] = channels[i] BY <1>1
  <2> QED BY <2>1 DEF Mapped
<1> QED BY <1>2, <1>3 DEF Heard

LEMMA WrittenIs ==
    ASSUME NEW view, Typed(view)
    PROVE  /\ Written(view).channels = Heard(view.channels)
           /\ Written(view).passes = view.passes /\ Written(view).origin = view.origin
           /\ Written(view).state = "whole" /\ Shaped(Written(view))
<1>1. view.channels \in Seq(Channels) /\ Shaped(view) /\ view.state = "whole"
  BY DEF Typed
<1>2. Sampled(view.channels) = Only(view.channels, Audible) BY <1>1, SampledIs
<1>3. Only(view.channels, Audible) \in Seq(Channels) BY <1>1, OnlyChannels
<1>4. PICK kept : kept = Sampled(view.channels) OBVIOUS
<1>5. PICK hash : hash = SchemaHash(view.channels) OBVIOUS
<1>6. PICK channels : channels = [i \in DOMAIN kept |-> [kept[i] EXCEPT !.type = "f64"]]
  OBVIOUS
<1>7. Written(view) = [view EXCEPT !.hash = hash, !.channels = channels]
  BY <1>4, <1>5, <1>6 DEF Written
<1>8. channels = Heard(view.channels)
  <2>1. kept \in Seq(Channels) BY <1>2, <1>3, <1>4
  <2>2. \A i \in DOMAIN kept : Double[kept[i]] = [kept[i] EXCEPT !.type = "f64"]
    BY <2>1 DEF Double
  <2>3. channels = Mapped(kept, Double) BY <1>6, <2>2 DEF Mapped
  <2> QED BY <1>2, <1>4, <2>3 DEF Heard
<1> QED BY <1>1, <1>7, <1>8 DEF Shaped

LEMMA StrippedIs ==
    ASSUME NEW view, Typed(view)
    PROVE  /\ Stripped(view).channels = Only(view.channels, Unnamed(OutputsOf(view.passes)))
           /\ Stripped(view).passes = <<>> /\ Stripped(view).origin = view.origin
           /\ Stripped(view).state = "whole" /\ Shaped(Stripped(view))
<1>1. view.channels \in Seq(Channels) /\ Shaped(view) /\ view.state = "whole"
  BY DEF Typed
<1>2. PICK outputs : outputs = OutputsOf(view.passes) OBVIOUS
<1>3. PICK channels : channels = Without(view.channels, outputs) OBVIOUS
<1>4. channels = Only(view.channels, Unnamed(outputs)) BY <1>1, <1>3, WithoutIs
<1>5. Stripped(view) = [view EXCEPT !.channels = channels, !.passes = <<>>]
  BY <1>1, <1>2, <1>3 DEF Stripped, Shaped
<1> QED BY <1>1, <1>2, <1>4, <1>5 DEF Shaped
-----------------------------------------------------------------------------
(* The steps keep RecoveryInv.                                             *)

LEMMA NothingOutput == OutputsOf(<<>>) = {}
BY DEF OutputsOf

LEMMA VendorTyped ==
    ASSUME NEW channels \in VendorFiles
    PROVE  /\ channels \in Seq(Channels)
           /\ \A c \in Range(channels) : c.data = "vendor"
<1>1. channels \in Seq(Range(channels)) BY VendorAssumption
<1>2. ASSUME NEW c \in Range(channels)
      PROVE  c \in Channels /\ c.data = "vendor"
  <2>1. c = Raw(c.name, c.type, c.silent) /\ c.silent \in BOOLEAN
    BY VendorAssumption
  <2>2. c \in VendorChannels BY DEF VendorChannels
  <2>3. PICK name, type, silent : name = c.name /\ type = c.type /\ silent = c.silent
    OBVIOUS
  <2>4. c = [name |-> name, type |-> type, data |-> "vendor", version |-> 0,
             silent |-> silent]
    BY <2>1, <2>3 DEF Raw
  <2>5. /\ name \in {x.name : x \in VendorChannels} \cup OutputNames
        /\ type \in {x.type : x \in VendorChannels} \cup {"f64"}
        /\ 0 \in Versions /\ silent \in BOOLEAN
    BY <2>1, <2>2, <2>3 DEF Versions
  <2> QED BY <2>4, <2>5 DEF Channels
<1>3. Range(channels) \subseteq Channels BY <1>2
<1> QED BY <1>1, <1>2, <1>3, SeqMonotonic

LEMMA VendorKept ==
    ASSUME NEW source \in Vendor
    PROVE  Kept(source)
<1>1. PICK channels \in VendorFiles : source = Recording(channels, <<>>, channels)
  BY DEF Vendor
<1>2. channels \in Seq(Channels) /\ \A c \in Range(channels) : c.data = "vendor"
  BY VendorTyped
<1>3. /\ source.channels = channels /\ source.passes = <<>> /\ source.origin = channels
      /\ Shaped(source) /\ source.state = "whole"
  BY <1>1 DEF Recording, Shaped
<1>4. Typed(source) BY <1>2, <1>3 DEF Typed
<1>5. Provenance(source) BY <1>2, <1>3 DEF Provenance, OncePerPass, Credited
<1>6. Only(channels, Unnamed({})) = channels
  <2>1. Channels \subseteq Unnamed({}) BY DEF Unnamed
  <2> QED BY <1>2, <2>1, OnlyAll
<1>7. Recoverable(source) BY <1>3, <1>6, NothingOutput DEF Recoverable
<1> QED BY <1>4, <1>5, <1>7 DEF Kept

LEMMA RangeOfOnly ==
    ASSUME NEW channels \in Seq(Channels), NEW S
    PROVE  Range(Only(channels, S)) \subseteq Range(channels) \cap S
<1>1. channels \in Seq(Range(channels)) BY DEF Range
<1>2. Only(channels, S) \in Seq(Range(channels) \cap S) BY <1>1, OnlyTyped
<1> QED BY <1>2 DEF Range

(* Stripping drops what the passes added and with it their records.        *)
LEMMA StrippedKept ==
    ASSUME NEW source, Kept(source)
    PROVE  Kept(Stripped(source))
<1> DEFINE outputs == OutputsOf(source.passes)
           left == Only(source.channels, Unnamed(outputs))
<1>1. /\ Typed(source) /\ Provenance(source) /\ Recoverable(source)
      /\ source.channels \in Seq(Channels) /\ source.origin \in VendorFiles
  BY DEF Kept, Typed
<1>2. left \in Seq(Channels) BY <1>1, OnlyChannels
<1>3. PICK t : t = Stripped(source) OBVIOUS
<1>4. /\ t.channels = left /\ t.passes = <<>> /\ t.origin = source.origin
      /\ t.state = "whole" /\ Shaped(t)
  BY <1>1, <1>3, StrippedIs
<1>5. Typed(t) BY <1>1, <1>2, <1>4 DEF Typed
<1>6. Provenance(t)
  <2>1. ASSUME NEW c \in Range(t.channels) PROVE c.data = "vendor"
    <3>1. c \in Range(source.channels) /\ c.name \notin outputs
      BY <1>1, <1>4, <2>1, RangeOfOnly DEF Unnamed
    <3>2. Credited(c, source.passes) BY <1>1, <3>1 DEF Provenance
    <3>3. \A i \in DOMAIN source.passes : Range(source.passes[i].outputs) \subseteq outputs
      BY DEF OutputsOf
    <3> QED BY <3>1, <3>2, <3>3 DEF Credited
  <2> QED BY <1>4, <2>1 DEF Provenance, OncePerPass, Credited
<1>7. Recoverable(t)
  <2>1. Channels \subseteq Unnamed({}) BY DEF Unnamed
  <2>2. Only(left, Unnamed({})) = left BY <1>2, <2>1, OnlyAll
  <2>3. Heard(left) = Heard(source.origin) BY <1>1 DEF Recoverable
  <2> QED BY <1>4, <2>2, <2>3, NothingOutput DEF Recoverable
<1> QED BY <1>3, <1>5, <1>6, <1>7 DEF Kept

(* A file that is written holds what its view does.                        *)
LEMMA WrittenKept ==
    ASSUME NEW view, Kept(view)
    PROVE  Kept(Written(view)) /\ Written(view).channels \in Seq(InFile)
<1> DEFINE outputs == OutputsOf(view.passes)
<1>1. /\ Typed(view) /\ Provenance(view) /\ Recoverable(view)
      /\ view.channels \in Seq(Channels) /\ view.origin \in VendorFiles
  BY DEF Kept, Typed
<1>2. PICK t : t = Written(view) OBVIOUS
<1>3. /\ t.channels = Heard(view.channels) /\ t.passes = view.passes
      /\ t.origin = view.origin /\ t.state = "whole" /\ Shaped(t)
  BY <1>1, <1>2, WrittenIs
<1>4. t.channels \in Seq(Channels) /\ t.channels \in Seq(InFile)
  BY <1>1, <1>3, HeardTyped
<1>5. Typed(t) BY <1>1, <1>3, <1>4 DEF Typed
<1>6. Provenance(t)
  <2>1. ASSUME NEW c \in Range(t.channels) PROVE Credited(c, view.passes)
    <3>1. Only(view.channels, Audible) \in Seq(Channels) BY <1>1, OnlyChannels
    <3>2. PICK i \in DOMAIN Only(view.channels, Audible) :
                 c = Double[Only(view.channels, Audible)[i]]
      BY <1>3, <2>1 DEF Range, Heard, Mapped
    <3>3. PICK d \in Range(Only(view.channels, Audible)) : c = Double[d]
      BY <3>2 DEF Range
    <3>4. d \in Range(view.channels) BY <1>1, <3>3, RangeOfOnly
    <3>5. d \in Channels BY <1>1, <3>4 DEF Range
    <3>6. c.data = d.data /\ c.name = d.name /\ c.version = d.version
      BY <3>3, <3>5, DoubleIs
    <3>7. Credited(d, view.passes) BY <1>1, <3>4 DEF Provenance
    <3> QED BY <3>6, <3>7 DEF Credited
  <2> QED BY <1>1, <1>3, <2>1 DEF Provenance
<1>7. Recoverable(t)
  <2>1. PICK left : left = Only(view.channels, Unnamed(outputs)) OBVIOUS
  <2>2. left \in Seq(Channels) BY <1>1, <2>1, OnlyChannels
  <2>3. Only(Heard(view.channels), Unnamed(outputs)) = Heard(left)
    BY <1>1, <2>1, HeardOnly
  <2>4. Heard(Heard(left)) = Heard(left) BY <2>2, HeardTwice
  <2>5. Heard(left) = Heard(view.origin) BY <1>1, <2>1 DEF Recoverable
  <2> QED BY <1>3, <2>3, <2>4, <2>5 DEF Recoverable
<1> QED BY <1>2, <1>4, <1>5, <1>6, <1>7 DEF Kept
LEMMA OutputsAppend ==
    ASSUME NEW T, NEW passes \in Seq(T), NEW record \in T
    PROVE  OutputsOf(Append(passes, record)) = OutputsOf(passes) \cup Range(record.outputs)
<1> DEFINE more == Append(passes, record)
<1>1. /\ DOMAIN more = DOMAIN passes \cup {Len(passes) + 1}
      /\ more[Len(passes) + 1] = record
      /\ \A i \in DOMAIN passes : more[i] = passes[i]
  OBVIOUS
<1> HIDE DEF more
<1>2. UNION {Range(more[i].outputs) : i \in DOMAIN more}
      = (UNION {Range(passes[i].outputs) : i \in DOMAIN passes}) \cup Range(record.outputs)
  <2>1. ASSUME NEW i \in DOMAIN more, NEW name \in Range(more[i].outputs)
        PROVE  \/ \E k \in DOMAIN passes : name \in Range(passes[k].outputs)
               \/ name \in Range(record.outputs)
    BY <1>1, <2>1
  <2>2. ASSUME NEW i \in DOMAIN passes, NEW name \in Range(passes[i].outputs)
        PROVE  \E k \in DOMAIN more : name \in Range(more[k].outputs)
    BY <1>1, <2>2
  <2>3. ASSUME NEW name \in Range(record.outputs)
        PROVE  \E k \in DOMAIN more : name \in Range(more[k].outputs)
    BY <1>1, <2>3
  <2> DEFINE a == UNION {Range(more[i].outputs) : i \in DOMAIN more}
             b == UNION {Range(passes[i].outputs) : i \in DOMAIN passes}
             c == Range(record.outputs)
  <2>4. a \subseteq b \cup c BY <2>1, Zenon
  <2>5. b \subseteq a BY <2>2, Zenon
  <2>6. c \subseteq a BY <2>3, Zenon
  <2> QED BY <2>4, <2>5, <2>6, Zenon
<1> QED BY <1>2 DEF OutputsOf, more

LEMMA ChannelMade ==
    \A name \in {c.name : c \in VendorChannels} \cup OutputNames,
       data \in {pass.name : pass \in Passes}, version \in Versions, silent \in BOOLEAN :
        [name |-> name, type |-> "f64", data |-> data, version |-> version,
         silent |-> silent] \in Channels
BY DEF Channels

DerivedFrom(derived, pass, build, silent) ==
    derived = [j \in DOMAIN pass.outputs |->
                 [name |-> pass.outputs[j], type |-> "f64", data |-> pass.name,
                  version |-> build[pass.name], silent |-> pass.outputs[j] \in silent]]

(* What a pass adds: channels of its output names and its own data.        *)
LEMMA DerivedTyped ==
    ASSUME NEW pass \in Passes, NEW build \in Builds, NEW silent, NEW derived,
           DerivedFrom(derived, pass, build, silent)
    PROVE  /\ derived \in Seq(Channels)
           /\ \A c \in Range(derived) :
                /\ c.name \in Range(pass.outputs) /\ c.data = pass.name
                /\ c.version = build[pass.name]
<1>1. pass.outputs \in Seq(Range(pass.outputs)) BY RegistryAssumption DEF Passes
<1>2. PICK names : names = pass.outputs OBVIOUS
<1>3. PICK name : name = pass.name OBVIOUS
<1>4. PICK version : version = build[pass.name] OBVIOUS
<1>5. PICK set : set = Range(names) OBVIOUS
<1>6. /\ names \in Seq(set) /\ version \in Versions /\ set \subseteq OutputNames
      /\ name \in {x.name : x \in Passes}
  BY <1>1, <1>2, <1>3, <1>4, <1>5 DEF Versions, OutputNames
<1>7. derived = [j \in DOMAIN names |->
                   [name |-> names[j], type |-> "f64", data |-> name,
                    version |-> version, silent |-> names[j] \in silent]]
  BY <1>2, <1>3, <1>4, Zenon DEF DerivedFrom
<1>8. ASSUME NEW j \in DOMAIN names
      PROVE  /\ names[j] \in set
             /\ derived[j] \in Channels /\ derived[j].name = names[j]
             /\ derived[j].data = name /\ derived[j].version = version
  <2>1. names[j] \in set BY <1>6
  <2>2. PICK b \in BOOLEAN : b = (names[j] \in silent)
    <3>1. (names[j] \in silent) \in BOOLEAN BY InIsBoolean
    <3> QED BY <3>1, Zenon
  <2>3. derived[j] = [name |-> names[j], type |-> "f64", data |-> name,
                      version |-> version, silent |-> b]
    BY <1>7, <2>2
  <2>4. names[j] \in {c.name : c \in VendorChannels} \cup OutputNames
    <3>1. names[j] \in OutputNames BY <1>6, <2>1, Zenon
    <3> QED BY <3>1, Zenon
  <2>5. derived[j] \in Channels
    <3>1. [name |-> names[j], type |-> "f64", data |-> name,
           version |-> version, silent |-> b] \in Channels
      <4>1. version \in Versions /\ name \in {x.name : x \in Passes} BY <1>6
      <4> QED BY <4>1, <2>4, ChannelMade, Zenon
    <3> QED BY <2>3, <3>1, Zenon
  <2> QED BY <2>1, <2>3, <2>5
<1>9. DOMAIN derived = DOMAIN names /\ DOMAIN names = 1 .. Len(names) /\ Len(names) \in Nat
  BY <1>6, <1>7
<1>10. derived \in [1 .. Len(names) -> Channels]
  <2>1. derived = [j \in 1 .. Len(names) |-> derived[j]] BY <1>7, <1>9
  <2>2. \A j \in 1 .. Len(names) : derived[j] \in Channels BY <1>8, <1>9
  <2> QED BY <2>1, <2>2
<1>11. derived \in Seq(Channels) BY <1>9, <1>10, SeqOfFunction
<1> QED BY <1>2, <1>3, <1>4, <1>5, <1>8, <1>9, <1>11 DEF Range

(* Stripping the outputs of one more pass drops the channels it added.     *)
AllNamed(channels, outputs) == \A c \in Range(channels) : c.name \in outputs
NoneNamed(channels, outputs) == \A c \in Range(channels) : c.name \notin outputs

LEMMA AddedAreNamed ==
    ASSUME NEW channels \in Seq(Channels), NEW derived \in Seq(Channels),
           NEW old, NEW outputs, NEW new, new = old \cup outputs,
           NoneNamed(channels, outputs), AllNamed(derived, outputs)
    PROVE  Only(Joined(channels, derived), Unnamed(new)) = Only(channels, Unnamed(old))
<1>1. Only(channels \o derived, Unnamed(new))
      = Only(channels, Unnamed(new)) \o Only(derived, Unnamed(new))
  BY OnlyConcat
<1>2. Only(derived, Unnamed(new)) = <<>>
  <2>1. Range(derived) \cap Unnamed(new) = {} BY DEF Unnamed, AllNamed, NoneNamed
  <2>2. derived \in Seq(Range(derived)) BY SeqOfRange
  <2> QED BY <2>1, <2>2, OnlyNone
<1>3. Only(channels, Unnamed(new)) = Only(channels, Unnamed(old))
  <2>1. Range(channels) \cap Unnamed(new) = Range(channels) \cap Unnamed(old)
    BY DEF Unnamed, AllNamed, NoneNamed
  <2>2. channels \in Seq(Range(channels)) BY SeqOfRange
  <2>3. PICK S, R : S = Unnamed(new) /\ R = Unnamed(old) OBVIOUS
  <2>4. Range(channels) \cap S = Range(channels) \cap R BY <2>1, <2>3
  <2>5. Only(channels, S) = Only(channels, R)
    BY <2>2, <2>4, OnlyOfElements
  <2> QED BY <2>3, <2>5
<1>4. Only(channels, Unnamed(old)) \in Seq(Channels) BY OnlyChannels
<1>5. Only(channels, Unnamed(old)) \o <<>> = Only(channels, Unnamed(old))
  BY <1>4, ConcatEmptySeq
<1> QED BY <1>1, <1>2, <1>3, <1>5 DEF Joined

(* A pass may be added where none of its outputs is named yet: then its    *)
(* record accounts for what it adds, and a strip takes just that away.     *)
LEMMA PushKept ==
    ASSUME NEW view, Kept(view), NEW pass \in Passes, NEW build \in Builds,
           NEW derived \in Seq(Channels),
           \A c \in Range(derived) :
               /\ c.name \in Range(pass.outputs) /\ c.data = pass.name
               /\ c.version = build[pass.name],
           NEW record,
           record = [name |-> pass.name, version |-> build[pass.name], outputs |-> pass.outputs],
           Recorded(view, pass) = {},
           \A name \in Range(pass.outputs) : Named(view.channels, name) = {}
    PROVE  Kept([view EXCEPT !.channels = @ \o derived, !.passes = Append(@, record)])
<1>1. /\ Typed(view) /\ Provenance(view) /\ Recoverable(view) /\ Shaped(view)
      /\ view.channels \in Seq(Channels) /\ view.origin \in VendorFiles
      /\ view.passes \in Seq(PassRecords) /\ view.state = "whole"
  BY DEF Kept, Typed
<1>2. PICK channels, passes : channels = view.channels /\ passes = view.passes
  OBVIOUS
<1>3. /\ derived \in Seq(Channels)
      /\ \A c \in Range(derived) :
           /\ c.name \in Range(pass.outputs) /\ c.data = pass.name
           /\ c.version = build[pass.name]
  OBVIOUS
<1>4. record \in PassRecords BY DEF PassRecords, Versions
<1>5. PICK joined, more : joined = channels \o derived /\ more = Append(passes, record)
  OBVIOUS
<1>6. PICK t : t = [view EXCEPT !.channels = joined, !.passes = more] OBVIOUS
<1>7. t = [view EXCEPT !.channels = @ \o derived, !.passes = Append(@, record)]
  BY <1>1, <1>2, <1>5, <1>6 DEF Shaped
<1>8. /\ t.channels = joined /\ t.passes = more /\ t.origin = view.origin
      /\ t.state = "whole" /\ Shaped(t)
  BY <1>1, <1>6 DEF Shaped
<1>9. channels \in Seq(Channels) /\ passes \in Seq(PassRecords) BY <1>1, <1>2
<1>10. joined \in Seq(Channels) /\ more \in Seq(PassRecords)
  BY <1>3, <1>4, <1>5, <1>9
<1>11. Typed(t) BY <1>1, <1>8, <1>10 DEF Typed
<1>12. /\ DOMAIN more = DOMAIN passes \cup {Len(passes) + 1}
       /\ more[Len(passes) + 1] = record
       /\ \A i \in DOMAIN passes : more[i] = passes[i]
  BY <1>4, <1>5, <1>9
<1>13. Provenance(t)
  <2>1. \A i \in DOMAIN passes : passes[i].name # pass.name
    BY <1>2 DEF Recorded
  <2>2. OncePerPass(more)
    <3>1. record.name = pass.name OBVIOUS
    <3>2. ASSUME NEW i \in DOMAIN more, NEW j \in DOMAIN more, more[i].name = more[j].name
          PROVE  i = j
      <4>1. CASE i \in DOMAIN passes /\ j \in DOMAIN passes
        BY <1>1, <1>2, <1>12, <3>2, <4>1 DEF Provenance, OncePerPass
      <4>2. CASE i \in DOMAIN passes /\ j \notin DOMAIN passes
        BY <1>12, <2>1, <3>1, <3>2, <4>2
      <4>3. CASE i \notin DOMAIN passes /\ j \in DOMAIN passes
        BY <1>12, <2>1, <3>1, <3>2, <4>3
      <4>4. CASE i \notin DOMAIN passes /\ j \notin DOMAIN passes
        BY <1>12, <4>4
      <4> QED BY <4>1, <4>2, <4>3, <4>4
    <3> QED BY <3>2 DEF OncePerPass
  <2>3. ASSUME NEW c \in Range(joined) PROVE Credited(c, more)
    <3>1. c \in Range(channels) \/ c \in Range(derived)
      BY <1>3, <1>5, <1>9, <2>3, RangeConcatenation
    <3>2. CASE c \in Range(channels)
      <4>1. Credited(c, passes) BY <1>1, <1>2, <3>2 DEF Provenance
      <4> QED BY <1>12, <4>1 DEF Credited
    <3>3. CASE c \in Range(derived)
      <4>1. /\ Len(passes) + 1 \in DOMAIN more /\ more[Len(passes) + 1] = record
            /\ record.name = pass.name /\ record.version = build[pass.name]
            /\ record.outputs = pass.outputs
        BY <1>12
      <4>2. c.name \in Range(pass.outputs) /\ c.data = pass.name /\ c.version = build[pass.name]
        BY <1>3, <3>3
      <4> QED BY <4>1, <4>2 DEF Credited
    <3> QED BY <3>1, <3>2, <3>3
  <2> QED BY <1>8, <2>2, <2>3 DEF Provenance
<1>14. Recoverable(t)
  <2>1. PICK old, new : old = OutputsOf(passes) /\ new = OutputsOf(more) OBVIOUS
  <2>2. new = old \cup Range(pass.outputs)
    <3>1. record.outputs = pass.outputs OBVIOUS
    <3> QED BY <1>4, <1>5, <1>9, <2>1, <3>1, OutputsAppend
  <2>3. PICK d, outputs : d = derived /\ outputs = Range(pass.outputs) OBVIOUS
  <2>4. NoneNamed(channels, outputs)
    BY <1>2, <2>3 DEF Range, Named, NoneNamed
  <2>5. AllNamed(d, outputs) BY <1>3, <2>3 DEF AllNamed
  <2>6. /\ channels \in Seq(Channels) /\ d \in Seq(Channels) /\ joined = Joined(channels, d)
        /\ new = old \cup outputs
    BY <1>3, <1>5, <1>9, <2>2, <2>3 DEF Joined
  <2>7. Only(joined, Unnamed(new)) = Only(channels, Unnamed(old))
    <3>1. Only(Joined(channels, d), Unnamed(new)) = Only(channels, Unnamed(old))
      BY <2>4, <2>5, <2>6, AddedAreNamed
    <3> QED BY <2>6, <3>1
  <2>8. Heard(Only(channels, Unnamed(old))) = Heard(view.origin)
    BY <1>1, <1>2, <2>1 DEF Recoverable
  <2> QED BY <1>8, <2>1, <2>7, <2>8 DEF Recoverable
<1> QED BY <1>7, <1>11, <1>13, <1>14 DEF Kept

(* What every step needs to know of the conversion under way.              *)
LEMMA Running ==
    ASSUME RecoveryInv, run.stage \in {"pass", "create", "write", "rename"}
    PROVE  /\ Underway(run) /\ run.build \in Builds /\ run.next \in Nat \ {0}
           /\ Kept(run.view)
BY IdleStage DEF RecoveryInv, RunTyped, ViewKept

LEMMA EndRecovers ==
    ASSUME RecoveryInv, run' = Idle, files' = files
    PROVE  RecoveryInv'
<1>1. PathsKnown' /\ FilesKept' BY DEF RecoveryInv, PathsKnown, FilesKept
<1>2. RunTyped' BY DEF RunTyped
<1>3. ViewKept' BY IdleStage DEF ViewKept
<1> QED BY <1>1, <1>2, <1>3 DEF RecoveryInv

LEMMA StartRecovers ==
    ASSUME RecoveryInv, NEW mode, NEW source, Kept(source), NEW input, NEW dest,
           NEW build \in Builds, Start(mode, source, input, dest, build)
    PROVE  RecoveryInv'
<1> DEFINE r == [stage |-> IF mode = "apply" THEN "pass" ELSE "create",
                 mode |-> mode, build |-> build, next |-> 1,
                 source |-> source, input |-> input,
                 view |-> IF mode = "strip" THEN Stripped(source) ELSE source,
                 dest |-> dest, target |-> Target(mode, input, dest)]
<1>1. run' = r /\ files' = files BY DEF Start
<1>2. PathsKnown' /\ FilesKept' BY <1>1 DEF RecoveryInv, PathsKnown, FilesKept
<1>3. RunTyped' BY <1>1 DEF RunTyped, Underway
<1>4. Kept(r.view)
  <2>1. Kept(Stripped(source)) BY StrippedKept
  <2>2. r.view = Stripped(source) \/ r.view = source OBVIOUS
  <2> HIDE DEF r
  <2> QED BY <2>1, <2>2
<1> HIDE DEF r
<1>5. Kept(run'.view) BY <1>1, <1>4
<1>6. ViewKept' BY <1>5 DEF ViewKept
<1> QED BY <1>2, <1>3, <1>6 DEF RecoveryInv

(* A pass was offered, and what the view is now is as it should be.        *)
LEMMA PassRecovers ==
    ASSUME RecoveryInv, run.stage = "pass", files' = files,
           NEW view, Kept(view), run' = [run EXCEPT !.view = view, !.next = @ + 1]
    PROVE  RecoveryInv'
<1>1. Underway(run) /\ run.build \in Builds /\ run.next \in Nat \ {0}
  BY Running
<1>2. PathsKnown' /\ FilesKept' BY DEF RecoveryInv, PathsKnown, FilesKept
<1>3. /\ run'.stage = "pass" /\ run'.build = run.build /\ run'.next = run.next + 1
      /\ run'.view = view /\ Underway(run')
  BY <1>1 DEF Underway
<1>4. RunTyped' BY <1>1, <1>3 DEF RunTyped
<1>5. ViewKept' BY <1>3 DEF ViewKept
<1> QED BY <1>2, <1>4, <1>5 DEF RecoveryInv

(* The stage moves on, the view stays.                                     *)
LEMMA StageRecovers ==
    ASSUME RecoveryInv, run.stage \in {"pass", "create", "write", "rename"},
           NEW stage \in {"create", "write", "rename"},
           run' = [run EXCEPT !.stage = stage], PathsKnown', FilesKept'
    PROVE  RecoveryInv'
<1>1. /\ Underway(run) /\ run.build \in Builds /\ run.next \in Nat \ {0}
      /\ Kept(run.view)
  BY Running
<1>2. /\ run'.stage = stage /\ run'.build = run.build /\ run'.next = run.next
      /\ run'.view = run.view /\ Underway(run')
  BY <1>1 DEF Underway
<1>3. RunTyped' BY <1>1, <1>2 DEF RunTyped
<1>4. ViewKept' BY <1>1, <1>2 DEF ViewKept
<1> QED BY <1>3, <1>4 DEF RecoveryInv

(* One path gets a file that is kept, or one that is not whole.            *)
LEMMA FileRecovers ==
    ASSUME RecoveryInv, NEW path, NEW file, FileKept(file),
           files' = [files EXCEPT ![path] = file]
    PROVE  PathsKnown' /\ FilesKept'
<1>1. PathsKnown' BY DEF RecoveryInv, PathsKnown
<1>2. ASSUME NEW p \in Outputs \cup {Temp} PROVE FileKept(files'[p])
  <2>1. files'[p] = file \/ files'[p] = files[p]
    BY <1>2 DEF RecoveryInv, PathsKnown
  <2>2. FileKept(files[p]) BY <1>2 DEF RecoveryInv, FilesKept
  <2> QED BY <2>1, <2>2
<1> QED BY <1>1, <1>2 DEF FilesKept

LEMMA NotWholeKept == FileKept(NoFile) /\ FileKept(Torn)
BY DEF FileKept, NoFile, Torn

LEMMA ApplyRecovers ==
    ASSUME RecoveryInv, NEW silent, ApplyPass(silent)
    PROVE  RecoveryInv'
<1>1. /\ run.stage = "pass" /\ run.next <= Len(Registry) /\ files' = files
      /\ run' = [run EXCEPT !.view = Pushed(silent), !.next = @ + 1]
      /\ Recorded(run.view, Pass) = {}
      /\ \A name \in Range(Pass.outputs) : Named(run.view.channels, name) = {}
  BY DEF ApplyPass, OfferPass, NextPass, NotRecorded, Collides
<1>2. /\ run.build \in Builds /\ run.next \in Nat \ {0} /\ Kept(run.view)
  BY <1>1, Running
<1>3. Pass \in Passes
  BY <1>1, <1>2, RegistryAssumption DEF Pass, Passes, Range
<1>4. PICK pass \in Passes : pass = Pass BY <1>3
<1>5. PICK build \in Builds : build = run.build BY <1>2
<1>6. PICK view : view = run.view OBVIOUS
<1>7. PICK derived : derived = Derived(silent) OBVIOUS
<1>8. PICK record :
        record = [name |-> pass.name, version |-> build[pass.name], outputs |-> pass.outputs]
  OBVIOUS
<1>9. DerivedFrom(derived, pass, build, silent)
  BY <1>4, <1>5, <1>7, Zenon DEF Derived, DerivedFrom
<1>10. /\ derived \in Seq(Channels)
       /\ \A c \in Range(derived) :
            /\ c.name \in Range(pass.outputs) /\ c.data = pass.name
            /\ c.version = build[pass.name]
  BY <1>9, DerivedTyped
<1>11. Kept([view EXCEPT !.channels = @ \o derived, !.passes = Append(@, record)])
  <2>1. /\ Kept(view) /\ Recorded(view, pass) = {}
        /\ \A name \in Range(pass.outputs) : Named(view.channels, name) = {}
    BY <1>1, <1>2, <1>4, <1>6
  <2> QED BY <1>8, <1>10, <2>1, PushKept
<1>12. Pushed(silent) = [view EXCEPT !.channels = @ \o derived, !.passes = Append(@, record)]
  BY <1>4, <1>5, <1>6, <1>7, <1>8 DEF Pushed
<1>13. Kept(Pushed(silent)) BY <1>11, <1>12
<1> QED BY <1>1, <1>13, PassRecovers

LEMMA WriteRecovers ==
    ASSUME RecoveryInv, WriteFile
    PROVE  RecoveryInv'
<1>1. Kept(run.view) BY Running DEF WriteFile
<1>2. FileKept(Written(run.view)) BY <1>1, WrittenKept DEF FileKept
<1>3. PathsKnown' /\ FilesKept'
  <2>1. files' = [files EXCEPT ![run.target] = Written(run.view)] BY DEF WriteFile
  <2> QED BY <1>2, <2>1, FileRecovers
<1>4. CASE run.target = Temp
  <2>1. run' = [run EXCEPT !.stage = "rename"] BY <1>4 DEF WriteFile
  <2> QED BY <1>3, <2>1, StageRecovers DEF WriteFile
<1>5. CASE run.target # Temp
  <2>1. run' = Idle BY <1>5 DEF WriteFile
  <2>2. RunTyped' BY <2>1 DEF RunTyped
  <2>3. ViewKept' BY <2>1, IdleStage DEF ViewKept
  <2> QED BY <1>3, <2>2, <2>3 DEF RecoveryInv
<1> QED BY <1>4, <1>5

LEMMA RenameRecovers ==
    ASSUME RecoveryInv, RenameFile
    PROVE  RecoveryInv'
<1>1. run' = Idle /\ files' = [files EXCEPT ![run.dest] = files[Temp], ![Temp] = NoFile]
  BY DEF RenameFile
<1>2. FileKept(files[Temp]) BY DEF RecoveryInv, FilesKept
<1>3. PathsKnown' BY <1>1 DEF RecoveryInv, PathsKnown
<1>4. ASSUME NEW p \in Outputs \cup {Temp} PROVE FileKept(files'[p])
  <2>1. files'[p] = NoFile \/ files'[p] = files[Temp] \/ files'[p] = files[p]
    BY <1>1, <1>4 DEF RecoveryInv, PathsKnown
  <2>2. FileKept(files[p]) BY <1>4 DEF RecoveryInv, FilesKept
  <2> QED BY <1>2, <2>1, <2>2, NotWholeKept
<1>5. FilesKept' BY <1>4 DEF FilesKept
<1>6. RunTyped' BY <1>1 DEF RunTyped
<1>7. ViewKept' BY <1>1, IdleStage DEF ViewKept
<1> QED BY <1>3, <1>5, <1>6, <1>7 DEF RecoveryInv

LEMMA RecoveryInit == Init => RecoveryInv
<1> SUFFICES ASSUME Init PROVE RecoveryInv
  OBVIOUS
<1>1. PathsKnown BY DEF Init, PathsKnown
<1>2. RunTyped BY DEF Init, RunTyped
<1>3. ViewKept BY IdleStage DEF Init, ViewKept
<1>4. FilesKept BY NotWholeKept DEF Init, FilesKept
<1> QED BY <1>1, <1>2, <1>3, <1>4 DEF RecoveryInv

LEMMA RecoveryNext == RecoveryInv /\ [Next]_vars => RecoveryInv'
<1> SUFFICES ASSUME RecoveryInv, [Next]_vars PROVE RecoveryInv'
  OBVIOUS
<1>1. CASE \E mode \in Modes, dest \in Outputs, build \in Builds :
             \E source \in Vendor : ConvertVendor(mode, source, dest, build)
  <2>1. PICK mode \in Modes, dest \in Outputs, build \in Builds, source \in Vendor :
               ConvertVendor(mode, source, dest, build)
    BY <1>1
  <2> QED BY <2>1, VendorKept, StartRecovers DEF ConvertVendor
<1>2. CASE \E mode \in Modes, dest \in Outputs, build \in Builds :
             \E path \in Outputs : ConvertAgain(mode, path, dest, build)
  <2>1. PICK mode \in Modes, dest \in Outputs, build \in Builds, path \in Outputs :
               ConvertAgain(mode, path, dest, build)
    BY <1>2
  <2>2. Is(path, "whole") /\ Start(mode, files[path], path, dest, build)
    BY <2>1 DEF ConvertAgain, Readable
  <2>3. Kept(files[path])
    BY <2>2 DEF Is, RecoveryInv, FilesKept, FileKept
  <2> QED BY <2>2, <2>3, StartRecovers
<1>3. CASE VersionConflict \/ RefusedOutput \/ DeriveFails \/ Killed
  BY <1>3, EndRecovers DEF VersionConflict, RefusedOutput, DeriveFails, Killed, OfferPass, Fails
<1>4. CASE AlreadyApplied \/ NotReady \/ Collision
  <2>1. run.stage = "pass" /\ files' = files
        /\ run' = [run EXCEPT !.view = run.view, !.next = @ + 1]
    BY <1>4 DEF AlreadyApplied, NotReady, Collision, OfferPass, NextPass
  <2>2. Kept(run.view) BY <2>1, Running
  <2> QED BY <2>1, <2>2, PassRecovers
<1>5. CASE \E silent \in SUBSET Range(Pass.outputs) : ApplyPass(silent)
  BY <1>5, ApplyRecovers
<1>6. CASE AllOffered
  <2>1. /\ run.stage = "pass" /\ files' = files
        /\ run' = [run EXCEPT !.stage = "create"]
    BY <1>6 DEF AllOffered
  <2>2. PathsKnown' /\ FilesKept' BY <2>1 DEF RecoveryInv, PathsKnown, FilesKept
  <2> QED BY <2>1, <2>2, StageRecovers
<1>7. CASE CreateFile
  <2>1. /\ run.stage = "create" /\ run' = [run EXCEPT !.stage = "write"]
        /\ files' = [files EXCEPT ![run.target] = Torn]
    BY <1>7 DEF CreateFile
  <2>2. PathsKnown' /\ FilesKept' BY <2>1, NotWholeKept, FileRecovers
  <2> QED BY <2>1, <2>2, StageRecovers
<1>8. CASE WriteFile BY <1>8, WriteRecovers
<1>9. CASE RenameFile BY <1>9, RenameRecovers
<1>10. CASE UNCHANGED vars
  <2>1. files' = files /\ run' = run BY <1>10 DEF vars
  <2>2. PathsKnown' /\ FilesKept' BY <2>1 DEF RecoveryInv, PathsKnown, FilesKept
  <2>3. RunTyped' BY <2>1 DEF RecoveryInv, RunTyped, Underway
  <2>4. ViewKept' BY <2>1 DEF RecoveryInv, ViewKept
  <2> QED BY <2>2, <2>3, <2>4 DEF RecoveryInv
<1> QED
  BY <1>1, <1>2, <1>3, <1>4, <1>5, <1>6, <1>7, <1>8, <1>9, <1>10 DEF Next

LEMMA RecoveryInvariant == Spec => []RecoveryInv
<1>1. Init => RecoveryInv BY RecoveryInit
<1>2. RecoveryInv /\ [Next]_vars => RecoveryInv' BY RecoveryNext
<1> QED BY <1>1, <1>2, PTL DEF Spec

(* A whole file is kept, and as a file holds its channels.                 *)
LEMMA WholeKept ==
    ASSUME RecoveryInv, NEW file \in Wholes
    PROVE  Kept(file) /\ file.channels \in Seq(InFile)
BY DEF Wholes, Is, RecoveryInv, PathsKnown, FilesKept, FileKept

(* For every set of recordings, registry of passes and sequence of         *)
(* conversions by whatever builds: what the provenance of a file says is   *)
(* what was done to it (apply_pass and push_pass).                         *)
THEOREM ProvenanceHolds == Spec => []ProvenanceIsTrue
<1>1. RecoveryInv => ProvenanceIsTrue
  <2> SUFFICES ASSUME RecoveryInv, NEW file \in Wholes
               PROVE  OncePerPass(file.passes)
                      /\ \A c \in Range(file.channels) : Credited(c, file.passes)
    BY DEF ProvenanceIsTrue, OncePerPass, Credited
  <2> QED BY WholeKept DEF Kept, Provenance
<1> QED BY <1>1, RecoveryInvariant, PTL

(* And for all of them: a strip gives back the channels of the recording   *)
(* the file was converted from, whatever was done to it in between.        *)
THEOREM StripRecovers == Spec => []StripRecoversRaw
<1>1. RecoveryInv => StripRecoversRaw
  <2> SUFFICES ASSUME RecoveryInv, NEW file \in Wholes
               PROVE  Stripped(file).channels
                      = Written(Recording(file.origin, <<>>, file.origin)).channels
    BY DEF StripRecoversRaw
  <2>1. Kept(file) /\ file.channels \in Seq(InFile) BY WholeKept
  <2>2. PICK left : left = Only(file.channels, Unnamed(OutputsOf(file.passes))) OBVIOUS
  <2>3. Stripped(file).channels = left BY <2>1, <2>2, StrippedIs DEF Kept
  <2>4. left \in Seq(InFile)
    <3>1. left \in Seq(InFile \cap Unnamed(OutputsOf(file.passes)))
      BY <2>1, <2>2, OnlyTyped
    <3>2. InFile \cap Unnamed(OutputsOf(file.passes)) \subseteq InFile OBVIOUS
    <3> QED BY <3>1, <3>2, SeqMonotonic
  <2>5. left = Heard(left) BY <2>4, HeardInFile
  <2>6. Heard(left) = Heard(file.origin) BY <2>1, <2>2 DEF Kept, Recoverable
  <2>7. Written(Recording(file.origin, <<>>, file.origin)).channels = Heard(file.origin)
    <3>1. file.origin \in VendorFiles BY <2>1 DEF Kept, Typed
    <3>2. PICK r : r = Recording(file.origin, <<>>, file.origin) OBVIOUS
    <3>3. r \in Vendor /\ r.channels = file.origin BY <3>1, <3>2 DEF Vendor, Recording
    <3>4. Typed(r) BY <3>3, VendorKept DEF Kept
    <3> QED BY <3>2, <3>3, <3>4, WrittenIs
  <2> QED BY <2>3, <2>5, <2>6, <2>7
<1> QED BY <1>1, RecoveryInvariant, PTL

=============================================================================
