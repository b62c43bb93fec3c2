-------------------------- MODULE DirectoryMetadata --------------------------
(***************************************************************************)
(* TRACK.yml: descriptive metadata beside recordings.                      *)
(*                                                                         *)
(* Opening a recording, or reading its summary, loads the documents of the *)
(* directories from a root down to the recording, and lays their defaults  *)
(* and matching overrides over what the recording embeds.  The effective   *)
(* names are projected from the result; a converted recording embeds it.   *)
(*                                                                         *)
(* A directory is the sequence of names that leads to it; a recording is   *)
(* where its canonical path is.  A metadata value is null, a text, or a    *)
(* mapping; two fields stand for all: car.name, which is nested, and       *)
(* event, which is not.                                                    *)
(***************************************************************************)
EXTENDS Naturals, Sequences, FiniteSets, SequencesExt

CONSTANTS
    Trees,          \* functions from directories to a document or NoDocument
    Recordings,     \* recordings that may be opened
    OptionSets,     \* open options
    Destinations,   \* directories a conversion may be written to
    MaxConversions  \* bound on conversions in a row

VARIABLES
    tree,       \* the TRACK.yml of every directory
    recording,  \* the recording on disk
    options,    \* root_path and ignore_track_yml
    opened,     \* metadata of the opened file, Closed, or Failed
    summary,    \* what read_metadata returned, Closed, or Failed
    baked       \* what each conversion was made of, and the layers over it

vars == <<tree, recording, options, opened, summary, baked>>

Closed == [state |-> "closed"]
Failed == [state |-> "failed"]
NoDocument == [state |-> "absent"]
NoRoot == <<"no root">>

-----------------------------------------------------------------------------
(* Metadata values and their merge.                                         *)

Null == [kind |-> "null"]
Text(t) == [kind |-> "text", text |-> t]
Map(m) == [kind |-> "map", fields |-> m]
NoValue == [kind |-> "none"]
Blank == Text("")

Value(m, key) == IF key \in DOMAIN m THEN m[key] ELSE NoValue
Fields(v) == IF v.kind = "map" THEN v.fields ELSE << >>

\* A mapping merges into a mapping and replaces anything else; blank texts
\* are ignored; null and texts replace.
RECURSIVE Merge(_, _)
Merge(base, overlay) ==
    LET given == {key \in DOMAIN overlay : overlay[key] # Blank}
    IN  [key \in DOMAIN base \union given |->
            IF key \notin given THEN base[key]
            ELSE IF overlay[key].kind = "map"
            THEN Map(Merge(Fields(Value(base, key)), overlay[key].fields))
            ELSE overlay[key]]

\* The value at outer.inner; a null mapping masks what would be in it.
Field(m, outer, inner) ==
    LET v == Value(m, outer)
    IN  IF v.kind = "map" THEN Value(v.fields, inner)
        ELSE IF v = Null THEN Null
        ELSE NoValue

ApplyText(target, v) ==
    CASE v = Null -> ""
      [] v.kind = "text" /\ v # Blank -> v.text
      [] OTHER -> target

\* The effective names, always rebuilt from the recorded ones.
Projected(meta) ==
    [meta EXCEPT !.identity =
        [vehicle |-> ApplyText(meta.source.vehicle, Field(meta.extra, "car", "name")),
         event   |-> ApplyText(meta.source.event, Value(meta.extra, "event"))]]

-----------------------------------------------------------------------------
(* Documents.                                                               *)

TextOrNull(v) == v.kind \in {"text", "null", "none"}

Valid(m) ==
    /\ TextOrNull(Value(m, "event"))
    /\ Value(m, "car").kind \in {"map", "null", "none"}
    /\ TextOrNull(Value(Fields(Value(m, "car")), "name"))

\* A glob anchored at the document's directory: the directories it names,
\* whether it goes deeper, and the extension it asks for.
Matches(glob, below, ext) ==
    /\ IF glob.deep THEN IsPrefix(glob.below, below) ELSE below = glob.below
    /\ glob.ext \in {ext, "any"}

\* A document can be used when it was read from inside the root, parsed, and
\* every rule in it is well formed, whether or not it matches.
Usable(document, root) ==
    /\ IsPrefix(root, document.target)
    /\ document.parses
    /\ Valid(document.defaults)
    /\ \A i \in DOMAIN document.rules :
        /\ document.rules[i].plain
        /\ Valid(document.rules[i].metadata)
        /\ \A glob \in document.rules[i].match : glob.anchored

\* Defaults first, then the rules that match, in list order.
DocumentLayers(document, below, ext) ==
    LET Applies(rule) == \E glob \in rule.match : Matches(glob, below, ext)
        matching == SelectSeq(document.rules, Applies)
    IN  <<document.defaults>> \o [i \in DOMAIN matching |-> matching[i].metadata]

\* The directories from the root to the recording, nearest last.
\* Wrong: nearest first.
NearestFirst(at, root) ==
    [i \in 1..(Len(at) - Len(root) + 1) |-> SubSeq(at, 1, Len(at) - i + 1)]

Ancestors(at, root) ==
    [i \in 1..(Len(at) - Len(root) + 1) |-> SubSeq(at, 1, Len(root) + i - 1)]

Documented(at, root) ==
    SelectSeq(Ancestors(at, root), LAMBDA dir : tree[dir] # NoDocument)

RootOf(at) == IF options.root = NoRoot THEN at ELSE options.root

\* An explicit root is checked even when documents are ignored.
LoadFails ==
    LET root == RootOf(recording.at)
        dirs == Documented(recording.at, root)
    IN  \/ ~IsPrefix(root, recording.at)
        \/ ~options.ignore /\ \E i \in DOMAIN dirs : ~Usable(tree[dirs[i]], root)

Layers ==
    LET Of(dir) == DocumentLayers(tree[dir],
                        SubSeq(recording.at, Len(dir) + 1, Len(recording.at)),
                        recording.ext)
        dirs == Documented(recording.at, RootOf(recording.at))
    IN  IF options.ignore THEN << >>
        ELSE FlattenSeq([i \in DOMAIN dirs |-> Of(dirs[i])])

-----------------------------------------------------------------------------
(* The facade.                                                              *)

\* What the format's reader says of the recording, documents apart.
Native ==
    Projected([source |-> recording.native, identity |-> recording.native,
               extra |-> recording.embedded])

Overlaid(meta, layers) ==
    Projected([meta EXCEPT !.extra = FoldLeft(Merge, @, layers)])

AllEmpty(layers) == \A i \in DOMAIN layers : DOMAIN layers[i] = {}

\* open_with_options: a view over the reader's source, unless there is
\* nothing to lay over it.
Open ==
    /\ opened = Closed
    /\ opened' = IF LoadFails THEN Failed
                 ELSE IF AllEmpty(Layers) THEN Native
                 ELSE Overlaid(Native, Layers)
    /\ UNCHANGED <<tree, recording, options, summary, baked>>

\* read_metadata_with_options: the summary alone, from the header if the
\* recording is a document.
ReadMetadata ==
    /\ summary = Closed
    /\ summary' = IF LoadFails THEN Failed ELSE Overlaid(Native, Layers)
    /\ UNCHANGED <<tree, recording, options, opened, baked>>

\* Wrong: a mask is not worth writing.
WithoutNulls(extra) ==
    [key \in {k \in DOMAIN extra : extra[k] # Null} |-> extra[key]]

\* The header embeds the effective metadata and the recorded names.
Embedded(extra) == extra

\* The opened file is written as a document and takes the place of the
\* recording, wherever it was written.
Convert(dir) ==
    /\ opened \notin {Closed, Failed}
    /\ Len(baked) < MaxConversions
    /\ recording' = [recording EXCEPT !.at = dir, !.ext = "jsonl",
                                      !.embedded = Embedded(opened.extra),
                                      !.native = opened.source]
    /\ baked' = Append(baked, [meta |-> opened, layers |-> Layers])
    /\ opened' = Closed
    /\ summary' = Closed
    /\ UNCHANGED <<tree, options>>

Init ==
    /\ tree \in Trees
    /\ recording \in Recordings
    /\ options \in OptionSets
    /\ opened = Closed
    /\ summary = Closed
    /\ baked = << >>

Next == Open \/ ReadMetadata \/ \E dir \in Destinations : Convert(dir)

Spec == Init /\ [][Next]_vars

-----------------------------------------------------------------------------
(* Properties.                                                              *)

\* What a name is when the embedded metadata and the layers, farthest first,
\* are asked in turn, each naming it (Name), masking it alone (Hide) or
\* masking the mapping it is in (Mask): the last word counts, except that a
\* mapping given after a mask opens the mapping again, without what was in it.
LastWord(recorded, words) ==
    LET spoken == {i \in DOMAIN words : words[i].kind \in {"name", "hide", "mask"}}
        last == CHOOSE i \in spoken : \A j \in spoken : j <= i
    IN  IF spoken = {} THEN recorded
        ELSE CASE words[last].kind = "name" -> words[last].text
               [] words[last].kind = "hide" -> ""
               [] words[last].kind = "mask" ->
                    IF \E j \in DOMAIN words : j > last /\ words[j].kind = "open"
                    THEN recorded ELSE ""

Spoken(v) ==
    CASE v = Null -> [kind |-> "hide"]
      [] v.kind = "text" /\ v # Blank -> [kind |-> "name", text |-> v.text]
      [] OTHER -> [kind |-> "silent"]

VehicleWord(m) ==
    LET car == Value(m, "car")
        name == Spoken(Value(Fields(car), "name"))
    IN  IF car = Null THEN [kind |-> "mask"]
        ELSE IF car.kind = "map" /\ name.kind = "silent" THEN [kind |-> "open"]
        ELSE name

EventWord(m) == Spoken(Value(m, "event"))

\* The names an opened file or a summary shows are those of the nearest
\* document that speaks of them, whatever farther documents, rules and the
\* recording's own metadata say, and what was masked on the way does not come
\* back.  A file and its summary fail together.
NearestWins ==
    LET at == recording.at
        ByDistance(n) ==
            LET dir == SubSeq(at, 1, n)
            IN  IF options.ignore \/ n < Len(RootOf(at)) \/ tree[dir] = NoDocument THEN << >>
                ELSE DocumentLayers(tree[dir], SubSeq(at, n + 1, Len(at)), recording.ext)
        said == <<recording.embedded>> \o FlattenSeq([n \in DOMAIN at |-> ByDistance(n)])
        Words(Of(_)) == [i \in DOMAIN said |-> Of(said[i])]
    IN  \A meta \in {opened, summary} \ {Closed} :
            \/ meta = Failed /\ LoadFails
            \/ /\ meta # Failed /\ ~LoadFails
               /\ meta.identity.vehicle = LastWord(recording.native.vehicle, Words(VehicleWord))
               /\ meta.identity.event = LastWord(recording.native.event, Words(EventWord))

\* A converted recording opened under the layers the original was opened
\* under, or under none, shows the names and metadata the original showed: a
\* conversion neither loses an override nor applies one twice, and masks
\* survive it.
ConversionKeepsNames ==
    baked # << >> /\ opened \notin {Closed, Failed}
    /\ (AllEmpty(Layers) \/ Layers = Last(baked).layers)
        => opened = Last(baked).meta
=============================================================================
