----------------------------- MODULE VideoLinks -----------------------------
(***************************************************************************)
(* Finding the recording of a video, and the videos of a recording.        *)
(*                                                                         *)
(* A video is looked up among the VBO files beside it, by the name their   *)
(* header declares, or among catalogs of converted recordings; a           *)
(* recording's videos are looked up beside it by their declared names.     *)
(* Whatever is doubtful is refused: an escape from the root, a second file *)
(* of the same name, a second recording that is not a copy of the first.   *)
(*                                                                         *)
(* A directory is the sequence of names that leads to it.  A name is a     *)
(* stem, the four digits after it as a number (0: there are none) and an   *)
(* extension in small or capital letters.  An entry of a directory leads   *)
(* to a canonical file or directory, itself or another one.                *)
(***************************************************************************)
EXTENDS Naturals, Sequences, FiniteSets, SequencesExt

CONSTANTS
    Collections,        \* file trees: a set of entries each
    Roots,              \* root_path arguments, NoRoot for none
    ContentOf(_),       \* what is in a canonical file
    Before(_, _),       \* the lexical order of canonical paths
    MaxEntries,         \* neighbours a call may look at
    MaxDuplicate,       \* bytes of one file that may be compared
    MaxDuplicateTotal   \* and of all of them

VARIABLES
    entries,    \* the file tree
    rootPath,   \* the root every call is given
    video,      \* the entry a recording is looked up for
    link,       \* the answer of find_video_recording
    catalogs,   \* the catalogs of the recordings around
    match,      \* the answer of find_video_recording_in_catalogs
    resolved    \* the answer of resolve_linked_videos for the recording found

vars == <<entries, rootPath, video, link, catalogs, match, resolved>>

NotAsked == [state |-> "not asked"]
Nothing == [state |-> "nothing"]
Refused == [state |-> "refused"]
Found(file, index) == [state |-> "found", file |-> file, index |-> index]
Anywhere == <<"no root">>

-----------------------------------------------------------------------------
(* Directories and names.                                                   *)

Within(file, boundary) == boundary = Anywhere \/ IsPrefix(boundary, file.dir)

EntriesOf(dir) == {e \in entries : e.dir = dir}

Files(dirs) == {e \in entries : e.dir \in dirs /\ e.kind = "file"}

SameName(name, declared) ==
    /\ name.stem = declared.stem
    /\ name.digits = declared.digits
    /\ name.ext = declared.ext      \* its capitals do not count

TooMany(dirs) == Cardinality({e \in entries : e.dir \in dirs}) > MaxEntries

-----------------------------------------------------------------------------
(* find_video_recording.                                                    *)

\* The video's directory, and those directly in it that stay in the boundary.
Neighbourhood(dir, boundary) ==
    {dir} \union {e.to.dir : e \in {d \in EntriesOf(dir) :
                                       d.kind = "dir" /\ IsPrefix(boundary, d.to.dir)}}

\* The index a recording's header gives a video's canonical name, 0 if none.
NativeIndex(name, declared) ==
    IF name.ext = declared.ext /\ name.stem = declared.prefix THEN name.digits ELSE 0

\* Copies are compared by size and hash, within a budget.
Budgeted(files) ==
    /\ \A f \in files : ContentOf(f).size <= MaxDuplicate
    /\ FoldSet(LAMBDA f, sum : ContentOf(f).size + sum, 0, files) <= MaxDuplicateTotal

Copies(files) == Cardinality({ContentOf(f) : f \in files}) = 1

First(files) == CHOOSE f \in files : \A g \in files : g = f \/ Before(f, g)

Boundary == IF rootPath = Anywhere THEN video.to.dir ELSE rootPath

Around == Neighbourhood(video.to.dir, Boundary)

FindRecording ==
    LET file == video.to
        vbos == {e.to : e \in {f \in Files(Around) : f.name.ext = "vbo"}}
        declared(vbo) == ContentOf(vbo).declares
        candidates == {vbo \in vbos : declared(vbo) # Nothing
                                      /\ NativeIndex(file.name, declared(vbo)) > 0}
    IN  IF \/ ~Within(file, rootPath)
           \/ TooMany(Around)
           \/ \E vbo \in vbos : ~Within(vbo, Boundary) \/ ContentOf(vbo).damaged
        THEN Refused
        ELSE IF candidates = {} THEN Nothing
        ELSE IF Cardinality(candidates) > 1 /\ ~(Budgeted(candidates) /\ Copies(candidates))
        THEN Refused
        ELSE LET vbo == First(candidates)
             IN  Found(vbo, NativeIndex(file.name, declared(vbo)))

-----------------------------------------------------------------------------
(* find_video_recording_in_catalogs.                                        *)

\* What a converted recording says of its videos: a reference to every roll
\* its rows use, named as the header declares.
Videos(vbo) ==
    LET content == ContentOf(vbo)
    IN  IF content.declares = Nothing THEN << >>
        ELSE [i \in DOMAIN content.rolls |->
                 [index |-> content.rolls[i],
                  name |-> [stem |-> content.declares.prefix,
                            digits |-> content.rolls[i],
                            ext |-> content.declares.ext]]]

GoodIndices(videos) ==
    /\ \A i \in DOMAIN videos : videos[i].index > 0
    /\ \A i, j \in DOMAIN videos : videos[i].index = videos[j].index => i = j

\* Objects are the same file, the same bytes, or the same content but for
\* the path they were converted from.
SameObjects(objects) ==
    \/ Cardinality(objects) = 1
    \/ /\ \A o \in objects : o.size <= MaxDuplicate
       /\ FoldSet(LAMBDA o, sum : o.size + sum, 0, objects) <= MaxDuplicateTotal
       /\ Cardinality({o.content : o \in objects}) = 1

FirstInOrder(candidates) ==
    LET recordings == {candidates[i].recording : i \in DOMAIN candidates}
    IN  candidates[CHOOSE i \in DOMAIN candidates :
                       candidates[i].recording = First(recordings)]

FindInCatalogs ==
    LET file == video.to
        Refers(c) == \E i \in DOMAIN c.videos : SameName(file.name, c.videos[i].name)
        candidates == SelectSeq(catalogs, Refers)
        indexOf(c) == c.videos[CHOOSE i \in DOMAIN c.videos :
                                   SameName(file.name, c.videos[i].name)].index
        references == FoldLeft(LAMBDA sum, c : sum + Len(c.videos), 0, catalogs)
    IN  IF \/ ~Within(file, rootPath)
           \/ Len(catalogs) > MaxEntries \/ references > MaxEntries
           \/ \E i \in DOMAIN catalogs :
                \/ ~Within(catalogs[i].recording, rootPath)
                \/ catalogs[i].object.size = 0
                \/ ~GoodIndices(catalogs[i].videos)
        THEN Refused
        ELSE IF candidates = << >> THEN Nothing
        ELSE LET chosen == FirstInOrder(candidates)
             IN  IF \/ \E i \in DOMAIN candidates : indexOf(candidates[i]) # indexOf(chosen)
                    \/ ~SameObjects({candidates[i].object : i \in DOMAIN candidates})
                 THEN Refused
                 ELSE Found(chosen.recording, indexOf(chosen))

-----------------------------------------------------------------------------
(* resolve_linked_videos.                                                   *)

\* Wrong: one of several files is as good as another.
SomeFile(files) == files # {}

OneFile(files) == Cardinality(files) = 1

\* The recording's directory and its parent are searched for every declared
\* name; the answer is a file for each, or a refusal for all.
ResolveVideos(recording) ==
    LET folder == recording.dir
        above == IF folder = << >> THEN {}
                 ELSE {d \in {Front(folder)} : rootPath = Anywhere \/ IsPrefix(rootPath, d)}
        dirs == {folder} \union above
        boundary == IF rootPath # Anywhere THEN rootPath
                    ELSE IF above = {} THEN folder ELSE Front(folder)
        videos == Videos(recording)
        named(v) == {e \in Files(dirs) : SameName(e.name, v.name)}
        matching(v) == {e.to : e \in named(v)}
    IN  IF \/ ~Within(recording, rootPath)
           \/ ~GoodIndices(videos)
           \/ videos # << >> /\ TooMany(dirs)
           \/ \E i \in DOMAIN videos :
                \/ \E e \in named(videos[i]) : ~Within(e.to, boundary)
                \/ ~OneFile(matching(videos[i]))
        THEN Refused
        ELSE [state |-> "resolved",
              files |-> [i \in DOMAIN videos |->
                            [index |-> videos[i].index,
                             file |-> CHOOSE f \in matching(videos[i]) : TRUE]]]

-----------------------------------------------------------------------------

Find ==
    /\ link = NotAsked
    /\ link' = FindRecording
    /\ UNCHANGED <<entries, rootPath, video, catalogs, match, resolved>>

\* The recordings that were searched have been converted, one after another in
\* some order; copies may share one object or have their own, which differs
\* in the path it was converted from.
Catalogue(shared) ==
    /\ link.state = "found" /\ catalogs = << >>
    /\ LET vbos == {e.to : e \in {f \in Files(Around) : f.name.ext = "vbo"}}
           catalog(vbo) ==
               [recording |-> vbo, videos |-> Videos(vbo),
                object |-> [content |-> <<ContentOf(vbo).declares, ContentOf(vbo).rolls>>,
                            size |-> ContentOf(vbo).size,
                            path |-> IF shared THEN ContentOf(vbo) ELSE vbo]]
       IN  \E order \in SetToSeqs(vbos) :
               catalogs' = [i \in DOMAIN order |-> catalog(order[i])]
    /\ UNCHANGED <<entries, rootPath, video, link, match, resolved>>

FindByCatalogs ==
    /\ catalogs # << >> /\ match = NotAsked
    /\ match' = FindInCatalogs
    /\ UNCHANGED <<entries, rootPath, video, link, catalogs, resolved>>

Resolve ==
    /\ link.state = "found" /\ resolved = NotAsked
    /\ resolved' = ResolveVideos(link.file)
    /\ UNCHANGED <<entries, rootPath, video, link, catalogs, match>>

Init ==
    /\ entries \in Collections
    /\ rootPath \in Roots
    /\ video \in {e \in entries : e.kind = "file" /\ e.name.ext # "vbo"}
    /\ link = NotAsked /\ catalogs = << >> /\ match = NotAsked /\ resolved = NotAsked

Next ==
    Find \/ FindByCatalogs \/ Resolve \/ \E shared \in BOOLEAN : Catalogue(shared)

-----------------------------------------------------------------------------
(* Properties.                                                              *)

\* A recording found for a video in its own directory or directly below, when
\* asked for its videos, gives that very file for the index it was found
\* under, or refuses; it never gives another file of the same name.  And the
\* catalogs of the converted recordings, in whatever order they are given and
\* however they are cached, never lead to another recording or index than the
\* headers of the originals did.
LinksAgree ==
    LET near == \/ link.file.dir = video.to.dir
                \/ link.file.dir # << >> /\ Front(link.file.dir) = video.to.dir
    IN  link.state = "found" =>
          /\ resolved.state = "resolved" /\ near =>
               \A i \in DOMAIN resolved.files :
                   resolved.files[i].index = link.index => resolved.files[i].file = video.to
          /\ match.state = "found" => match.file = link.file /\ match.index = link.index

=============================================================================
