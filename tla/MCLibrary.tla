------------------------------ MODULE MCLibrary ------------------------------
(***************************************************************************)
(* A collection of recordings: a recording under TRACK.yml documents, or   *)
(* videos and recordings that are looked up for each other.                *)
(***************************************************************************)
EXTENDS Naturals, Sequences, FiniteSetsExt

VARIABLES part, disk, settings, asked, first, second, third, kept

-----------------------------------------------------------------------------
(* Recordings and documents: a root, a directory in it and one elsewhere.  *)

Null == [kind |-> "null"]
Text(t) == [kind |-> "text", text |-> t]
Map(m) == [kind |-> "map", fields |-> m]
Blank == Text("")
NoDocument == [state |-> "absent"]
NoRoot == <<"no root">>

Top == <<"col">>
Leaf == <<"col", "fp1">>
Away == <<"away">>

Says(defaults) == [state |-> "document", target |-> Top, parses |-> TRUE,
                   defaults |-> defaults, rules |-> << >>]
Ruled(document, globs, metadata) ==
    [document EXCEPT !.rules = Append(@, [match |-> globs, metadata |-> metadata, plain |-> TRUE])]

Anything == [below |-> << >>, deep |-> TRUE, ext |-> "any", anchored |-> TRUE]
HereMp4 == [Anything EXCEPT !.deep = FALSE, !.ext = "mp4"]
InFp1 == [Anything EXCEPT !.below = <<"fp1">>]
Upwards == [Anything EXCEPT !.anchored = FALSE]

NamesCar == [car |-> Map([name |-> Text("v1")])]
NamesEvent == [event |-> Text("e1")]
MasksCar == [car |-> Null]
HidesBoth == [car |-> Map([name |-> Null]), event |-> Null]
NumbersCar == [car |-> Map([number |-> Text("11")]), event |-> Text("e2")]
SaysBlank == [car |-> Map([name |-> Blank]), event |-> Blank]

Statements == {<< >>, NamesCar, NamesEvent, MasksCar, HidesBoth, NumbersCar, SaysBlank}

Broken == {[Says(NamesEvent) EXCEPT !.parses = FALSE],
           Says([car |-> Text("v1")]),
           [Says(NamesEvent) EXCEPT !.target = Away],
           Ruled(Says(NamesEvent), {Anything, Upwards}, NamesCar)}

TopDocuments ==
    {NoDocument} \union {Says(m) : m \in Statements} \union Broken
    \union {Ruled(Says(NamesCar), {InFp1}, m) : m \in Statements}
    \union {Ruled(Ruled(Says(NamesEvent), {Anything}, MasksCar), {HereMp4, InFp1}, m) : m \in Statements}

LeafDocuments ==
    {NoDocument, Ruled(Says(NamesCar), {HereMp4}, MasksCar)}
    \union {[Says(m) EXCEPT !.target = Leaf] : m \in Statements}
    \union {[Says(NamesCar) EXCEPT !.target = Away], Says(NamesEvent)}

Trees == {[dir \in {Top, Leaf, Away} |->
                IF dir = Top THEN top ELSE IF dir = Leaf THEN leaf ELSE NoDocument] :
            top \in TopDocuments, leaf \in LeafDocuments}

Recordings ==
    {[at |-> at, ext |-> "mp4", native |-> [vehicle |-> "v0", event |-> ""], embedded |-> << >>] :
        at \in {Top, Leaf}}
    \union {[at |-> Leaf, ext |-> "jsonl", native |-> [vehicle |-> "v0", event |-> "e0"], embedded |-> m] :
        m \in {NamesCar, NumbersCar, HidesBoth}}

OptionSets == {[root |-> root, ignore |-> FALSE] : root \in {NoRoot, Top, Away}}
                \union {[root |-> Away, ignore |-> TRUE], [root |-> Top, ignore |-> TRUE]}


Metadata == INSTANCE DirectoryMetadata WITH
              Destinations <- {Leaf, Away}, MaxConversions <- 2,
              tree <- disk, options <- settings, recording <- asked,
              opened <- first, summary <- second, baked <- kept

-----------------------------------------------------------------------------
(* Videos and VBO files: a directory between its parent and a child, and   *)
(* one elsewhere.                                                          *)

Parent == << >>
Dir == <<"d">>
Child == <<"d", "t">>
Other == <<"e">>

Video(digits, upper) == [stem |-> "v", digits |-> digits, ext |-> "mp4", upper |-> upper]
Vbo(stem) == [stem |-> stem, digits |-> 0, ext |-> "vbo", upper |-> FALSE]

Entry(dir, name, to) == [dir |-> dir, name |-> name, kind |-> "file", to |-> to]
Own(dir, name) == Entry(dir, name, [dir |-> dir, name |-> name])
Leads(dir, to) == [dir |-> dir, name |-> Vbo("dir"), kind |-> "dir", to |-> [dir |-> to, name |-> Vbo("")]]

\* a and b are copies; c has another roll, x is damaged, n declares nothing,
\* and g, with its copy in another directory, is too long to be compared.
Contents(stem) ==
    [declares |-> IF stem \in {"n", "v"} THEN [state |-> "nothing"] ELSE [prefix |-> "v", ext |-> "mp4"],
     rolls |-> IF stem \in {"c", "x"} THEN <<2>> ELSE <<1, 2>>,
     size |-> IF stem = "g" THEN 9 ELSE 3,
     damaged |-> stem = "x"]

FileContent(file) == Contents(IF file.name.stem = "b" THEN "a" ELSE file.name.stem)

Rank(file) ==
    (CASE file.dir = Parent -> 0 [] file.dir = Dir -> 10 [] file.dir = Child -> 20 [] OTHER -> 30)
      + (CASE file.name.stem = "a" -> 1 [] file.name.stem = "b" -> 2 [] file.name.stem = "c" -> 3 [] OTHER -> 4)

Earlier(f, g) == Rank(f) < Rank(g)

Pool ==
    {Own(dir, Video(1, FALSE)) : dir \in {Parent, Child, Other}}
      \cup {Own(Dir, Video(1, TRUE)), Own(Dir, Video(2, FALSE)),
            Entry(Dir, Video(2, TRUE), [dir |-> Other, name |-> Video(1, FALSE)]),
            Entry(Dir, Video(3, FALSE), [dir |-> Dir, name |-> Video(1, FALSE)])}
      \cup {Own(dir, Vbo("a")) : dir \in {Dir, Child, Other}}
      \cup {Own(dir, Vbo("g")) : dir \in {Dir, Child}}
      \cup {Own(Child, Vbo(stem)) : stem \in {"b", "c", "n", "x"}}
      \cup {Entry(Dir, Vbo("c"), [dir |-> Other, name |-> Vbo("a")]), Leads(Dir, Other)}

Collections ==
    {{Own(Dir, Video(1, FALSE)), Leads(Dir, Child)} \cup some :
        some \in UNION {kSubset(k, Pool) : k \in 0..4}}

Links == INSTANCE VideoLinks WITH
           Roots <- {NoRoot, Parent, Dir}, ContentOf <- FileContent, Before <- Earlier,
           MaxEntries <- 5, MaxDuplicate <- 5, MaxDuplicateTotal <- 6,
           entries <- disk, rootPath <- settings, video <- asked,
           link <- first, match <- second, resolved <- third, catalogs <- kept

-----------------------------------------------------------------------------

Init == \/ part = "metadata" /\ third = << >> /\ Metadata!Init
        \/ part = "videos" /\ Links!Init

Next == /\ UNCHANGED part
        /\ \/ part = "metadata" /\ Metadata!Next /\ UNCHANGED third
           \/ part = "videos" /\ Links!Next

-----------------------------------------------------------------------------
(* Properties                                                              *)

\* The nearest document that names or masks something has the last word
\* (DirectoryMetadata, Open and ReadMetadata).
NearestWins == part = "metadata" => Metadata!NearestWins

\* Names and masks survive conversions (DirectoryMetadata, Convert).
ConversionKeepsNames == part = "metadata" => Metadata!ConversionKeepsNames

\* A recording found for a video never claims another file for it, and
\* catalogs in any order lead to the recording the headers led to (VideoLinks,
\* Find, Resolve and FindByCatalogs).
LinksAgree == part = "videos" => Links!LinksAgree

=============================================================================
