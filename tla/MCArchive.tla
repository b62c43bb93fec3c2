------------------------------ MODULE MCArchive ------------------------------
(***************************************************************************)
(* What is kept beside each other: exports and documents, which are read   *)
(* again by themselves (MCDocuments), and collections of recordings under  *)
(* TRACK.yml documents and beside videos (MCLibrary).                      *)
(***************************************************************************)
EXTENDS MCDocuments

VARIABLES third, kept  \* what a look-up in a collection needs besides

archiveVars == <<vars, third, kept>>

Library == INSTANCE MCLibrary WITH
             part <- container, disk <- file, settings <- writer, asked <- recording,
             first <- phase, second <- out

ArchiveInit == \/ Init /\ third = << >> /\ kept = << >>
               \/ Library!Init

ArchiveNext == \/ Next /\ UNCHANGED <<third, kept>>
               \/ Library!Next

ArchiveSpec == ArchiveInit /\ [][ArchiveNext]_archiveVars

-----------------------------------------------------------------------------
(* Properties                                                              *)

\* The nearest document that names or masks something has the last word
\* (DirectoryMetadata, Open and ReadMetadata).
NearestWins == Library!NearestWins

\* Names and masks survive conversions (DirectoryMetadata, Convert).
ConversionKeepsNames == Library!ConversionKeepsNames

\* A recording found for a video never claims another file for it, and
\* catalogs in any order lead to the recording the headers led to (VideoLinks,
\* Find, Resolve and FindByCatalogs).
LinksAgree == Library!LinksAgree

=============================================================================
