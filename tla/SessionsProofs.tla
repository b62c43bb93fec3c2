--------------------------- MODULE SessionsProofs ---------------------------
(***************************************************************************)
(* Proofs about Sessions, whatever the files, their clocks and the gap:    *)
(* every file opened ends up in exactly one session, and no time a file    *)
(* recorded of a lap or of a driver's stint is lost where files join.      *)
(***************************************************************************)
EXTENDS Sessions, ListProofs

(* What is grouped and what waits share nothing and are all there is.      *)
GroupInv ==
    /\ files \in Seq(Recordings)
    /\ waiting \subseteq DOMAIN files
    /\ groups \in Seq(Seq(Nat))
    /\ GroupedOnce

LEMMA InitGroup == Init => GroupInv
<1> SUFFICES ASSUME Init PROVE GroupInv
    OBVIOUS
<1>1. files = <<>> /\ waiting = {} /\ groups = <<>>
    BY DEF Init
<1>2. DOMAIN groups = {} /\ DOMAIN files = {}
    BY <1>1
<1> QED
    BY <1>1, <1>2 DEF GroupInv, GroupedOnce, Range

\* A file read before grouping begins waits to be grouped.
LEMMA ReadGroup ==
    ASSUME GroupInv, NEW recording \in Recordings, ReadFile(recording)
    PROVE  GroupInv'
<1>1. groups = <<>> /\ groups' = groups
    BY DEF ReadFile, Grouping
<1>2. files' = Append(files, recording) /\ files \in Seq(Recordings)
    BY DEF ReadFile, GroupInv
<1>3. files' \in Seq(Recordings) /\ DOMAIN files' = DOMAIN files \cup {Len(files) + 1}
    BY <1>2
<1>4. waiting = DOMAIN files
    <2>1. DOMAIN groups = {}
        BY <1>1
    <2> QED
        BY <2>1 DEF GroupInv, GroupedOnce
<1>5. waiting' = DOMAIN files'
    BY <1>3, <1>4 DEF ReadFile
<1>6. DOMAIN groups' = {}
    BY <1>1
<1>7. GroupedOnce'
    BY <1>5, <1>6 DEF GroupedOnce
<1> QED
    BY <1>1, <1>3, <1>5, <1>7 DEF GroupInv

\* The position a file takes in the last group is new.
LEMMA ContinueGroup ==
    ASSUME GroupInv, NEW i \in waiting, ContinueSession(i)
    PROVE  GroupInv'
<1> DEFINE n == Len(groups)
<1>1. groups \in Seq(Seq(Nat)) /\ groups # <<>> /\ n \in DOMAIN groups
    BY DEF GroupInv, ContinueSession, JoinsPrevious
<1>2. i \in Nat /\ groups[n] \in Seq(Nat)
    BY <1>1 DEF GroupInv
<1>3. groups' = [groups EXCEPT ![n] = Append(groups[n], i)]
    BY <1>1 DEF ContinueSession
<1>4. groups' \in Seq(Seq(Nat)) /\ DOMAIN groups' = DOMAIN groups
    BY <1>1, <1>2, <1>3
<1>5. files' = files /\ waiting' = waiting \ {i}
    BY DEF ContinueSession, Group
<1>6. \A g \in DOMAIN groups : g # n => groups'[g] = groups[g]
    BY <1>1, <1>3
<1>7. groups'[n] = Append(groups[n], i)
    BY <1>1, <1>3
<1>8. /\ DOMAIN groups'[n] = DOMAIN groups[n] \cup {Len(groups[n]) + 1}
      /\ groups'[n][Len(groups[n]) + 1] = i
      /\ \A k \in DOMAIN groups[n] : groups'[n][k] = groups[n][k]
    <2>1. PICK s \in Seq(Nat) : s = groups[n]
        BY <1>2
    <2>2. groups'[n] = Append(s, i)
        BY <1>7, <2>1
    <2> HIDE DEF n
    <2> QED
        BY <1>2, <2>1, <2>2
<1>9. \A g \in DOMAIN groups : \A k \in DOMAIN groups[g] : groups[g][k] # i
    BY DEF GroupInv, GroupedOnce, Range
<1>10. \A g, h \in DOMAIN groups' : \A k \in DOMAIN groups'[g], m \in DOMAIN groups'[h] :
            groups'[g][k] = groups'[h][m] => g = h /\ k = m
    <2> SUFFICES ASSUME NEW g \in DOMAIN groups, NEW h \in DOMAIN groups,
                        NEW k \in DOMAIN groups'[g], NEW m \in DOMAIN groups'[h],
                        groups'[g][k] = groups'[h][m]
                 PROVE  g = h /\ k = m
        BY <1>4
    <2>1. CASE k \in DOMAIN groups[g] /\ m \in DOMAIN groups[h]
        <3>1. groups'[g][k] = groups[g][k]
            BY <2>1, <1>6, <1>8
        <3>2. groups'[h][m] = groups[h][m]
            BY <2>1, <1>6, <1>8
        <3>3. groups[g][k] = groups[h][m]
            BY <3>1, <3>2
        <3>4. \A x, y \in DOMAIN groups : \A a \in DOMAIN groups[x], b \in DOMAIN groups[y] :
                groups[x][a] = groups[y][b] => x = y /\ a = b
            BY Zenon DEF GroupInv, GroupedOnce
        <3> HIDE DEF n
        <3>5. \A a \in DOMAIN groups[g], b \in DOMAIN groups[h] :
                groups[g][a] = groups[h][b] => g = h /\ a = b
            BY <3>4
        <3> QED
            BY <2>1, <3>3, <3>5
    <2>2. CASE k \notin DOMAIN groups[g]
        <3>1. g = n /\ k = Len(groups[n]) + 1 /\ groups'[g][k] = i
            BY <2>2, <1>6, <1>8
        <3>2. m \notin DOMAIN groups[h]
            BY <3>1, <1>6, <1>8, <1>9
        <3> QED
            BY <3>1, <3>2, <1>6, <1>8
    <2>3. CASE m \notin DOMAIN groups[h]
        <3>1. h = n /\ m = Len(groups[n]) + 1 /\ groups'[h][m] = i
            BY <2>3, <1>6, <1>8
        <3>2. k \notin DOMAIN groups[g]
            BY <3>1, <1>6, <1>8, <1>9
        <3> QED
            BY <3>1, <3>2, <1>6, <1>8
    <2> QED
        BY <2>1, <2>2, <2>3
<1>11. UNION {Range(groups'[g]) : g \in DOMAIN groups'}
            = (UNION {Range(groups[g]) : g \in DOMAIN groups}) \cup {i}
    <2>1. Range(groups'[n]) = Range(groups[n]) \cup {i}
        BY <1>8 DEF Range
    <2> QED
        BY <2>1, <1>1, <1>4, <1>6
<1>12. waiting' = DOMAIN files' \ UNION {Range(groups'[g]) : g \in DOMAIN groups'}
    BY <1>5, <1>11 DEF GroupInv, GroupedOnce
<1> QED
    BY <1>4, <1>5, <1>10, <1>12 DEF GroupInv, GroupedOnce

\* A file that joins nothing is the only one of a new group.
LEMMA StartGroup ==
    ASSUME GroupInv, NEW i \in waiting, StartSession(i)
    PROVE  GroupInv'
<1> DEFINE n == Len(groups) + 1
<1>1. groups \in Seq(Seq(Nat)) /\ i \in Nat /\ <<i>> \in Seq(Nat)
    BY DEF GroupInv
<1>2. groups' = Append(groups, <<i>>)
    BY DEF StartSession
<1>3. groups' \in Seq(Seq(Nat)) /\ DOMAIN groups' = DOMAIN groups \cup {n} /\ n \notin DOMAIN groups
    BY <1>1, <1>2
<1>4. files' = files /\ waiting' = waiting \ {i}
    BY DEF StartSession, Group
<1>5. (\A g \in DOMAIN groups : groups'[g] = groups[g]) /\ groups'[n] = <<i>>
    BY <1>1, <1>2
<1>6. DOMAIN groups'[n] = {1} /\ groups'[n][1] = i
    BY <1>5
<1>7. \A g \in DOMAIN groups : \A k \in DOMAIN groups[g] : groups[g][k] # i
    BY DEF GroupInv, GroupedOnce, Range
<1>8. \A g, h \in DOMAIN groups' : \A k \in DOMAIN groups'[g], m \in DOMAIN groups'[h] :
            groups'[g][k] = groups'[h][m] => g = h /\ k = m
    <2> SUFFICES ASSUME NEW g \in DOMAIN groups', NEW h \in DOMAIN groups',
                        NEW k \in DOMAIN groups'[g], NEW m \in DOMAIN groups'[h],
                        groups'[g][k] = groups'[h][m]
                 PROVE  g = h /\ k = m
        OBVIOUS
    <2>1. CASE g = n
        BY <2>1, <1>3, <1>5, <1>6, <1>7
    <2>2. CASE h = n
        BY <2>2, <1>3, <1>5, <1>6, <1>7
    <2>3. CASE g # n /\ h # n
        BY <2>3, <1>3, <1>5 DEF GroupInv, GroupedOnce
    <2> QED
        BY <2>1, <2>2, <2>3
<1>9. UNION {Range(groups'[g]) : g \in DOMAIN groups'}
            = (UNION {Range(groups[g]) : g \in DOMAIN groups}) \cup {i}
    <2>1. Range(groups'[n]) = {i}
        BY <1>6 DEF Range
    <2> QED
        BY <2>1, <1>3, <1>5
<1>10. waiting' = DOMAIN files' \ UNION {Range(groups'[g]) : g \in DOMAIN groups'}
    BY <1>4, <1>9 DEF GroupInv, GroupedOnce
<1> QED
    BY <1>3, <1>4, <1>8, <1>10 DEF GroupInv, GroupedOnce

LEMMA KeepGroup ==
    ASSUME GroupInv, UNCHANGED <<files, waiting, groups>>
    PROVE  GroupInv'
BY DEF GroupInv, GroupedOnce

LEMMA StepGroup == GroupInv /\ [Next]_vars => GroupInv'
<1> SUFFICES ASSUME GroupInv, [Next]_vars PROVE GroupInv'
    OBVIOUS
<1>1. ASSUME NEW recording \in Recordings, ReadFile(recording) PROVE GroupInv'
    BY <1>1, ReadGroup
<1>2. ASSUME NEW i \in waiting, ContinueSession(i) PROVE GroupInv'
    BY <1>2, ContinueGroup
<1>3. ASSUME NEW i \in waiting, StartSession(i) PROVE GroupInv'
    BY <1>3, StartGroup
<1>4. ASSUME NEW p, JoinStint(p) \/ NewStint(p) PROVE GroupInv'
    BY <1>4, KeepGroup DEF JoinStint, NewStint, TakeStint
<1>5. ASSUME NEW p, JoinLap(p) \/ NewLap(p) PROVE GroupInv'
    BY <1>5, KeepGroup DEF JoinLap, NewLap, TakeLap
<1>6. ASSUME CloseSession PROVE GroupInv'
    BY <1>6, KeepGroup DEF CloseSession
<1>7. ASSUME UNCHANGED vars PROVE GroupInv'
    BY <1>7, KeepGroup DEF vars
<1> QED
    BY <1>1, <1>2, <1>3, <1>4, <1>5, <1>6, <1>7 DEF Next

(* Every file is in exactly one session or still waits for one, so         *)
(* open_sessions never finds a file missing or taken twice.                *)
THEOREM EveryFileOnce == Spec => []GroupedOnce
<1>1. GroupInv => GroupedOnce
    BY DEF GroupInv
<1> QED
    BY InitGroup, StepGroup, <1>1, PTL DEF Spec

-----------------------------------------------------------------------------
(* What has been joined so far lies in what the loops have produced, and   *)
(* nothing that is still to come starts before the entry that may grow.    *)
StintsTaken ==
    /\ stints \in Seq(Stints)
    /\ joinedStints # {} => Merging
    /\ joinedStints \subseteq StintPieces(group)
    /\ \A p \in joinedStints : \E stint \in Range(stints) :
            /\ stint.driver = StintPiece(group, p).driver
            /\ Within(StintPiece(group, p), stint)
    /\ stints # <<>> => \A q \in StintPieces(group) \ joinedStints :
            Last(stints).start <= StintPiece(group, q).start

LapsTaken ==
    /\ laps \in Seq(Laps)
    /\ joinedLaps # {} => Merging
    /\ joinedLaps \subseteq LapPieces(group)
    /\ \A p \in joinedLaps : \E lap \in Range(laps) :
            /\ lap.number = LapPiece(group, p).number
            /\ Within(LapPiece(group, p), lap)
    /\ laps # <<>> => \A q \in LapPieces(group) \ joinedLaps :
            Last(laps).start <= LapPiece(group, q).start

MetadataTyped ==
    /\ metadata \in Seq(FileMetadata)
    /\ DOMAIN metadata = DOMAIN files
    /\ \A g \in DOMAIN groups : groups[g] \in Seq(DOMAIN files)

\* Nothing is merged before every file has its group.
MergedAfter ==
    /\ Len(sessions) <= Len(groups)
    /\ ~AllGrouped => /\ sessions = <<>>
                      /\ joinedStints = {} /\ joinedLaps = {}
                      /\ stints = <<>> /\ laps = <<>>

MergeInv ==
    /\ GroupInv
    /\ MetadataTyped
    /\ sessions \in Seq(Range(sessions))
    /\ MergedAfter
    /\ StintsTaken
    /\ LapsTaken
    /\ PiecesCovered

\* Of pieces ordered by start first, the least starts first.
LEMMA LeastStartsFirst ==
    ASSUME NEW a \in Int, NEW b \in Int, NEW p \in Nat \X Nat, NEW q \in Nat \X Nat,
           LexLess(<<a>> \o p, <<b>> \o q)
    PROVE  a <= b
<1>1. <<a>> \in Seq(Int) /\ <<b>> \in Seq(Int) /\ p \in Seq(Int) /\ q \in Seq(Int)
    <2>1. PICK p1 \in Nat, p2 \in Nat : p = <<p1, p2>>
        OBVIOUS
    <2>2. PICK q1 \in Nat, q2 \in Nat : q = <<q1, q2>>
        OBVIOUS
    <2>3. <<p1, p2>> \in Seq(Int) /\ <<q1, q2>> \in Seq(Int)
        OBVIOUS
    <2> QED
        BY <2>1, <2>2, <2>3
<1>2. (<<a>> \o p)[1] = a /\ (<<b>> \o q)[1] = b
    BY <1>1, ConcatProperties
<1>3. DOMAIN (<<a>> \o p) \subseteq Nat \ {0}
    BY <1>1
<1>4. PICK k \in DOMAIN (<<a>> \o p) :
        /\ (<<a>> \o p)[k] < (<<b>> \o q)[k]
        /\ \A j \in 1 .. k - 1 : (<<a>> \o p)[j] = (<<b>> \o q)[j]
    BY Zenon DEF LexLess
<1>5. CASE k = 1
    BY <1>2, <1>4, <1>5
<1>6. CASE k # 1
    <2>1. 1 \in 1 .. k - 1
        BY <1>3, <1>6
    <2> QED
        BY <2>1, <1>2, <1>4
<1> QED
    BY <1>5, <1>6

\* The pieces of a group depend on the metadata only.
LEMMA KeptPieces ==
    ASSUME UNCHANGED metadata, NEW g
    PROVE  /\ StintPieces(g)' = StintPieces(g)
           /\ LapPieces(g)' = LapPieces(g)
           /\ \A p : StintPiece(g, p)' = StintPiece(g, p)
           /\ \A p : LapPiece(g, p)' = LapPiece(g, p)
<1>1. metadata' = metadata
    OBVIOUS
<1>2. Base(g)' = Base(g)
    BY <1>1 DEF Base
<1>3. \A i, at : SessionTime(g, i, at)' = SessionTime(g, i, at)
    BY <1>1, <1>2 DEF SessionTime
<1> QED
    BY <1>1, <1>3 DEF StintPieces, LapPieces, PiecesOf, Keyed, StintPiece, LapPiece

LEMMA TypedPieces ==
    ASSUME MergeInv, Merging
    PROVE  /\ \A p \in StintPieces(group) : p \in Nat \X Nat /\ StintPiece(group, p) \in Stints
           /\ \A p \in LapPieces(group) : p \in Nat \X Nat /\ LapPiece(group, p) \in Laps
<1>1. group \in Seq(DOMAIN metadata)
    <2>1. Len(sessions) \in Nat /\ Len(groups) \in Nat
        BY DEF MergeInv, GroupInv
    <2>2. Len(sessions) + 1 \in DOMAIN groups
        BY <2>1 DEF MergeInv, MergedAfter, GroupInv, Merging, Done
    <2> QED
        BY <2>2 DEF MergeInv, MetadataTyped, group
<1>2. \A i \in DOMAIN metadata : metadata[i] \in FileMetadata
    BY DEF MergeInv, MetadataTyped
<1>3. \A k \in DOMAIN group : k \in Nat /\ metadata[group[k]] \in FileMetadata
    BY <1>1, <1>2
<1>4. ASSUME NEW k \in DOMAIN group, NEW at \in Int
      PROVE  SessionTime(group, group[k], at) \in Int
    <2>1. {metadata[i].start : i \in Range(group)} \in SUBSET Nat
        BY <1>3 DEF Range, FileMetadata
    <2>2. {metadata[i].start : i \in Range(group)} # {}
        BY DEF Range
    <2>3. Base(group) \in Nat
        BY <2>1, <2>2, MinIs DEF Base
    <2> QED
        BY <2>3, <1>3 DEF SessionTime, Saturating, FileMetadata
<1>5. ASSUME NEW p \in StintPieces(group)
      PROVE  p \in Nat \X Nat /\ StintPiece(group, p) \in Stints
    <2>1. PICK k \in DOMAIN group : p \in {k} \X DOMAIN metadata[group[k]].stints
        BY DEF StintPieces, PiecesOf
    <2>2. metadata[group[k]].stints \in Seq(Stints)
        BY <1>3 DEF FileMetadata
    <2>3. p[1] = k /\ p[2] \in DOMAIN metadata[group[k]].stints /\ p \in Nat \X Nat
        BY <1>3, <2>1, <2>2
    <2>4. metadata[group[k]].stints[p[2]] \in Stints
        BY <2>2, <2>3
    <2> QED
        BY <2>3, <2>4, <1>4 DEF StintPiece, Stints
<1>6. ASSUME NEW p \in LapPieces(group)
      PROVE  p \in Nat \X Nat /\ LapPiece(group, p) \in Laps
    <2>1. PICK k \in DOMAIN group : p \in {k} \X DOMAIN metadata[group[k]].laps
        BY DEF LapPieces, PiecesOf
    <2>2. metadata[group[k]].laps \in Seq(Laps)
        BY <1>3 DEF FileMetadata
    <2>3. p[1] = k /\ p[2] \in DOMAIN metadata[group[k]].laps /\ p \in Nat \X Nat
        BY <1>3, <2>1, <2>2
    <2>4. metadata[group[k]].laps[p[2]] \in Laps
        BY <2>2, <2>3
    <2> QED
        BY <2>3, <2>4, <1>4 DEF LapPiece, Laps
<1> QED
    BY <1>5, <1>6

LEMMA LapExtended ==
    ASSUME NEW lap \in Laps, NEW e \in Int, NEW d \in Int
    PROVE  LET w == [lap EXCEPT !.end = e, !.duration = d]
           IN  w \in Laps /\ w.number = lap.number /\ w.start = lap.start /\ w.end = e
<1> DEFINE u == [lap EXCEPT !.end = e]
           v == [u EXCEPT !.duration = d]
           w == [lap EXCEPT !.end = e, !.duration = d]
<1>1. u \in Laps /\ u.number = lap.number /\ u.start = lap.start /\ u.end = e
    BY DEF Laps
<1>2. v \in Laps /\ v.number = u.number /\ v.start = u.start /\ v.end = u.end
    <2> HIDE DEF u
    <2> QED
        BY <1>1 DEF Laps
<1>3. w = v
    OBVIOUS
<1> QED
    <2> HIDE DEF u, v, w
    <2>1. w \in Laps /\ w.number = lap.number /\ w.start = lap.start /\ w.end = e
        BY <1>1, <1>2, <1>3
    <2> QED
        BY <2>1 DEF w

LEMMA KeptGroup ==
    ASSUME UNCHANGED <<metadata, groups, sessions>>
    PROVE  /\ StintPieces(group)' = StintPieces(group)
           /\ LapPieces(group)' = LapPieces(group)
           /\ \A p : StintPiece(group, p)' = StintPiece(group, p)
           /\ \A p : LapPiece(group, p)' = LapPiece(group, p)
<1>1. PICK g : g = group
    OBVIOUS
<1>2. group' = g
    BY <1>1 DEF group
<1> QED
    BY <1>1, <1>2, KeptPieces

\* Closed sessions stay covered: no metadata changes while files are merged.
LEMMA KeptCovered ==
    ASSUME PiecesCovered, UNCHANGED <<metadata, sessions>>
    PROVE  PiecesCovered'
<1> SUFFICES ASSUME NEW session \in Range(sessions)
             PROVE  /\ \A p \in LapPieces(session.files)' : \E lap \in Range(session.laps) :
                            /\ lap.number = LapPiece(session.files, p).number'
                            /\ Within(LapPiece(session.files, p)', lap)
                    /\ \A p \in StintPieces(session.files)' : \E stint \in Range(session.stints) :
                            /\ stint.driver = StintPiece(session.files, p).driver'
                            /\ Within(StintPiece(session.files, p)', stint)
    BY DEF PiecesCovered
<1> QED
    BY KeptPieces DEF PiecesCovered

LEMMA StintInOrder ==
    ASSUME MergeInv, NEW p, TakeStint(p), NEW q \in StintPieces(group) \ joinedStints
    PROVE  StintPiece(group, p).start <= StintPiece(group, q).start
<1>1. /\ p \in Nat \X Nat /\ StintPiece(group, p) \in Stints
      /\ q \in Nat \X Nat /\ StintPiece(group, q) \in Stints
    BY TypedPieces DEF TakeStint
<1>2. StintPiece(group, p).start \in Int /\ StintPiece(group, q).start \in Int
    BY <1>1 DEF Stints
<1>3. CASE q = p
    BY <1>2, <1>3
<1>4. CASE q # p
    <2>1. LexLess(<<StintPiece(group, p).start>> \o p, <<StintPiece(group, q).start>> \o q)
        BY <1>4 DEF TakeStint, IsLeast
    <2> QED
        BY <1>1, <1>2, <2>1, LeastStartsFirst
<1> QED
    BY <1>3, <1>4

\* Joining a piece of a stint leaves everything else as it was.
LEMMA TakeStintKeeps ==
    ASSUME MergeInv, NEW p, TakeStint(p)
    PROVE  /\ GroupInv' /\ MetadataTyped' /\ sessions' \in Seq(Range(sessions'))
           /\ MergedAfter' /\ LapsTaken' /\ PiecesCovered'
<1>1. UNCHANGED <<files, metadata, waiting, groups, sessions, joinedLaps, laps>> /\ AllGrouped
    BY DEF TakeStint, Merging
<1>2. GroupInv'
    BY <1>1, KeepGroup DEF MergeInv
<1>3. MetadataTyped' /\ sessions' \in Seq(Range(sessions'))
    BY <1>1 DEF MergeInv, MetadataTyped
<1>4. MergedAfter'
    BY <1>1 DEF MergeInv, MergedAfter, AllGrouped, Grouping
<1>5. LapsTaken'
    BY <1>1, KeptGroup DEF MergeInv, LapsTaken, Merging, AllGrouped, Grouping, Done
<1>6. PiecesCovered'
    BY <1>1, KeptCovered DEF MergeInv
<1> QED
    BY <1>2, <1>3, <1>4, <1>5, <1>6

\* The last entry grows around what it had and the piece that joins it.
LEMMA JoinStintMerges ==
    ASSUME MergeInv, NEW p, JoinStint(p)
    PROVE  MergeInv'
<1> DEFINE n == Len(stints)
           piece == StintPiece(group, p)
<1>1. TakeStint(p) /\ SameStint(piece)
    BY DEF JoinStint
<1>2. UNCHANGED <<metadata, groups, sessions>> /\ joinedStints' = joinedStints \cup {p}
    BY <1>1 DEF TakeStint
<1>3. piece \in Stints /\ piece.start \in Int /\ piece.end \in Int
    BY <1>1, TypedPieces DEF TakeStint, Stints
<1>4. stints \in Seq(Stints) /\ n \in DOMAIN stints /\ Last(stints) = stints[n] /\ stints[n].driver = piece.driver
    BY <1>1 DEF MergeInv, StintsTaken, SameStint, Last
<1>5. stints[n] \in Stints /\ stints[n].start \in Int /\ stints[n].end \in Int
    <2>1. stints[n] \in Stints
        BY <1>4
    <2> QED
        BY <2>1 DEF Stints
<1>6. stints[n].start <= piece.start
    BY <1>1, <1>4 DEF MergeInv, StintsTaken, TakeStint
<1> DEFINE end == Later(stints[n].end, piece.end)
<1>7. end \in Int /\ stints[n].end <= end /\ piece.end <= end
    BY <1>3, <1>5 DEF Later
<1>8. stints' = [stints EXCEPT ![n] = [stints[n] EXCEPT !.end = end]]
    BY <1>4 DEF JoinStint
<1>9. PICK whole \in Stints : /\ stints' = [stints EXCEPT ![n] = whole]
                            /\ whole.driver = stints[n].driver
                            /\ whole.start = stints[n].start /\ whole.end = end
    <2> DEFINE w == [stints[n] EXCEPT !.end = end]
    <2>1. w \in Stints /\ w.driver = stints[n].driver /\ w.start = stints[n].start /\ w.end = end
        <3> HIDE DEF end
        <3> QED
            BY <1>5, <1>7 DEF Stints
    <2> QED
        BY <1>8, <2>1
<1>10. /\ stints' \in Seq(Stints) /\ stints' # <<>> /\ Last(stints') = whole
       /\ whole \in Range(stints')
       /\ \A i \in DOMAIN stints : i # n => stints[i] \in Range(stints')
    BY <1>4, <1>9 DEF Last, Range
<1>11. ASSUME NEW q \in joinedStints'
       PROVE  \E entry \in Range(stints') :
                entry.driver = StintPiece(group, q).driver /\ Within(StintPiece(group, q), entry)
    <2>1. CASE q = p
        BY <2>1, <1>3, <1>4, <1>5, <1>6, <1>7, <1>9, <1>10 DEF Within
    <2>2. CASE q # p
        <3>1. PICK i \in DOMAIN stints : /\ stints[i].driver = StintPiece(group, q).driver
                                        /\ Within(StintPiece(group, q), stints[i])
            BY <2>2, <1>2 DEF MergeInv, StintsTaken, Range
        <3>2. CASE i = n
            <4>1. StintPiece(group, q).end <= stints[n].end /\ StintPiece(group, q).end \in Int
                BY <3>1, <3>2, <1>1, <1>2, <2>2, TypedPieces DEF MergeInv, StintsTaken, TakeStint, Stints, Within
            <4> QED
                BY <3>1, <3>2, <4>1, <1>5, <1>7, <1>9, <1>10 DEF Within
        <3> QED
            BY <3>1, <3>2, <1>10
    <2> QED
        BY <2>1, <2>2
<1>12. ASSUME NEW q \in StintPieces(group) \ joinedStints'
       PROVE  Last(stints').start <= StintPiece(group, q).start
    BY <1>2, <1>4, <1>9, <1>10 DEF MergeInv, StintsTaken
<1>13. StintsTaken'
    BY <1>1, <1>2, <1>10, <1>11, <1>12, KeptGroup DEF StintsTaken, MergeInv, TakeStint, Merging, AllGrouped, Grouping, Done
<1> QED
    BY <1>1, <1>13, TakeStintKeeps DEF MergeInv

\* A piece that joins nothing is an entry of its own, and starts first.
LEMMA NewStintMerges ==
    ASSUME MergeInv, NEW p, NewStint(p)
    PROVE  MergeInv'
<1> DEFINE piece == StintPiece(group, p)
<1>1. TakeStint(p) /\ stints' = Append(stints, piece)
    BY DEF NewStint
<1>2. UNCHANGED <<metadata, groups, sessions>> /\ joinedStints' = joinedStints \cup {p}
    BY <1>1 DEF TakeStint
<1>3. piece \in Stints /\ piece.start \in Int /\ piece.end \in Int
    BY <1>1, TypedPieces DEF TakeStint, Stints
<1>4. stints \in Seq(Stints)
    BY DEF MergeInv, StintsTaken
<1>5. /\ stints' \in Seq(Stints) /\ stints' # <<>> /\ Last(stints') = piece
      /\ Range(stints') = Range(stints) \cup {piece}
    BY <1>1, <1>3, <1>4 DEF Last, Range
<1>6. ASSUME NEW q \in joinedStints'
      PROVE  \E entry \in Range(stints') :
                entry.driver = StintPiece(group, q).driver /\ Within(StintPiece(group, q), entry)
    BY <1>2, <1>3, <1>5 DEF MergeInv, StintsTaken, Within
<1>7. ASSUME NEW q \in StintPieces(group) \ joinedStints'
      PROVE  Last(stints').start <= StintPiece(group, q).start
    BY <1>1, <1>2, <1>5, StintInOrder
<1>8. StintsTaken'
    BY <1>1, <1>2, <1>5, <1>6, <1>7, KeptGroup DEF StintsTaken, MergeInv, TakeStint, Merging, AllGrouped, Grouping, Done
<1> QED
    BY <1>1, <1>8, TakeStintKeeps DEF MergeInv

LEMMA LapInOrder ==
    ASSUME MergeInv, NEW p, TakeLap(p), NEW q \in LapPieces(group) \ joinedLaps
    PROVE  LapPiece(group, p).start <= LapPiece(group, q).start
<1>1. /\ p \in Nat \X Nat /\ LapPiece(group, p) \in Laps
      /\ q \in Nat \X Nat /\ LapPiece(group, q) \in Laps
    BY TypedPieces DEF TakeLap
<1>2. LapPiece(group, p).start \in Int /\ LapPiece(group, q).start \in Int
    BY <1>1 DEF Laps
<1>3. CASE q = p
    BY <1>2, <1>3
<1>4. CASE q # p
    <2>1. LexLess(<<LapPiece(group, p).start>> \o p, <<LapPiece(group, q).start>> \o q)
        BY <1>4 DEF TakeLap, IsLeast
    <2> QED
        BY <1>1, <1>2, <2>1, LeastStartsFirst
<1> QED
    BY <1>3, <1>4

\* Joining a piece of a lap leaves everything else as it was.
LEMMA TakeLapKeeps ==
    ASSUME MergeInv, NEW p, TakeLap(p)
    PROVE  /\ GroupInv' /\ MetadataTyped' /\ sessions' \in Seq(Range(sessions'))
           /\ MergedAfter' /\ StintsTaken' /\ PiecesCovered'
<1>1. UNCHANGED <<files, metadata, waiting, groups, sessions, joinedStints, stints>> /\ AllGrouped
    BY DEF TakeLap, Merging
<1>2. GroupInv'
    BY <1>1, KeepGroup DEF MergeInv
<1>3. MetadataTyped' /\ sessions' \in Seq(Range(sessions'))
    BY <1>1 DEF MergeInv, MetadataTyped
<1>4. MergedAfter'
    BY <1>1 DEF MergeInv, MergedAfter, AllGrouped, Grouping
<1>5. StintsTaken'
    BY <1>1, KeptGroup DEF MergeInv, StintsTaken, Merging, AllGrouped, Grouping, Done
<1>6. PiecesCovered'
    BY <1>1, KeptCovered DEF MergeInv
<1> QED
    BY <1>2, <1>3, <1>4, <1>5, <1>6

\* The last entry grows around what it had and the piece that joins it.
LEMMA JoinLapMerges ==
    ASSUME MergeInv, NEW p, JoinLap(p)
    PROVE  MergeInv'
<1> DEFINE n == Len(laps)
           piece == LapPiece(group, p)
<1>1. TakeLap(p) /\ SameLap(piece)
    BY DEF JoinLap
<1>2. UNCHANGED <<metadata, groups, sessions>> /\ joinedLaps' = joinedLaps \cup {p}
    BY <1>1 DEF TakeLap
<1>3. piece \in Laps /\ piece.start \in Int /\ piece.end \in Int
    BY <1>1, TypedPieces DEF TakeLap, Laps
<1>4. laps \in Seq(Laps) /\ n \in DOMAIN laps /\ Last(laps) = laps[n] /\ laps[n].number = piece.number
    BY <1>1 DEF MergeInv, LapsTaken, SameLap, Last
<1>5. laps[n] \in Laps /\ laps[n].start \in Int /\ laps[n].end \in Int
    <2>1. laps[n] \in Laps
        BY <1>4
    <2> QED
        BY <2>1 DEF Laps
<1>6. laps[n].start <= piece.start
    BY <1>1, <1>4 DEF MergeInv, LapsTaken, TakeLap
<1> DEFINE end == Later(laps[n].end, piece.end)
<1>7. end \in Int /\ laps[n].end <= end /\ piece.end <= end
    BY <1>3, <1>5 DEF Later
<1>8. laps' = [laps EXCEPT ![n] =
                [laps[n] EXCEPT !.end = end, !.duration = end - laps[n].start]]
    BY <1>4 DEF JoinLap
<1>9. PICK whole \in Laps : /\ laps' = [laps EXCEPT ![n] = whole]
                          /\ whole.number = laps[n].number
                          /\ whole.start = laps[n].start /\ whole.end = end
    <2> DEFINE w == [laps[n] EXCEPT !.end = end, !.duration = end - laps[n].start]
    <2>1. w \in Laps /\ w.number = laps[n].number /\ w.start = laps[n].start /\ w.end = end
        <3>1. end - laps[n].start \in Int
            BY <1>5, <1>7
        <3>2. laps[n] \in Laps /\ end \in Int
            BY <1>5, <1>7
        <3> HIDE DEF end
        <3> QED
            BY <3>1, <3>2, LapExtended, Zenon
    <2> QED
        BY <1>8, <2>1
<1>10. /\ laps' \in Seq(Laps) /\ laps' # <<>> /\ Last(laps') = whole
       /\ whole \in Range(laps')
       /\ \A i \in DOMAIN laps : i # n => laps[i] \in Range(laps')
    BY <1>4, <1>9 DEF Last, Range
<1>11. ASSUME NEW q \in joinedLaps'
       PROVE  \E entry \in Range(laps') :
                entry.number = LapPiece(group, q).number /\ Within(LapPiece(group, q), entry)
    <2>1. CASE q = p
        BY <2>1, <1>3, <1>4, <1>5, <1>6, <1>7, <1>9, <1>10 DEF Within
    <2>2. CASE q # p
        <3>1. PICK i \in DOMAIN laps : /\ laps[i].number = LapPiece(group, q).number
                                        /\ Within(LapPiece(group, q), laps[i])
            BY <2>2, <1>2 DEF MergeInv, LapsTaken, Range
        <3>2. CASE i = n
            <4>1. LapPiece(group, q).end <= laps[n].end /\ LapPiece(group, q).end \in Int
                BY <3>1, <3>2, <1>1, <1>2, <2>2, TypedPieces DEF MergeInv, LapsTaken, TakeLap, Laps, Within
            <4> QED
                BY <3>1, <3>2, <4>1, <1>5, <1>7, <1>9, <1>10 DEF Within
        <3> QED
            BY <3>1, <3>2, <1>10
    <2> QED
        BY <2>1, <2>2
<1>12. ASSUME NEW q \in LapPieces(group) \ joinedLaps'
       PROVE  Last(laps').start <= LapPiece(group, q).start
    BY <1>2, <1>4, <1>9, <1>10 DEF MergeInv, LapsTaken
<1>13. LapsTaken'
    BY <1>1, <1>2, <1>10, <1>11, <1>12, KeptGroup DEF LapsTaken, MergeInv, TakeLap, Merging, AllGrouped, Grouping, Done
<1> QED
    BY <1>1, <1>13, TakeLapKeeps DEF MergeInv

\* A piece that joins nothing is an entry of its own, and starts first.
LEMMA NewLapMerges ==
    ASSUME MergeInv, NEW p, NewLap(p)
    PROVE  MergeInv'
<1> DEFINE piece == LapPiece(group, p)
<1>1. TakeLap(p) /\ laps' = Append(laps, piece)
    BY DEF NewLap
<1>2. UNCHANGED <<metadata, groups, sessions>> /\ joinedLaps' = joinedLaps \cup {p}
    BY <1>1 DEF TakeLap
<1>3. piece \in Laps /\ piece.start \in Int /\ piece.end \in Int
    BY <1>1, TypedPieces DEF TakeLap, Laps
<1>4. laps \in Seq(Laps)
    BY DEF MergeInv, LapsTaken
<1>5. /\ laps' \in Seq(Laps) /\ laps' # <<>> /\ Last(laps') = piece
      /\ Range(laps') = Range(laps) \cup {piece}
    BY <1>1, <1>3, <1>4 DEF Last, Range
<1>6. ASSUME NEW q \in joinedLaps'
      PROVE  \E entry \in Range(laps') :
                entry.number = LapPiece(group, q).number /\ Within(LapPiece(group, q), entry)
    BY <1>2, <1>3, <1>5 DEF MergeInv, LapsTaken, Within
<1>7. ASSUME NEW q \in LapPieces(group) \ joinedLaps'
      PROVE  Last(laps').start <= LapPiece(group, q).start
    BY <1>1, <1>2, <1>5, LapInOrder
<1>8. LapsTaken'
    BY <1>1, <1>2, <1>5, <1>6, <1>7, KeptGroup DEF LapsTaken, MergeInv, TakeLap, Merging, AllGrouped, Grouping, Done
<1> QED
    BY <1>1, <1>8, TakeLapKeeps DEF MergeInv

\* All pieces of the group are joined when its session is closed.
LEMMA CloseMerges ==
    ASSUME MergeInv, CloseSession
    PROVE  MergeInv'
<1>1. /\ Merging /\ joinedStints = StintPieces(group) /\ joinedLaps = LapPieces(group)
      /\ UNCHANGED <<files, metadata, waiting, groups>>
      /\ joinedStints' = {} /\ joinedLaps' = {} /\ stints' = <<>> /\ laps' = <<>>
    BY DEF CloseSession
<1>2. PICK closed : /\ sessions' = Append(sessions, closed)
                    /\ closed.files = group /\ closed.stints = stints /\ closed.laps = laps
    <2> DEFINE c == [files |-> group,
                     start |-> Base(group),
                     end |-> Max({metadata[i].end : i \in Range(group)}),
                     stints |-> stints, laps |-> laps, complete |-> Inner,
                     fastest |-> FastestLap]
    <2>1. sessions' = Append(sessions, c)
        BY DEF CloseSession
    <2>2. c.files = group /\ c.stints = stints /\ c.laps = laps
        OBVIOUS
    <2> QED
        BY <2>1, <2>2
<1>3. sessions \in Seq(Range(sessions) \cup {closed})
    BY DEF MergeInv
<1>4. /\ Range(sessions') = Range(sessions) \cup {closed}
      /\ sessions' \in Seq(Range(sessions'))
      /\ Len(sessions') = Len(sessions) + 1
    BY <1>2, <1>3 DEF Range
<1>5. GroupInv'
    BY <1>1, KeepGroup DEF MergeInv
<1>6. MetadataTyped'
    BY <1>1 DEF MergeInv, MetadataTyped
<1>7. MergedAfter'
    <2>1. Len(sessions) \in Nat /\ Len(groups) \in Nat
        BY DEF MergeInv, GroupInv
    <2>2. Len(sessions') <= Len(groups)
        BY <1>1, <1>4, <2>1 DEF MergeInv, MergedAfter, Merging, Done
    <2> QED
        BY <1>1, <2>2 DEF MergedAfter, Merging, AllGrouped, Grouping
<1>8. StintsTaken' /\ LapsTaken'
    BY <1>1 DEF StintsTaken, LapsTaken
<1>9. PiecesCovered'
    <2> SUFFICES ASSUME NEW session \in Range(sessions')
                 PROVE  /\ \A p \in LapPieces(session.files)' : \E lap \in Range(session.laps) :
                                /\ lap.number = LapPiece(session.files, p).number'
                                /\ Within(LapPiece(session.files, p)', lap)
                        /\ \A p \in StintPieces(session.files)' : \E stint \in Range(session.stints) :
                                /\ stint.driver = StintPiece(session.files, p).driver'
                                /\ Within(StintPiece(session.files, p)', stint)
        BY DEF PiecesCovered
    <2>1. CASE session \in Range(sessions)
        <3>1. PiecesCovered
            BY DEF MergeInv
        <3>2. \A p \in LapPieces(session.files) : \E lap \in Range(session.laps) :
                /\ lap.number = LapPiece(session.files, p).number
                /\ Within(LapPiece(session.files, p), lap)
            BY <2>1, <3>1 DEF PiecesCovered
        <3>3. \A p \in StintPieces(session.files) : \E stint \in Range(session.stints) :
                /\ stint.driver = StintPiece(session.files, p).driver
                /\ Within(StintPiece(session.files, p), stint)
            BY <2>1, <3>1 DEF PiecesCovered
        <3> QED
            BY <3>2, <3>3, <1>1, KeptPieces
    <2>2. CASE session = closed
        <3>1. session.files = group /\ session.stints = stints /\ session.laps = laps
            BY <2>2, <1>2
        <3>2. \A p \in LapPieces(session.files) : \E lap \in Range(session.laps) :
                /\ lap.number = LapPiece(session.files, p).number
                /\ Within(LapPiece(session.files, p), lap)
            BY <3>1, <1>1 DEF MergeInv, LapsTaken
        <3>3. \A p \in StintPieces(session.files) : \E stint \in Range(session.stints) :
                /\ stint.driver = StintPiece(session.files, p).driver
                /\ Within(StintPiece(session.files, p), stint)
            BY <3>1, <1>1 DEF MergeInv, StintsTaken
        <3> QED
            BY <3>2, <3>3, <1>1, KeptPieces
    <2> QED
        BY <2>1, <2>2, <1>4
<1> QED
    BY <1>4, <1>5, <1>6, <1>7, <1>8, <1>9 DEF MergeInv

NothingMerged ==
    /\ sessions = <<>>
    /\ joinedStints = {} /\ joinedLaps = {}
    /\ stints = <<>> /\ laps = <<>>

\* Where nothing is merged yet there is nothing to be covered.
LEMMA NothingToCover == GroupInv /\ MetadataTyped /\ NothingMerged => MergeInv
<1> SUFFICES ASSUME GroupInv, MetadataTyped, NothingMerged PROVE MergeInv
    OBVIOUS
<1>1. Range(sessions) = {} /\ sessions \in Seq(Range(sessions))
    BY DEF Range, NothingMerged
<1>2. StintsTaken /\ LapsTaken /\ PiecesCovered
    BY <1>1 DEF StintsTaken, LapsTaken, PiecesCovered, NothingMerged
<1>3. MergedAfter
    BY DEF MergedAfter, GroupInv, NothingMerged
<1> QED
    BY <1>1, <1>2, <1>3 DEF MergeInv

LEMMA InitMerge == Init => MergeInv
<1> SUFFICES ASSUME Init PROVE MergeInv
    OBVIOUS
<1>1. files = <<>> /\ metadata = <<>> /\ groups = <<>>
    BY DEF Init
<1>2. MetadataTyped
    BY <1>1 DEF MetadataTyped
<1> QED
    BY <1>2, InitGroup, NothingToCover DEF Init, NothingMerged

\* Before all files are grouped nothing is merged, and a file read or
\* grouped leaves it so.
LEMMA StillNothing ==
    ASSUME MergeInv, ~AllGrouped, UNCHANGED merging, GroupInv', MetadataTyped'
    PROVE  MergeInv'
<1>1. NothingMerged'
    BY DEF MergeInv, MergedAfter, NothingMerged, merging
<1>2. (GroupInv /\ MetadataTyped /\ NothingMerged => MergeInv)'
    BY NothingToCover, PTL
<1> QED
    BY <1>1, <1>2

LEMMA ReadMerge ==
    ASSUME MergeInv, NEW recording \in Recordings, ReadFile(recording)
    PROVE  MergeInv'
<1>1. /\ ~AllGrouped /\ groups = <<>> /\ UNCHANGED <<groups, merging>>
      /\ files' = Append(files, recording)
      /\ metadata' = Append(metadata, Summary(recording))
    BY DEF ReadFile, Grouping, AllGrouped
<1>2. Summary(recording) \in FileMetadata
    BY SummaryAssumption
<1>3. files \in Seq(Recordings) /\ metadata \in Seq(FileMetadata) /\ Len(metadata) = Len(files)
    BY DEF MergeInv, GroupInv, MetadataTyped
<1>4. metadata' \in Seq(FileMetadata) /\ DOMAIN metadata' = DOMAIN files'
    BY <1>1, <1>2, <1>3
<1>5. DOMAIN groups' = {}
    BY <1>1
<1>6. MetadataTyped'
    BY <1>4, <1>5 DEF MetadataTyped
<1>7. GroupInv'
    BY ReadGroup DEF MergeInv
<1> QED
    BY <1>1, <1>6, <1>7, StillNothing

LEMMA GroupMerge ==
    ASSUME MergeInv, NEW i \in waiting, ContinueSession(i) \/ StartSession(i)
    PROVE  MergeInv'
<1>1. UNCHANGED <<files, metadata, merging>> /\ ~AllGrouped
    BY DEF ContinueSession, StartSession, Group, AllGrouped
<1>2. GroupInv'
    BY ContinueGroup, StartGroup DEF MergeInv
<1>3. groups \in Seq(Seq(DOMAIN files)) /\ i \in DOMAIN files
    BY DEF MergeInv, GroupInv, MetadataTyped
<1>4. groups' \in Seq(Seq(DOMAIN files))
    <2>1. CASE ContinueSession(i)
        <3>1. groups # <<>> /\ groups' = [groups EXCEPT ![Len(groups)] = Append(@, i)]
            BY <2>1 DEF ContinueSession, JoinsPrevious
        <3>2. Append(groups[Len(groups)], i) \in Seq(DOMAIN files)
            BY <1>3, <3>1
        <3> QED
            BY <1>3, <3>1, <3>2
    <2>2. CASE StartSession(i)
        <3>1. groups' = Append(groups, <<i>>) /\ <<i>> \in Seq(DOMAIN files)
            BY <2>2, <1>3 DEF StartSession
        <3> QED
            BY <1>3, <3>1
    <2> QED
        BY <2>1, <2>2
<1>5. MetadataTyped'
    BY <1>1, <1>4 DEF MergeInv, MetadataTyped
<1> QED
    BY <1>1, <1>2, <1>5, StillNothing

LEMMA StepMerge == MergeInv /\ [Next]_vars => MergeInv'
<1> SUFFICES ASSUME MergeInv, [Next]_vars PROVE MergeInv'
    OBVIOUS
<1>1. ASSUME NEW recording \in Recordings, ReadFile(recording) PROVE MergeInv'
    BY <1>1, ReadMerge
<1>2. ASSUME NEW i \in waiting, ContinueSession(i) \/ StartSession(i) PROVE MergeInv'
    BY <1>2, GroupMerge
<1>3. ASSUME NEW p, JoinStint(p) PROVE MergeInv'
    BY <1>3, JoinStintMerges
<1>4. ASSUME NEW p, NewStint(p) PROVE MergeInv'
    BY <1>4, NewStintMerges
<1>5. ASSUME NEW p, JoinLap(p) PROVE MergeInv'
    BY <1>5, JoinLapMerges
<1>6. ASSUME NEW p, NewLap(p) PROVE MergeInv'
    BY <1>6, NewLapMerges
<1>7. ASSUME CloseSession PROVE MergeInv'
    BY <1>7, CloseMerges
<1>8. ASSUME UNCHANGED vars PROVE MergeInv'
    <2>1. UNCHANGED <<files, metadata, waiting, groups, sessions,
                      joinedStints, joinedLaps, stints, laps>>
        BY <1>8 DEF vars
    <2>2. GroupInv'
        BY <2>1, KeepGroup DEF MergeInv
    <2>3. MetadataTyped' /\ sessions' \in Seq(Range(sessions')) /\ MergedAfter'
        BY <2>1 DEF MergeInv, MetadataTyped, MergedAfter, AllGrouped, Grouping
    <2>4. StintsTaken' /\ LapsTaken'
        BY <2>1, KeptGroup DEF MergeInv, StintsTaken, LapsTaken, Merging, AllGrouped, Grouping, Done
    <2>5. PiecesCovered'
        BY <2>1, KeptCovered DEF MergeInv
    <2> QED
        BY <2>2, <2>3, <2>4, <2>5 DEF MergeInv
<1> QED
    BY <1>1, <1>2, <1>3, <1>4, <1>5, <1>6, <1>7, <1>8 DEF Next

(* Whatever the files of a session are and however they overlap, the loops *)
(* that join laps and driver stints across files lose no time a file       *)
(* recorded of one.                                                        *)
THEOREM NoPieceLost == Spec => []PiecesCovered
<1>1. MergeInv => PiecesCovered
    BY DEF MergeInv
<1> QED
    BY InitMerge, StepMerge, <1>1, PTL DEF Spec

-----------------------------------------------------------------------------
(* A lap under way ends where one of the pieces joined so far does, and    *)
(* each instant of it but the first lies in, or closely after, a piece     *)
(* that started before.                                                    *)
Unbroken(g, lap, joined) ==
    /\ \E q \in joined : /\ LapPiece(g, q).number = lap.number
                         /\ lap.start <= LapPiece(g, q).start
                         /\ LapPiece(g, q).end = lap.end
    /\ \A t \in lap.start + 1 .. lap.end : \E q \in joined :
            /\ LapPiece(g, q).number = lap.number
            /\ lap.start <= LapPiece(g, q).start /\ LapPiece(g, q).start < t
            /\ t <= LapPiece(g, q).end + MaxGap

LapsForward == \A i \in DOMAIN metadata : \A lap \in Range(metadata[i].laps) : lap.start <= lap.end

GapInv ==
    /\ LapsForward
    /\ \A lap \in Range(laps) : Unbroken(group, lap, joinedLaps)
    /\ NoLapBridgesAGap

LEMMA PiecesForward ==
    ASSUME MergeInv, GapInv, Merging, NEW p \in LapPieces(group)
    PROVE  /\ LapPiece(group, p).start \in Int /\ LapPiece(group, p).end \in Int
           /\ LapPiece(group, p).start <= LapPiece(group, p).end
<1>1. group \in Seq(DOMAIN metadata)
    <2>1. Len(sessions) \in Nat /\ Len(groups) \in Nat
        BY DEF MergeInv, GroupInv
    <2>2. Len(sessions) + 1 \in DOMAIN groups
        BY <2>1 DEF MergeInv, MergedAfter, GroupInv, Merging, Done
    <2> QED
        BY <2>2 DEF MergeInv, MetadataTyped, group
<1>2. \A k \in DOMAIN group : metadata[group[k]] \in FileMetadata /\ group[k] \in DOMAIN metadata
    BY <1>1 DEF MergeInv, MetadataTyped
<1>3. PICK k \in DOMAIN group : p \in {k} \X DOMAIN metadata[group[k]].laps
    BY DEF LapPieces, PiecesOf
<1>4. metadata[group[k]].laps \in Seq(Laps) /\ metadata[group[k]].offset \in Int
    BY <1>2 DEF FileMetadata
<1>5. p[1] = k /\ p[2] \in DOMAIN metadata[group[k]].laps
    BY <1>3
<1> DEFINE lap == metadata[group[k]].laps[p[2]]
<1>6. lap \in Laps /\ lap.start <= lap.end
    BY <1>2, <1>4, <1>5 DEF GapInv, LapsForward, Range
<1>7. lap.start \in Int /\ lap.end \in Int
    BY <1>6 DEF Laps
<1>8. Base(group) \in Nat
    <2>1. {metadata[i].start : i \in Range(group)} \in SUBSET Nat
        BY <1>2 DEF Range, FileMetadata
    <2>2. {metadata[i].start : i \in Range(group)} # {}
        BY <1>3 DEF Range
    <2> QED
        BY <2>1, <2>2, MinIs DEF Base
<1>9. /\ LapPiece(group, p).start = SessionTime(group, group[k], lap.start)
      /\ LapPiece(group, p).end = SessionTime(group, group[k], lap.end)
    BY <1>5 DEF LapPiece
<1>10. \A at \in Int : SessionTime(group, group[k], at)
                        = Saturating(at + metadata[group[k]].offset, Base(group))
    BY DEF SessionTime
<1> HIDE DEF lap
<1> DEFINE a == lap.start + metadata[group[k]].offset
           b == lap.end + metadata[group[k]].offset
<1>11. a \in Int /\ b \in Int /\ a <= b
    BY <1>4, <1>6, <1>7
<1>12. /\ SessionTime(group, group[k], lap.start) = Saturating(a, Base(group))
       /\ SessionTime(group, group[k], lap.end) = Saturating(b, Base(group))
    BY <1>7, <1>10
<1> HIDE DEF a, b
<1>13. /\ SessionTime(group, group[k], lap.start) \in Int
       /\ SessionTime(group, group[k], lap.end) \in Int
       /\ SessionTime(group, group[k], lap.start) <= SessionTime(group, group[k], lap.end)
    BY <1>8, <1>11, <1>12 DEF Saturating
<1> QED
    BY <1>9, <1>13

\* Closed sessions stay as they are: no metadata changes while files are merged.
LEMMA KeptUnbridged ==
    ASSUME NoLapBridgesAGap, UNCHANGED <<metadata, sessions>>
    PROVE  NoLapBridgesAGap'
BY KeptPieces DEF NoLapBridgesAGap

\* More pieces joined leave a lap unbroken.
LEMMA MoreJoined ==
    ASSUME NEW g, NEW lap, NEW joined, Unbroken(g, lap, joined), NEW p
    PROVE  Unbroken(g, lap, joined \cup {p})
BY DEF Unbroken

\* A piece that follows a lap closely lengthens it without a break.
LEMMA JoinUnbroken ==
    ASSUME NEW g, NEW joined, NEW p, NEW lap, NEW whole,
           Unbroken(g, lap, joined),
           \A q \in joined \cup {p} : /\ LapPiece(g, q).start \in Int /\ LapPiece(g, q).end \in Int
                                      /\ LapPiece(g, q).start <= LapPiece(g, q).end,
           lap.start \in Int, lap.end \in Int,
           lap.start <= LapPiece(g, p).start, LapPiece(g, p).start <= lap.end + MaxGap,
           LapPiece(g, p).number = lap.number,
           whole.number = lap.number, whole.start = lap.start,
           whole.end = Later(lap.end, LapPiece(g, p).end)
    PROVE  Unbroken(g, whole, joined \cup {p})
<1>1. MaxGap \in Nat
    BY SessionAssumption
<1>2. PICK e \in joined : /\ LapPiece(g, e).number = lap.number
                          /\ lap.start <= LapPiece(g, e).start
                          /\ LapPiece(g, e).end = lap.end
    BY DEF Unbroken
<1> DEFINE ends(q) == /\ LapPiece(g, q).number = whole.number
                      /\ whole.start <= LapPiece(g, q).start
                      /\ LapPiece(g, q).end = whole.end
           leads(q, t) == /\ LapPiece(g, q).number = whole.number
                          /\ whole.start <= LapPiece(g, q).start /\ LapPiece(g, q).start < t
                          /\ t <= LapPiece(g, q).end + MaxGap
<1>3. \E q \in joined \cup {p} : ends(q)
    <2>1. CASE LapPiece(g, p).end > lap.end
        BY <2>1 DEF Later
    <2>2. CASE ~(LapPiece(g, p).end > lap.end)
        BY <2>2, <1>2 DEF Later
    <2> QED
        BY <2>1, <2>2
<1>4. ASSUME NEW t \in whole.start + 1 .. whole.end
      PROVE  \E q \in joined \cup {p} : leads(q, t)
    <2>1. t \in Int /\ lap.start < t /\ t <= whole.end
        BY DEF Later
    <2>2. CASE t <= lap.end
        <3>1. t \in lap.start + 1 .. lap.end
            BY <2>1, <2>2
        <3> QED
            BY <3>1 DEF Unbroken
    <2>3. CASE t > lap.end /\ t > LapPiece(g, p).start
        <3>1. t <= LapPiece(g, p).end
            BY <2>1, <2>3 DEF Later
        <3>2. leads(p, t)
            BY <1>1, <2>1, <2>3, <3>1
        <3> QED
            BY <3>2
    <2>4. CASE t > lap.end /\ t <= LapPiece(g, p).start
        <3>1. leads(e, t)
            BY <1>1, <1>2, <2>1, <2>4
        <3> QED
            BY <3>1
    <2> QED
        BY <2>1, <2>2, <2>3, <2>4
<1> QED
    BY <1>3, <1>4 DEF Unbroken

\* What an unbroken lap holds of its number follows another piece closely.
LEMMA UnbrokenBridges ==
    ASSUME NEW g, NEW lap, Unbroken(g, lap, LapPieces(g)), lap.start \in Int, lap.end \in Int,
           NEW p \in {LapPiece(g, x) : x \in LapPieces(g)},
           \A x \in LapPieces(g) : /\ LapPiece(g, x).start \in Int /\ LapPiece(g, x).end \in Int
                                   /\ LapPiece(g, x).start <= LapPiece(g, x).end,
           p.number = lap.number, Within(p, lap), p.start > lap.start
    PROVE  \E q \in {LapPiece(g, x) : x \in LapPieces(g)} \ {p} :
                /\ q.number = lap.number /\ lap.start <= q.start
                /\ q.start <= p.start /\ p.start <= q.end + MaxGap
<1>1. p.start \in lap.start + 1 .. lap.end /\ p.start \in Int
    <2>1. p.start \in Int /\ p.end \in Int /\ p.start <= p.end
        OBVIOUS
    <2> QED
        BY <2>1 DEF Within
<1>2. PICK x \in LapPieces(g) : /\ LapPiece(g, x).number = lap.number
                                /\ lap.start <= LapPiece(g, x).start /\ LapPiece(g, x).start < p.start
                                /\ p.start <= LapPiece(g, x).end + MaxGap
    BY <1>1 DEF Unbroken
<1>3. LapPiece(g, x) # p
    <2>1. ASSUME LapPiece(g, x) = p PROVE FALSE
        <3>1. LapPiece(g, x).start = p.start
            BY <2>1, Zenon
        <3> QED
            BY <1>1, <1>2, <3>1
    <2> QED
        BY <2>1
<1>4. LapPiece(g, x).start <= p.start
    BY <1>1, <1>2
<1> QED
    BY <1>2, <1>3, <1>4

\* A lap's piece that follows closely is part of it.
LEMMA JoinLapUnbroken ==
    ASSUME MergeInv, GapInv, NEW p, JoinLap(p)
    PROVE  \A lap \in Range(laps') : Unbroken(group, lap, joinedLaps')
<1> DEFINE n == Len(laps)
           piece == LapPiece(group, p)
           end == Later(laps[n].end, piece.end)
<1>1. TakeLap(p) /\ SameLap(piece) /\ Merging /\ p \in LapPieces(group) \ joinedLaps
    BY DEF JoinLap, TakeLap
<1>2. joinedLaps' = joinedLaps \cup {p} /\ joinedLaps \subseteq LapPieces(group)
    BY <1>1 DEF TakeLap, MergeInv, LapsTaken
<1>3. laps \in Seq(Laps) /\ n \in DOMAIN laps /\ Last(laps) = laps[n]
    BY <1>1 DEF MergeInv, LapsTaken, SameLap, Last
<1>4. laps[n].number = piece.number /\ piece.start <= laps[n].end + MaxGap
    BY <1>1, <1>3 DEF SameLap, CloseTo
<1>5. laps[n] \in Laps /\ laps[n].start \in Int /\ laps[n].end \in Int
    <2>1. laps[n] \in Laps
        BY <1>3
    <2> QED
        BY <2>1 DEF Laps
<1>6. laps[n].start <= piece.start
    BY <1>1, <1>3 DEF MergeInv, LapsTaken
<1>7. \A q \in LapPieces(group) : /\ LapPiece(group, q).start \in Int /\ LapPiece(group, q).end \in Int
                                  /\ LapPiece(group, q).start <= LapPiece(group, q).end
    BY <1>1, PiecesForward
<1>8. end \in Int
    BY <1>1, <1>5, <1>7 DEF Later
<1>9. PICK whole \in Laps : /\ laps' = [laps EXCEPT ![n] = whole]
                            /\ whole.number = laps[n].number
                            /\ whole.start = laps[n].start /\ whole.end = end
    <2> DEFINE w == [laps[n] EXCEPT !.end = end, !.duration = end - laps[n].start]
    <2>1. w \in Laps /\ w.number = laps[n].number /\ w.start = laps[n].start /\ w.end = end
        <3>1. end - laps[n].start \in Int
            BY <1>5, <1>8
        <3>2. laps[n] \in Laps /\ end \in Int
            BY <1>5, <1>8
        <3> HIDE DEF end
        <3> QED
            BY <3>1, <3>2, LapExtended, Zenon
    <2>2. laps' = [laps EXCEPT ![n] = w]
        BY <1>3 DEF JoinLap
    <2> QED
        BY <2>1, <2>2
<1>10. Unbroken(group, laps[n], joinedLaps)
    BY <1>3 DEF GapInv, Range
<1>11. Unbroken(group, whole, joinedLaps \cup {p})
    <2>1. \A q \in joinedLaps \cup {p} :
            /\ LapPiece(group, q).start \in Int /\ LapPiece(group, q).end \in Int
            /\ LapPiece(group, q).start <= LapPiece(group, q).end
        BY <1>1, <1>2, <1>7
    <2> QED
        BY <2>1, <1>4, <1>5, <1>6, <1>9, <1>10, JoinUnbroken
<1>12. ASSUME NEW i \in DOMAIN laps, i # n
       PROVE  Unbroken(group, laps[i], joinedLaps \cup {p})
    <2>1. Unbroken(group, laps[i], joinedLaps)
        BY DEF GapInv, Range
    <2> QED
        BY <2>1, MoreJoined
<1>13. DOMAIN laps' = DOMAIN laps /\ laps'[n] = whole /\ \A i \in DOMAIN laps : i # n => laps'[i] = laps[i]
    BY <1>3, <1>9
<1> QED
    BY <1>2, <1>11, <1>12, <1>13 DEF Range

\* A new lap is one piece.
LEMMA NewLapUnbroken ==
    ASSUME MergeInv, GapInv, NEW p, NewLap(p)
    PROVE  \A lap \in Range(laps') : Unbroken(group, lap, joinedLaps')
<1> DEFINE piece == LapPiece(group, p)
<1>1. TakeLap(p) /\ laps' = Append(laps, piece) /\ Merging /\ p \in LapPieces(group)
    BY DEF NewLap, TakeLap
<1>2. joinedLaps' = joinedLaps \cup {p}
    BY <1>1 DEF TakeLap
<1>3. piece.start \in Int /\ piece.end \in Int /\ piece.start <= piece.end
    BY <1>1, PiecesForward
<1>4. Unbroken(group, piece, joinedLaps \cup {p})
    <2>1. \A t \in piece.start + 1 .. piece.end : piece.start < t /\ t <= piece.end + MaxGap
        BY <1>3, SessionAssumption
    <2>2. piece.start <= piece.start
        BY <1>3
    <2> HIDE DEF piece
    <2>3. piece = LapPiece(group, p)
        BY DEF piece
    <2> QED
        BY <2>1, <2>2, <2>3 DEF Unbroken
<1>5. laps \in Seq(Laps) /\ piece \in Laps
    BY <1>1, TypedPieces DEF MergeInv, LapsTaken
<1>6. Range(laps') = Range(laps) \cup {piece}
    BY <1>1, <1>5 DEF Range
<1>7. \A lap \in Range(laps) : Unbroken(group, lap, joinedLaps \cup {p})
    BY MoreJoined DEF GapInv
<1> QED
    BY <1>2, <1>4, <1>6, <1>7

\* What is unbroken stays so while the group's pieces stay.
LEMMA KeptUnbroken ==
    ASSUME UNCHANGED <<metadata, groups, sessions>>,
           \A lap \in Range(laps') : Unbroken(group, lap, joinedLaps')
    PROVE  (\A lap \in Range(laps) : Unbroken(group, lap, joinedLaps))'
<1> SUFFICES ASSUME NEW lap \in Range(laps')
             PROVE  Unbroken(group, lap, joinedLaps)'
    OBVIOUS
<1>1. PICK joined : joined = joinedLaps'
    OBVIOUS
<1>2. Unbroken(group, lap, joined)
    BY <1>1
<1> QED
    BY <1>1, <1>2, KeptGroup DEF Unbroken

\* While pieces of laps are joined nothing else matters to the gaps.
LEMMA TakeLapGaps ==
    ASSUME GapInv, NEW p, TakeLap(p), \A lap \in Range(laps') : Unbroken(group, lap, joinedLaps')
    PROVE  GapInv'
<1>1. UNCHANGED <<metadata, groups, sessions>>
    BY DEF TakeLap
<1>2. LapsForward' /\ NoLapBridgesAGap'
    BY <1>1, KeptUnbridged DEF GapInv, LapsForward
<1> QED
    BY <1>1, <1>2, KeptUnbroken DEF GapInv

\* The laps of a session just closed are unbroken by all its pieces.
LEMMA CloseGaps ==
    ASSUME MergeInv, GapInv, CloseSession
    PROVE  GapInv'
<1>1. /\ Merging /\ joinedLaps = LapPieces(group)
      /\ UNCHANGED <<metadata, groups>> /\ laps' = <<>>
    BY DEF CloseSession
<1>2. PICK closed : /\ sessions' = Append(sessions, closed)
                    /\ closed.files = group /\ closed.laps = laps
    <2> DEFINE c == [files |-> group,
                     start |-> Base(group),
                     end |-> Max({metadata[i].end : i \in Range(group)}),
                     stints |-> stints, laps |-> laps, complete |-> Inner,
                     fastest |-> FastestLap]
    <2>1. sessions' = Append(sessions, c)
        BY DEF CloseSession
    <2>2. c.files = group /\ c.laps = laps
        OBVIOUS
    <2> QED
        BY <2>1, <2>2
<1>3. Range(sessions') = Range(sessions) \cup {closed}
    <2>1. sessions \in Seq(Range(sessions) \cup {closed})
        BY DEF MergeInv
    <2> QED
        BY <1>2, <2>1 DEF Range
<1> DEFINE bridged(g, list) ==
        LET pieces == {LapPiece(g, p) : p \in LapPieces(g)}
        IN  \A lap \in Range(list) : \A p \in pieces :
                p.number = lap.number /\ Within(p, lap) /\ p.start > lap.start
                => \E q \in pieces \ {p} :
                    /\ q.number = lap.number /\ lap.start <= q.start
                    /\ q.start <= p.start /\ p.start <= q.end + MaxGap
<1>4. bridged(group, laps)
    <2>1. \A x \in LapPieces(group) :
            /\ LapPiece(group, x).start \in Int /\ LapPiece(group, x).end \in Int
            /\ LapPiece(group, x).start <= LapPiece(group, x).end
        BY <1>1, PiecesForward
    <2>2. ASSUME NEW lap \in Range(laps)
          PROVE  lap.start \in Int /\ lap.end \in Int /\ Unbroken(group, lap, LapPieces(group))
        <3>1. lap \in Laps
            BY DEF MergeInv, LapsTaken, Range
        <3> QED
            BY <1>1, <3>1 DEF Laps, GapInv
    <2> QED
        BY <2>1, <2>2, UnbrokenBridges
<1>5. ASSUME NEW session \in Range(sessions)
      PROVE  bridged(session.files, session.laps)
    BY DEF GapInv, NoLapBridgesAGap
<1>6. NoLapBridgesAGap'
    <2> SUFFICES ASSUME NEW session \in Range(sessions')
                 PROVE  bridged(session.files, session.laps)'
        BY DEF NoLapBridgesAGap
    <2>1. bridged(session.files, session.laps)
        <3>1. CASE session \in Range(sessions)
            BY <3>1, <1>5
        <3>2. CASE session = closed
            BY <3>2, <1>2, <1>4
        <3> QED
            BY <3>1, <3>2, <1>3
    <2> QED
        BY <1>1, <2>1, KeptPieces
<1>7. LapsForward'
    BY <1>1 DEF GapInv, LapsForward
<1> QED
    BY <1>1, <1>6, <1>7 DEF GapInv, Range

\* Nothing is joined before all files are read and grouped.
LEMMA ReadGaps ==
    ASSUME MergeInv, GapInv, NEW recording \in Recordings, ReadFile(recording)
    PROVE  GapInv'
<1>1. sessions' = <<>> /\ laps' = <<>>
    BY DEF MergeInv, MergedAfter, ReadFile, Grouping, AllGrouped, merging
<1>2. metadata' = Append(metadata, Summary(recording)) /\ metadata \in Seq(FileMetadata)
    BY DEF ReadFile, MergeInv, MetadataTyped
<1>3. \A lap \in Range(Summary(recording).laps) : lap.start <= lap.end
    BY LapsAssumption DEF Summary
<1>4. LapsForward'
    <2>1. Summary(recording) \in FileMetadata
        BY SummaryAssumption
    <2>2. \A i \in DOMAIN metadata' : \/ i \in DOMAIN metadata /\ metadata'[i] = metadata[i]
                                      \/ metadata'[i] = Summary(recording)
        BY <1>2, <2>1
    <2> QED
        BY <1>3, <2>2 DEF GapInv, LapsForward
<1> QED
    BY <1>1, <1>4 DEF GapInv, NoLapBridgesAGap, Range

\* Files are grouped and stints joined without touching a lap.
LEMMA OtherGaps ==
    ASSUME GapInv, UNCHANGED <<metadata, groups, sessions, joinedLaps, laps>>
    PROVE  GapInv'
<1>1. LapsForward' /\ NoLapBridgesAGap'
    BY KeptUnbridged DEF GapInv, LapsForward
<1> QED
    BY <1>1, KeptUnbroken DEF GapInv

LEMMA GroupGaps ==
    ASSUME MergeInv, GapInv, NEW i \in waiting, ContinueSession(i) \/ StartSession(i)
    PROVE  GapInv'
<1>1. UNCHANGED <<metadata, sessions, laps>> /\ laps = <<>>
    BY DEF ContinueSession, StartSession, Group, AllGrouped, MergeInv, MergedAfter, merging
<1>2. LapsForward' /\ NoLapBridgesAGap'
    BY <1>1, KeptUnbridged DEF GapInv, LapsForward
<1> QED
    BY <1>1, <1>2 DEF GapInv, Range

LEMMA InitGaps == Init => GapInv
BY DEF Init, GapInv, LapsForward, NoLapBridgesAGap, Range

LEMMA StepGaps == MergeInv /\ GapInv /\ [Next]_vars => GapInv'
<1> SUFFICES ASSUME MergeInv, GapInv, [Next]_vars PROVE GapInv'
    OBVIOUS
<1>1. ASSUME NEW recording \in Recordings, ReadFile(recording) PROVE GapInv'
    BY <1>1, ReadGaps
<1>2. ASSUME NEW i \in waiting, ContinueSession(i) \/ StartSession(i) PROVE GapInv'
    BY <1>2, GroupGaps
<1>3. ASSUME NEW p, JoinStint(p) \/ NewStint(p) PROVE GapInv'
    BY <1>3, OtherGaps DEF JoinStint, NewStint, TakeStint
<1>4. ASSUME NEW p, JoinLap(p) PROVE GapInv'
    <2>1. TakeLap(p)
        BY <1>4 DEF JoinLap
    <2> QED
        BY <1>4, <2>1, JoinLapUnbroken, TakeLapGaps
<1>5. ASSUME NEW p, NewLap(p) PROVE GapInv'
    <2>1. TakeLap(p)
        BY <1>5 DEF NewLap
    <2> QED
        BY <1>5, <2>1, NewLapUnbroken, TakeLapGaps
<1>6. ASSUME CloseSession PROVE GapInv'
    BY <1>6, CloseGaps
<1>7. ASSUME UNCHANGED vars PROVE GapInv'
    BY <1>7, OtherGaps DEF vars
<1> QED
    BY <1>1, <1>2, <1>3, <1>4, <1>5, <1>6, <1>7 DEF Next

(* Whatever files a session joins, no lap of it runs across a stretch      *)
(* longer than the gap in which no file recorded it: open_sessions joins   *)
(* laps across files and preserves real gaps.                              *)
THEOREM GapsPreserved == Spec => []NoLapBridgesAGap
<1>1. Init => MergeInv /\ GapInv
    BY InitMerge, InitGaps
<1>2. MergeInv /\ GapInv /\ [Next]_vars => (MergeInv /\ GapInv)'
    BY StepMerge, StepGaps
<1>3. MergeInv /\ GapInv => NoLapBridgesAGap
    BY DEF GapInv
<1> QED
    BY <1>1, <1>2, <1>3, PTL DEF Spec
-----------------------------------------------------------------------------
(* The metadata of a file is what was derived from it when it was read. *)
ReadInv ==
    /\ metadata \in Seq(FileMetadata)
    /\ files \in Seq(Recordings)
    /\ DOMAIN metadata = DOMAIN files
    /\ \A i \in DOMAIN metadata : metadata[i] = Summary(files[i])

LEMMA SameLength ==
    ASSUME NEW m \in Nat, NEW n \in Nat, 1 .. m = 1 .. n
    PROVE  m = n
<1>1. m # 0 => m \in 1 .. n
    <2>1. m # 0 => m \in 1 .. m
        OBVIOUS
    <2> QED
        BY <2>1, Zenon
<1>2. n # 0 => n \in 1 .. m
    <2>1. n # 0 => n \in 1 .. n
        OBVIOUS
    <2> QED
        BY <2>1, Zenon
<1> QED
    BY <1>1, <1>2

LEMMA InitRead == Init => ReadInv
<1> SUFFICES ASSUME Init PROVE ReadInv
    OBVIOUS
<1>1. files = <<>> /\ metadata = <<>>
    BY DEF Init
<1>2. DOMAIN files = {} /\ DOMAIN metadata = {}
    BY <1>1
<1> QED
    BY <1>1, <1>2 DEF ReadInv

LEMMA StepRead == ReadInv /\ [Next]_vars => ReadInv'
<1> SUFFICES ASSUME ReadInv, [Next]_vars PROVE ReadInv'
    OBVIOUS
<1>1. ASSUME NEW recording \in Recordings, ReadFile(recording) PROVE ReadInv'
    <2> DEFINE m == Summary(recording)
    <2>1. files' = Append(files, recording) /\ metadata' = Append(metadata, m)
        BY <1>1 DEF ReadFile
    <2>2. m \in FileMetadata
        BY SummaryAssumption
    <2> HIDE DEF m
    <2>3. metadata \in Seq(FileMetadata) /\ files \in Seq(Recordings)
        BY DEF ReadInv
    <2>4. /\ metadata' \in Seq(FileMetadata) /\ Len(metadata') = Len(metadata) + 1
          /\ \A i \in 1 .. Len(metadata) : metadata'[i] = metadata[i]
          /\ metadata'[Len(metadata) + 1] = m
        BY <2>1, <2>2, <2>3
    <2>5. /\ files' \in Seq(Recordings) /\ Len(files') = Len(files) + 1
          /\ \A i \in 1 .. Len(files) : files'[i] = files[i]
          /\ files'[Len(files) + 1] = recording
        BY <2>1, <2>3
    <2>6. DOMAIN metadata = 1 .. Len(metadata) /\ DOMAIN files = 1 .. Len(files)
          /\ Len(metadata) \in Nat /\ Len(files) \in Nat
        BY <2>3
    <2>7. Len(metadata) = Len(files)
        <3>1. 1 .. Len(metadata) = 1 .. Len(files)
            BY <2>6, Zenon DEF ReadInv
        <3> QED
            BY <2>6, <3>1, SameLength
    <2>8. DOMAIN metadata' = 1 .. (Len(metadata) + 1) /\ DOMAIN files' = 1 .. (Len(metadata) + 1)
        BY <2>4, <2>5, <2>7
    <2>9. ASSUME NEW i \in DOMAIN metadata' PROVE metadata'[i] = Summary(files'[i])
        <3>1. CASE i = Len(metadata) + 1
            BY <3>1, <2>4, <2>5, <2>7 DEF m
        <3>2. CASE i # Len(metadata) + 1
            <4>1. i \in 1 .. Len(metadata)
                BY <3>2, <2>6, <2>8
            <4>2. metadata'[i] = metadata[i] /\ files'[i] = files[i]
                BY <4>1, <2>4, <2>5, <2>7
            <4>3. metadata[i] = Summary(files[i])
                BY <4>1, <2>6 DEF ReadInv
            <4> QED
                BY <4>2, <4>3
        <3> QED
            BY <3>1, <3>2
    <2> QED
        BY <2>4, <2>5, <2>8, <2>9 DEF ReadInv
<1>2. ASSUME UNCHANGED <<files, metadata>> PROVE ReadInv'
    BY <1>2 DEF ReadInv
<1>3. ASSUME NEW i \in waiting, ContinueSession(i) \/ StartSession(i) PROVE ReadInv'
    BY <1>3, <1>2 DEF ContinueSession, StartSession, Group
<1>4. ASSUME NEW p, JoinStint(p) \/ NewStint(p) PROVE ReadInv'
    BY <1>4, <1>2 DEF JoinStint, NewStint, TakeStint
<1>5. ASSUME NEW p, JoinLap(p) \/ NewLap(p) PROVE ReadInv'
    BY <1>5, <1>2 DEF JoinLap, NewLap, TakeLap
<1>6. ASSUME CloseSession PROVE ReadInv'
    BY <1>6, <1>2 DEF CloseSession
<1>7. ASSUME UNCHANGED vars PROVE ReadInv'
    BY <1>7, <1>2 DEF vars
<1> QED
    BY <1>1, <1>3, <1>4, <1>5, <1>6, <1>7 DEF Next

\* Two weeks cannot both be reported by more than half of the samples.
LEMMA MostAgree ==
    ASSUME NEW n \in Nat, NEW S \in SUBSET (1 .. n), NEW T \in SUBSET (1 .. n), S \cap T = {},
           2 * Cardinality(S) > n
    PROVE  Cardinality(T) < Cardinality(S)
<1>1. IsFiniteSet(1 .. n) /\ Cardinality(1 .. n) = n
    BY FS_Interval
<1>2. IsFiniteSet(S) /\ IsFiniteSet(T)
    BY <1>1, FS_Subset
<1>3. Cardinality(S \cup T) = Cardinality(S) + Cardinality(T) - Cardinality(S \cap T)
    BY <1>2, FS_Union
<1>4. Cardinality(S \cap T) = 0
    BY FS_EmptySet
<1>5. S \cup T \in SUBSET (1 .. n)
    OBVIOUS
<1>6. Cardinality(S \cup T) <= n
    BY <1>1, <1>5, FS_Subset
<1>7. Cardinality(S) \in Nat /\ Cardinality(T) \in Nat
    BY <1>2, FS_CardinalityType
<1> QED
    BY <1>3, <1>4, <1>6, <1>7

LEMMA ElementIn ==
    ASSUME NEW T, NEW s \in Seq(T), NEW k \in DOMAIN s
    PROVE  s[k] \in T
OBVIOUS

\* The week that dates the recording is the one the samples agree on.
LEMMA MostIsDominant ==
    ASSUME NEW channel, Readings(channel) \in Seq([at : Int, value : Int]),
           NEW w \in {Readings(channel)[i].value : i \in DOMAIN Readings(channel)},
           2 * Cardinality({i \in DOMAIN Readings(channel) : Readings(channel)[i].value = w})
                > Len(Readings(channel))
    PROVE  DominantWeek(channel) = w
<1> DEFINE seen == Readings(channel)
           n == Len(seen)
           Values == {seen[i].value : i \in DOMAIN seen}
           Held(v) == {i \in DOMAIN seen : seen[i].value = v}
           Weight(v) == <<Cardinality(Held(v)), Max(Held(v))>>
           Heaviest(v) == \A u \in Values : ~LexLess(Weight(v), Weight(u))
<1>1. DominantWeek(channel) = CHOOSE v \in Values : Heaviest(v)
    BY DEF DominantWeek
<1>2. n \in Nat /\ DOMAIN seen = 1 .. n
    BY SMT
<1>3. \A v : Held(v) \in SUBSET (1 .. n)
    BY <1>2
<1>4. 2 * Cardinality(Held(w)) > n
    OBVIOUS
<1>5. w \in Values
    OBVIOUS
<1>6. \A u, v : u # v => Held(u) \cap Held(v) = {}
    OBVIOUS
<1> HIDE DEF seen, n, Values, Held
<1>7. \A v \in Values : v # w => Cardinality(Held(v)) < Cardinality(Held(w))
    BY <1>2, <1>3, <1>4, <1>6, MostAgree
<1>8. \A v : Cardinality(Held(v)) \in Nat
    <2> TAKE v
    <2>1. n \in Int /\ 1 \in Int
        BY <1>2
    <2>2. IsFiniteSet(1 .. n)
        BY <2>1, FS_Interval
    <2> QED
        BY <1>3, <2>2, FS_Subset, FS_CardinalityType
<1>9. Heaviest(w)
    <2> SUFFICES ASSUME NEW u \in Values, LexLess(Weight(w), Weight(u)) PROVE FALSE
        BY DEF Heaviest
    <2>1. DOMAIN Weight(w) = 1 .. 2 /\ Weight(w)[1] = Cardinality(Held(w)) /\ Weight(u)[1] = Cardinality(Held(u))
        OBVIOUS
    <2>2. u # w => Cardinality(Held(u)) < Cardinality(Held(w))
        BY <1>7
    <2>3. PICK k \in 1 .. 2 : Weight(w)[k] < Weight(u)[k] /\ \A j \in 1 .. k - 1 : Weight(w)[j] = Weight(u)[j]
        BY <2>1 DEF LexLess
    <2>4. ~(Weight(w)[1] < Weight(u)[1])
        BY <2>1, <2>2, <1>8
    <2>5. k = 2
        BY <2>3, <2>4
    <2>6. 1 \in 1 .. k - 1
        BY <2>5
    <2>7. Weight(w)[1] = Weight(u)[1]
        BY <2>3, <2>6
    <2>8. Cardinality(Held(w)) = Cardinality(Held(u))
        BY <2>1, <2>7
    <2>9. u = w
        BY <2>2, <2>8, <1>8
    <2>10. Max(Held(w)) \in Nat
        <3>1. Held(w) # {} /\ Held(w) \in SUBSET (0 .. n)
            <4>1. Held(w) \in SUBSET (1 .. n)
                BY <1>3
            <4>2. 1 .. n \subseteq 0 .. n
                BY <1>2
            <4>3. PICK i \in DOMAIN seen : w = seen[i].value
                BY <1>5 DEF Values
            <4> QED
                BY <4>1, <4>2, <4>3 DEF Held
        <3>2. Max(Held(w)) \in Held(w)
            BY <3>1, <1>2, MaxIs
        <3>3. Held(w) \in SUBSET Nat
            BY <3>1
        <3> QED
            BY <3>2, <3>3
    <2>11. Weight(w)[2] = Max(Held(w)) /\ Weight(u)[2] = Max(Held(w))
        BY <2>9
    <2> QED
        BY <2>3, <2>5, <2>10, <2>11
<1>10. ASSUME NEW v \in Values, Heaviest(v) PROVE v = w
    <2> SUFFICES ASSUME v # w PROVE FALSE
        OBVIOUS
    <2>1. Weight(v)[1] < Weight(w)[1] /\ DOMAIN Weight(v) = 1 .. 2
        BY <1>7
    <2> HIDE DEF Weight
    <2>2. 1 \in DOMAIN Weight(v) /\ \A j \in 1 .. 1 - 1 : Weight(v)[j] = Weight(w)[j]
        BY <2>1
    <2>3. LexLess(Weight(v), Weight(w))
        BY <2>1, <2>2, Zenon DEF LexLess
    <2> QED
        BY <1>5, <1>10, <2>3 DEF Heaviest
<1> HIDE DEF Heaviest
<1> QED
    BY <1>1, <1>5, <1>9, <1>10

LEMMA TrueWeekDates ==
    ASSUME ReadInv, NEW i \in DOMAIN metadata, GpsFile(i), Synchronises(files[i])
    PROVE  metadata[i].offset = files[i].truth
<1> DEFINE file == files[i]
           first == Head(file.itow)
<1>1. metadata[i].offset = DeriveClock(file).offset
    BY DEF ReadInv, Summary
<1>2. DeriveClock(file) = GpsClock(file)
    BY DEF GpsFile, DeriveClock
<1>3. GpsClock(file).offset = (DominantWeek(file.week) * Week + first.value) - first.at
    BY DEF GpsClock
<1> HIDE DEF file, first
<1>4. PICK week \in {Readings(file.week)[k].value : k \in DOMAIN Readings(file.week)} :
          /\ file.truth + first.at = week * Week + first.value
          /\ 2 * Cardinality({k \in DOMAIN Readings(file.week) : Readings(file.week)[k].value = week})
                > Len(Readings(file.week))
    BY DEF Synchronises, file, first
<1>5. Readings(file.week) \in Seq([at : Int, value : Int])
    BY DEF Synchronises, file
<1>6. DominantWeek(file.week) = week
    BY <1>4, <1>5, MostIsDominant
<1>7. file.truth \in Int /\ first.at \in Int /\ first.value \in Int
    BY DEF Synchronises, file, first
<1>8. week * Week \in Int
    <2>1. PICK k \in DOMAIN Readings(file.week) : week = Readings(file.week)[k].value
        OBVIOUS
    <2>2. Readings(file.week)[k] \in [at : Int, value : Int]
        BY <1>5, <2>1, ElementIn
    <2>3. week \in Int
        BY <2>1, <2>2
    <2>4. Week \in Nat
        BY ClockAssumption
    <2> QED
        BY <2>3, <2>4
<1> DEFINE begin == week * Week
<1>9. GpsClock(file).offset = (begin + first.value) - first.at /\ file.truth + first.at = begin + first.value
    BY <1>3, <1>4, <1>6
<1> HIDE DEF begin
<1>10. GpsClock(file).offset = file.truth
    BY <1>7, <1>8, <1>9 DEF begin
<1> QED
    BY <1>1, <1>2, <1>10 DEF file

(* A file dated by GPS begins when it truly began, if the receiver knew    *)
(* its week in more than half of the samples, wherever among them it did   *)
(* not (derive_clock counts weeks instead of taking the first).            *)
THEOREM ColdStartHolds ==
    ASSUME \A r \in Recordings : r.range = <<>> /\ GpsDated(r) /\ OneWeek(r) => Synchronises(r)
    PROVE  Spec => []ColdStartIgnored
<1>1. ReadInv => ColdStartIgnored
    <2> SUFFICES ASSUME ReadInv, NEW i \in DOMAIN metadata, GpsFile(i), OneWeek(files[i])
                 PROVE  metadata[i].offset = files[i].truth
        BY DEF ColdStartIgnored
    <2>1. files[i] \in Recordings
        BY DEF ReadInv
    <2>2. Synchronises(files[i])
        BY <2>1 DEF GpsFile
    <2> QED
        BY <2>2, TrueWeekDates
<1> QED
    BY InitRead, StepRead, <1>1, PTL DEF Spec

=============================================================================
