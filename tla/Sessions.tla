------------------------------ MODULE Sessions ------------------------------
(***************************************************************************)
(* open_sessions: every file is read, the files are grouped into sessions  *)
(* by key and clock (group_sessions), and per session the driver stints    *)
(* and laps of its files are translated to session time and joined across  *)
(* file boundaries.  Position is the lookup of a session time.             *)
(*                                                                         *)
(* A sort is modelled by taking the least of what is left: the code's      *)
(* sorts are stable, so the position before the sort breaks ties.          *)
(***************************************************************************)
EXTENDS Clocks

CONSTANTS
  Recordings,     \* the files a caller may open
  MaxFiles,       \* bound on how many at once
  MaxGap,         \* max_gap_ns
  ShortestLap     \* 10 s, below which no inferred lap is the fastest

ASSUME SessionAssumption ==
    {MaxFiles, MaxGap, ShortestLap} \subseteq Nat

VARIABLES
  files,          \* the recordings opened so far, in the caller's order
  metadata,       \* FileMetadata of the files read so far
  waiting,        \* indexes of files not grouped yet
  groups,         \* sequences of indexes
  sessions,       \* SessionMetadata of the groups merged so far
  joinedStints,   \* of the group being merged: what the loops have consumed
  joinedLaps,
  stints,         \* and what they have produced
  laps

vars == <<files, metadata, waiting, groups, sessions,
          joinedStints, joinedLaps, stints, laps>>

merging == <<sessions, joinedStints, joinedLaps, stints, laps>>

NoLap == [number |-> 0, stintLap |-> 0, start |-> 0, end |-> 0, duration |-> 0]

Saturating(a, b) == IF a > b THEN a - b ELSE 0

-----------------------------------------------------------------------------

Summary(file) ==
    LET clock == DeriveClock(file)
    IN  [key |-> clock.key, start |-> clock.start, end |-> clock.end,
         offset |-> clock.offset, duration |-> file.duration,
         stints |-> DriverStints(file.driver, file.duration),
         laps |-> file.laps, fastest |-> file.fastest]

Stints == [driver : Int, start : Int, end : Int]

Laps == [number : Int, stintLap : Int, start : Int, end : Int, duration : Int]

FileMetadata ==
    [key : Seq(Int), start : Nat, end : Int, offset : Int, duration : Int,
     stints : Seq(Stints), laps : Seq(Laps), fastest : Laps]

ASSUME SummaryAssumption == \A recording \in Recordings : Summary(recording) \in FileMetadata

\* Readers drop a lap that is empty or runs backwards.
ASSUME LapsAssumption ==
    \A recording \in Recordings : \A lap \in Range(recording.laps) : lap.start <= lap.end

Keyed(i) == metadata[i].key # NoKey

Grouping == groups # <<>>
AllGrouped == Grouping /\ waiting = {}
Done == AllGrouped /\ Len(sessions) = Len(groups)

ReadFile(recording) ==
    /\ ~Grouping
    /\ Len(files) < MaxFiles
    /\ files' = Append(files, recording)
    /\ metadata' = Append(metadata, Summary(recording))
    /\ waiting' = waiting \cup {Len(files) + 1}
    /\ UNCHANGED <<groups, merging>>

SortKey(i) == metadata[i].key \o <<metadata[i].start, i>>

IsNext(i) == \A j \in waiting \ {i} : LexLess(SortKey(i), SortKey(j))

\* The file belongs to the session whose last file it follows closely.
JoinsPrevious(i) ==
    /\ groups # <<>>
    /\ Keyed(i)
    /\ LET previous == metadata[Last(Last(groups))]
       IN  /\ previous.key = metadata[i].key
           /\ metadata[i].start <= previous.end + MaxGap

Group(i) ==
    /\ i \in waiting
    /\ IsNext(i)
    /\ waiting' = waiting \ {i}
    /\ UNCHANGED <<files, metadata, merging>>

\* Wrong: a file that goes on with a session also starts one.
ContinueAndStart(i) ==
    /\ Group(i)
    /\ JoinsPrevious(i)
    /\ groups' = Append([groups EXCEPT ![Len(groups)] = Append(@, i)], <<i>>)

ContinueSession(i) ==
    /\ Group(i)
    /\ JoinsPrevious(i)
    /\ groups' = [groups EXCEPT ![Len(groups)] = Append(@, i)]

StartSession(i) ==
    /\ Group(i)
    /\ ~JoinsPrevious(i)
    /\ groups' = Append(groups, <<i>>)

-----------------------------------------------------------------------------

Merging == AllGrouped /\ ~Done

group == groups[Len(sessions) + 1]

\* absolute_start_ns of the files of g, 0 without a clock.
Base(g) == Min({metadata[i].start : i \in Range(g)})

\* An instant of a file of g (absolute_time), seen from the session's start.
SessionTime(g, i, at) == Saturating(at + metadata[i].offset, Base(g))

(* The pieces to be joined: a file of the group and an entry of its list.  *)
(* Files without a clock contribute none.                                  *)
PiecesOf(g, list(_)) ==
    UNION {{k} \X DOMAIN list(g[k]) : k \in {k \in DOMAIN g : Keyed(g[k])}}

StintPieces(g) == PiecesOf(g, LAMBDA i : metadata[i].stints)
LapPieces(g) == PiecesOf(g, LAMBDA i : metadata[i].laps)

StintPiece(g, p) ==
    LET i == g[p[1]]
        stint == metadata[i].stints[p[2]]
    IN  [driver |-> stint.driver,
         start |-> SessionTime(g, i, stint.start),
         end |-> SessionTime(g, i, stint.end)]

LapPiece(g, p) ==
    LET i == g[p[1]]
        lap == metadata[i].laps[p[2]]
    IN  [number |-> lap.number, stintLap |-> lap.stintLap,
         start |-> SessionTime(g, i, lap.start),
         end |-> SessionTime(g, i, lap.end),
         duration |-> lap.end - lap.start]

IsLeast(p, pieces, start(_)) ==
    \A q \in pieces \ {p} : LexLess(<<start(p)>> \o p, <<start(q)>> \o q)

CloseTo(list, piece) == piece.start <= Last(list).end + MaxGap

SameStint(piece) ==
    /\ stints # <<>>
    /\ Last(stints).driver = piece.driver
    /\ CloseTo(stints, piece)

\* Wrong: a lap goes on in the next file however long that took to start.
SameNumber(piece) == laps # <<>> /\ Last(laps).number = piece.number

SameLap(piece) ==
    /\ laps # <<>>
    /\ Last(laps).number = piece.number
    /\ CloseTo(laps, piece)

\* Wrong: the piece joined last ends the whole.
LastGiven(a, b) == b

Later(a, b) == IF b > a THEN b ELSE a

TakeStint(p) ==
    /\ Merging
    /\ p \in StintPieces(group) \ joinedStints
    /\ IsLeast(p, StintPieces(group) \ joinedStints, LAMBDA q : StintPiece(group, q).start)
    /\ joinedStints' = joinedStints \cup {p}
    /\ UNCHANGED <<files, metadata, waiting, groups, sessions, joinedLaps, laps>>

JoinStint(p) ==
    /\ TakeStint(p)
    /\ SameStint(StintPiece(group, p))
    /\ stints' = [stints EXCEPT ![Len(stints)].end = Later(@, StintPiece(group, p).end)]

NewStint(p) ==
    /\ TakeStint(p)
    /\ ~SameStint(StintPiece(group, p))
    /\ stints' = Append(stints, StintPiece(group, p))

TakeLap(p) ==
    /\ Merging
    /\ joinedStints = StintPieces(group)
    /\ p \in LapPieces(group) \ joinedLaps
    /\ IsLeast(p, LapPieces(group) \ joinedLaps, LAMBDA q : LapPiece(group, q).start)
    /\ joinedLaps' = joinedLaps \cup {p}
    /\ UNCHANGED <<files, metadata, waiting, groups, sessions, joinedStints, stints>>

JoinLap(p) ==
    /\ TakeLap(p)
    /\ SameLap(LapPiece(group, p))
    /\ LET previous == Last(laps)
           end == Later(previous.end, LapPiece(group, p).end)
       IN  laps' = [laps EXCEPT ![Len(laps)] =
                [previous EXCEPT !.end = end, !.duration = end - previous.start]]

NewLap(p) ==
    /\ TakeLap(p)
    /\ ~SameLap(LapPiece(group, p))
    /\ laps' = Append(laps, LapPiece(group, p))

\* Every lap but the first and the last counts as complete.
Inner == {l \in DOMAIN laps : 1 < l /\ l < Len(laps)}

Quickest(candidates, duration(_)) ==
    CHOOSE c \in candidates :
        \A d \in candidates \ {c} : LexLess(<<duration(c), c>>, <<duration(d), d>>)

(* The fastest lap one of the files reports, as the file reports it, else  *)
(* the shortest inner lap.                                                 *)
FastestLap ==
    LET reported == {k \in DOMAIN group : metadata[group[k]].fastest # NoLap}
        inferred == {l \in Inner : laps[l].duration >= ShortestLap}
    IN  IF reported # {}
        THEN metadata[group[Quickest(reported, LAMBDA k : metadata[group[k]].fastest.duration)]].fastest
        ELSE IF inferred # {}
        THEN laps[Quickest(inferred, LAMBDA l : laps[l].duration)]
        ELSE NoLap

CloseSession ==
    /\ Merging
    /\ joinedStints = StintPieces(group)
    /\ joinedLaps = LapPieces(group)
    /\ sessions' = Append(sessions,
            [files |-> group,
             start |-> Base(group),
             end |-> Max({metadata[i].end : i \in Range(group)}),
             stints |-> stints, laps |-> laps, complete |-> Inner,
             fastest |-> FastestLap])
    /\ joinedStints' = {} /\ joinedLaps' = {}
    /\ stints' = <<>> /\ laps' = <<>>
    /\ UNCHANGED <<files, metadata, waiting, groups>>

-----------------------------------------------------------------------------

Init ==
    /\ files = <<>> /\ metadata = <<>>
    /\ waiting = {}
    /\ groups = <<>> /\ sessions = <<>>
    /\ joinedStints = {} /\ joinedLaps = {}
    /\ stints = <<>> /\ laps = <<>>

Next ==
    \/ \E recording \in Recordings : ReadFile(recording)
    \/ \E i \in waiting : ContinueSession(i) \/ StartSession(i)
    \/ Merging /\ \E p \in StintPieces(group) : JoinStint(p) \/ NewStint(p)
    \/ Merging /\ \E p \in LapPieces(group) : JoinLap(p) \/ NewLap(p)
    \/ CloseSession

Spec == Init /\ [][Next]_vars

-----------------------------------------------------------------------------
(* TelemetrySession::position: the files are asked in session order, and a *)
(* file whose time 0 lies before the session's start ends the search.      *)

NoPosition == [file |-> 0, at |-> 0]

Position(session, t) ==
    LET Of(k) == metadata[session.files[k]]
        Unplaced(k) == Of(k).key = NoKey \/ Of(k).offset < session.start
        Covers(k) == LET offset == Of(k).offset - session.start
                     IN  offset <= t /\ t < offset + Of(k).duration
        stop == {k \in DOMAIN session.files : Unplaced(k) \/ Covers(k)}
    IN  IF stop = {} \/ Unplaced(Min(stop)) THEN NoPosition
        ELSE [file |-> session.files[Min(stop)],
              at |-> t - (Of(Min(stop)).offset - session.start)]

-----------------------------------------------------------------------------
(* Properties                                                              *)

(* Every file is in exactly one session: open_sessions takes each file out *)
(* of its slot once and calls anything else an invalid session grouping.   *)
GroupedOnce ==
    /\ \A g, h \in DOMAIN groups : \A k \in DOMAIN groups[g], m \in DOMAIN groups[h] :
            groups[g][k] = groups[h][m] => g = h /\ k = m
    /\ waiting = DOMAIN files \ UNION {Range(groups[g]) : g \in DOMAIN groups}

Within(p, whole) == whole.start <= p.start /\ p.end <= whole.end

(* No lap of a session runs across a stretch longer than the gap in which  *)
(* no file recorded it: each piece of it but the first follows another     *)
(* closely ("preserving real gaps").                                       *)
NoLapBridgesAGap ==
    \A session \in Range(sessions) :
        LET g == session.files
            pieces == {LapPiece(g, p) : p \in LapPieces(g)}
        IN  \A lap \in Range(session.laps) : \A p \in pieces :
                p.number = lap.number /\ Within(p, lap) /\ p.start > lap.start
                => \E q \in pieces \ {p} :
                    /\ q.number = lap.number /\ lap.start <= q.start
                    /\ q.start <= p.start /\ p.start <= q.end + MaxGap

(* Nothing a file recorded of a lap or a stint is lost: its time lies in a *)
(* lap of that number, or a stint of that driver, of the session.          *)
PiecesCovered ==
    \A session \in Range(sessions) :
        LET g == session.files
        IN  /\ \A p \in LapPieces(g) : \E lap \in Range(session.laps) :
                    lap.number = LapPiece(g, p).number /\ Within(LapPiece(g, p), lap)
            /\ \A p \in StintPieces(g) : \E stint \in Range(session.stints) :
                    stint.driver = StintPiece(g, p).driver /\ Within(StintPiece(g, p), stint)

GpsFile(i) == files[i].range = <<>> /\ GpsDated(files[i])

OneWeek(file) == \A s, t \in Range(file.itow) : s.at <= t.at => s.value <= t.value

(* More than half of a recording's weeks are the one that dates its first  *)
(* time of week rightly: the receiver was cold only for its first seconds. *)
Synchronises(file) ==
    LET seen == Readings(file.week)
        first == Head(file.itow)
    IN  /\ seen \in Seq([at : Int, value : Int])
        /\ {file.truth, first.at, first.value} \subseteq Int
        /\ \E week \in {seen[i].value : i \in DOMAIN seen} :
              /\ file.truth + first.at = week * Week + first.value
              /\ 2 * Cardinality({i \in DOMAIN seen : seen[i].value = week}) > Len(seen)

(* A receiver that reports a stale week for its first seconds still dates  *)
(* the recording right (truth is the time at which it began).              *)
ColdStartIgnored ==
    \A i \in DOMAIN metadata :
        GpsFile(i) /\ OneWeek(files[i]) => metadata[i].offset = files[i].truth

(* A session time at which a file recorded is found, whatever other files  *)
(* the session has.                                                        *)
RecordedTimeIsFound ==
    \A session \in Range(sessions) : \A k \in DOMAIN session.files :
        LET file == metadata[session.files[k]]
        IN  file.key # NoKey =>
            \A at \in 0 .. file.duration - 1 :
                LET t == at + file.offset - session.start
                IN  t >= 0 => Position(session, t) # NoPosition

=============================================================================
