----------------------------- MODULE LapContract -----------------------------
(***************************************************************************)
(* What lap recovery promises its readers, with no counters, samples or    *)
(* sensors in sight: the contract of specs/laps/LapState.tla and the table *)
(* of specs/laps/README.md.  Activity is cut into intervals that tile the  *)
(* recording.  A flying interval spans two consecutive anchors; whatever   *)
(* else ends an interval clears the anchor, and so does nothing but an     *)
(* accepted crossing set it.                                               *)
(***************************************************************************)
EXTENDS Integers, Sequences

VARIABLES
  intervals,  \* closed intervals, [start, end, kind]
  from,       \* start of the open interval, or NoTime
  anchored,   \* the open interval starts at an accepted crossing
  ended

cvars == <<intervals, from, anchored, ended>>

NoStart == -1

Init ==
    /\ intervals = <<>>
    /\ from = NoStart
    /\ anchored = FALSE
    /\ ended = FALSE

Fresh == SubSeq(intervals', Len(intervals) + 1, Len(intervals'))

\* At most `most` intervals are appended; they fill [from, until] without
\* gaps, and what was there stays.
Appends(most, until) ==
    /\ Len(intervals') - Len(intervals) \in 0 .. most
    /\ \A i \in 1 .. Len(intervals) : intervals'[i] = intervals[i]
    /\ Fresh = <<>> => until = from
    /\ \A i \in 1 .. Len(Fresh) :
          /\ Fresh[i].start < Fresh[i].end
          /\ Fresh[i].start = IF i = 1 THEN from ELSE Fresh[i - 1].end
          /\ i = Len(Fresh) => Fresh[i].end = until

NoFlying == \A i \in 1 .. Len(Fresh) : Fresh[i].kind # "flying"

Running == from # NoStart /\ ~ended /\ ~ended' /\ from' >= from

\* The first interval opens, unanchored.
Begin ==
    /\ from = NoStart
    /\ from' # NoStart
    /\ ~anchored'
    /\ UNCHANGED <<intervals, ended>>

\* A crossing after a crossing: the only way a flying interval comes about.
CompleteLap ==
    /\ Running
    /\ anchored /\ anchored'
    /\ Appends(1, from')
    /\ Len(Fresh) = 1
    /\ Fresh[1].kind = "flying"

\* A first crossing, alone or together with the departure before it.
EstablishAnchor ==
    /\ Running
    /\ ~anchored /\ anchored'
    /\ Appends(2, from')
    /\ NoFlying

\* A reset, track stop, pit entry, pit exit or departure.
ClearAnchor ==
    /\ Running
    /\ ~anchored'
    /\ Appends(2, from')
    /\ NoFlying

\* The last crossing turns out to be the dash closing the lap in the pit
\* box: its anchor is withdrawn and the interval before it takes over.
WithdrawAnchor ==
    /\ Running
    /\ anchored /\ ~anchored'
    /\ Len(intervals') = Len(intervals)
    /\ \A i \in 1 .. (Len(intervals) - 1) : intervals'[i] = intervals[i]
    /\ LET last == Len(intervals)
       IN  /\ last > 0
           /\ intervals[last].end = from
           /\ intervals'[last].start = intervals[last].start
           /\ intervals'[last].end = from'
           /\ intervals'[last].kind # "flying"

\* The recording ends; a tail is never flying.
End ==
    /\ ~ended /\ ended'
    /\ UNCHANGED <<from, anchored>>
    /\ IF from = NoStart
       THEN UNCHANGED intervals
       ELSE /\ Appends(1, intervals'[Len(intervals')].end) \/ UNCHANGED intervals
            /\ NoFlying

Next ==
    \/ Begin \/ CompleteLap \/ EstablishAnchor \/ ClearAnchor \/ WithdrawAnchor \/ End

Spec == Init /\ [][Next]_cvars
=============================================================================
