---------------------------- MODULE MCLapRecovery ----------------------------
(***************************************************************************)
(* Small recordings for the counter walk.  Long traces exercise the        *)
(* counter logic, short ones every kind of head, and traces that climb     *)
(* often enough to show the detector the track lane the GPS pit visits.    *)
(***************************************************************************)
EXTENDS LapRecovery

CONSTANTS
  Long, Short,        \* samples in the long and the short traces
  LongTop, ShortTop,  \* largest counter value in each
  Gaps                \* spacings between samples

Instants(n) ==
    { [i \in 1 .. n |-> FoldFunctionOnSet(+, 0, g, 1 .. (i - 1))] : g \in [1 .. (n - 1) -> Gaps] }

Trace(t, v) == [i \in DOMAIN t |-> [at |-> t[i], counter |-> v[i]]]

Traces(n, top) == { Trace(t, v) : t \in Instants(n), v \in [1 .. n -> 0 .. top] }

\* The counter's first sample may come later than the GPS's.
Late(t) == [i \in DOMAIN t |-> t[i] + 2]

VisitTraces ==
    { Trace(t, v) : t \in Instants(Short + 1) \cup {Late(t) : t \in Instants(Short + 1)},
                    v \in [1 .. (Short + 1) -> 0 .. LongTop] }

\* The pit detector measures the track lane at two increments by one, of
\* which one comes after the visit.
Detects(s, visit) ==
    LET sightings == {i \in 2 .. Len(s) : s[i].counter = s[i - 1].counter + 1}
    IN  Cardinality(sightings) >= 2 /\ \E i \in sightings : s[i].at > visit[2]

\* A visit that coincides with samples, one between samples, a late one.
PitVisits == {<<2, 4>>, <<1, 5>>, <<5, 7>>}

Heads == {"moving", "parked", "parked-on-circuit"}

\* With no reference lap two of the corroborations are unavailable.
References == {0, 4}

RecordingOf(s, pits, head, reference, completed) ==
    [samples |-> s, pitEvents |-> pits, duration |-> s[Len(s)].at + 1, head |-> head,
     reference |-> reference, completed |-> completed]

MCRecordings ==
    { RecordingOf(s, <<>>, "moving", 4, c) : s \in Traces(Long, LongTop), c \in BOOLEAN }
    \cup
    { RecordingOf(s, <<>>, h, r, c) :
        s \in Traces(Short, ShortTop), h \in Heads, r \in References, c \in BOOLEAN }
    \cup
    UNION { { RecordingOf(s, p, h, 4, c) :
                s \in {t \in VisitTraces : Detects(t, p)}, h \in Heads, c \in BOOLEAN } :
            p \in PitVisits }
=============================================================================
