------------------------------ MODULE MotecFile ------------------------------
(***************************************************************************)
(* The MoTeC LD reader (motec-telemetry/src/lib.rs) and the laps of the    *)
(* LDX sidecar beside it (src/ldx.rs).                                     *)
(*                                                                         *)
(* Channel blocks form a linked list, one action per block followed.  What *)
(* a block says is whatever the file holds at its address; names, units    *)
(* and the affine transform of the values are left out.                    *)
(***************************************************************************)
EXTENDS Integers, Sequences, FiniteSets, SequencesExt, FiniteSetsExt

CONSTANTS
  Files,        \* the files to read, see IsFile
  MetaSize,     \* CHANNEL_META_SIZE: length of a channel block
  MaxChannels,  \* MAX_CHANNELS: blocks followed at most
  Second        \* ticks of a second

VARIABLES
  file,         \* what lies on disk
  phase,
  out           \* [address, channels, ldx, laps, fastest]

vars == <<file, phase, out>>

\* No sidecar, one that cannot be parsed, or what its XML says: marker times
\* (-1 for one without a time), the total and the fastest lap (0: not given)
\* and the fastest time (-1: not given).
IsSidecar(ldx) ==
    \/ ldx = [state |-> "missing"]
    \/ ldx = [state |-> "broken"]
    \/ /\ ldx.state = "xml"
       /\ \A i \in DOMAIN ldx.markers : ldx.markers[i] \in Nat \cup {-1}
       /\ ldx.total \in Nat /\ ldx.fastest \in Nat /\ ldx.fastestTime \in Nat \cup {-1}

\* The length of the LD, the first block, the block at every address.
IsFile(f) ==
    /\ f.length \in Nat /\ f.first \in Nat
    /\ \A a \in DOMAIN f.blocks :
          LET b == f.blocks[a]
          IN  /\ {b.next, b.ptr, b.count, b.width, b.frequency} \subseteq Nat
              /\ b.kind \in {"float", "double", "integer"}
    /\ IsSidecar(f.sidecar)

NothingRead == [address |-> 0, channels |-> << >>, laps |-> << >>, fastest |-> 0]

Init == /\ file \in Files
        /\ phase = "open"
        /\ out = NothingRead

-----------------------------------------------------------------------------
(* Channels                                                                *)

\* kind "float" is 0x07, "double" 0x08.
TypeOf(kind, width) ==
    CASE width = 8 /\ kind # "integer" -> "f64"
      [] width = 2 /\ kind # "float" -> "i16"
      [] width = 4 /\ kind # "float" -> "i32"
      [] OTHER -> "f32"

Bytes(type) == CASE type = "f64" -> 8 [] type = "i16" -> 2 [] OTHER -> 4

\* No samples where the width contradicts the type or the data lie outside;
\* as many as the file holds otherwise.
CountOf(block) ==
    IF Bytes(TypeOf(block.kind, block.width)) = block.width /\ block.ptr < file.length
    THEN Min({block.count, (file.length - block.ptr) \div block.width}) ELSE 0

PeriodOf(block) == IF block.frequency = 0 THEN 0 ELSE Second \div block.frequency

\* Samples that have a period are one chunk that starts at 0.
ChannelOf(block) ==
    [type |-> TypeOf(block.kind, block.width), count |-> CountOf(block),
     chunks |-> IF CountOf(block) > 0 /\ PeriodOf(block) > 0
                THEN <<[period |-> PeriodOf(block), count |-> CountOf(block), at |-> 0]>>
                ELSE << >>,
     duration |-> CountOf(block) * PeriodOf(block)]

OpenFile == /\ phase = "open"
            /\ phase' = IF file.length = 0 THEN "refused" ELSE "list"
            /\ out' = [out EXCEPT !.address = file.first]
            /\ UNCHANGED file

\* There is a block to read.
AtBlock == /\ out.address > 0 /\ out.address + MetaSize <= file.length
           /\ Len(out.channels) < MaxChannels

\* The list only leads forward; any other link ends it.
Link(address, next) == IF next > address THEN next ELSE 0

ReadChannel ==
    /\ phase = "list" /\ AtBlock
    /\ LET block == file.blocks[out.address]
       IN  out' = [out EXCEPT !.channels = Append(@, ChannelOf(block)),
                              !.address = Link(out.address, block.next)]
    /\ UNCHANGED <<file, phase>>

EndOfList ==
    /\ phase = "list" /\ ~AtBlock
    /\ phase' = IF out.channels = << >> THEN "refused" ELSE "sidecar"
    /\ UNCHANGED <<file, out>>

-----------------------------------------------------------------------------
(* The sidecar                                                             *)

Duration == Max({out.channels[i].duration : i \in DOMAIN out.channels})

\* Each marker within the recording once, in order.
Markers(ldx) ==
    SetToSortSeq({m \in Range(ldx.markers) : m >= 0 /\ m <= Duration}, <)

Lap(number, from, to, complete) ==
    [number |-> number, from |-> from, to |-> to, complete |-> complete]

\* Laps between markers, as many as the sidecar claims and the markers allow;
\* the first and the last are incomplete, and empty ones are left out.
MarkerLaps(ldx) ==
    LET markers == Markers(ldx)
        most == Len(markers) + 1
        claimed == IF ldx.total = 0 THEN most ELSE Min({ldx.total, most})
        from(n) == IF n = 1 THEN 0 ELSE markers[n - 1]
        to(n) == IF n < most THEN markers[n] ELSE Duration
        laps == [n \in 1..claimed |-> Lap(n, from(n), to(n), 1 < n /\ n < most)]
    IN  SelectSeq(laps, LAMBDA lap : lap.from < lap.to)

\* The reported fastest lap ends at the marker of its number.
HasFastest(ldx) ==
    /\ ldx.fastest > 0 /\ ldx.fastestTime >= 0
    /\ ldx.fastest <= Len(Markers(ldx))
    /\ Markers(ldx)[ldx.fastest] >= ldx.fastestTime

FastestLap(ldx) ==
    LET end == Markers(ldx)[ldx.fastest]
    IN  Lap(ldx.fastest, end - ldx.fastestTime, end, TRUE)

\* It takes the place of the lap of its number, or is added where it starts.
WithFastest(laps, lap) ==
    IF \E i \in DOMAIN laps : laps[i].number = lap.number
    THEN [i \in DOMAIN laps |-> IF laps[i].number = lap.number THEN lap ELSE laps[i]]
    ELSE LET earlier(l) == l.from <= lap.from
         IN  SelectSeq(laps, earlier) \o <<lap>> \o SelectSeq(laps, LAMBDA l : ~earlier(l))

\* A sidecar that is missing or unreadable leaves the recording without laps.
ReadSidecar ==
    /\ phase = "sidecar"
    /\ LET ldx == file.sidecar
       IN  out' = IF ldx.state # "xml" \/ (\A i \in DOMAIN ldx.markers : ldx.markers[i] < 0)
                  THEN out
                  ELSE IF HasFastest(ldx)
                  THEN [out EXCEPT !.laps = WithFastest(MarkerLaps(ldx), FastestLap(ldx)),
                                   !.fastest = ldx.fastest]
                  ELSE [out EXCEPT !.laps = MarkerLaps(ldx)]
    /\ phase' = "done"
    /\ UNCHANGED file

Stopped == phase \in {"done", "refused"}

Next == OpenFile \/ ReadChannel \/ EndOfList \/ ReadSidecar

Spec == Init /\ [][Next]_vars

=============================================================================
