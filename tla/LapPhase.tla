------------------------------ MODULE LapPhase ------------------------------
(***************************************************************************)
(* The event reducer of lap recovery (telemetry-core/src/lap_state.rs):    *)
(* what the car is known to be doing, and what an event makes of the       *)
(* interval that is open when it arrives.                                  *)
(*                                                                         *)
(* Phase::apply mutates the phase and returns Option<LapKind>.  Here the   *)
(* two results are two functions of the phase the event arrives in; None   *)
(* is NoKind, "the event cannot establish a boundary".                     *)
(***************************************************************************)

Phases == {"initial", "on-track", "out", "stopped", "pit", "uncertain"}

\* The phases in which the open interval is circuit activity; in the others
\* only a departure, or a crossing out of "uncertain", starts activity again.
Active == {"initial", "on-track", "out"}
Inactive == Phases \ Active

\* Event::Reset { stationary } is written as two events.
Events == {"crossing", "rejected-crossing", "reset-stationary", "reset-moving",
           "rearm", "departure", "track-stop", "pit-entry", "end"}

Kinds == {"flying", "out", "in", "out-in", "pit", "uncertain", "stopped"}

NoKind == "none"

\* Wrong: an out fragment that is cut short counts as an in fragment.
FragmentKindOfOut(p) ==
    CASE p = "initial" -> "out-in"
      [] p \in {"out", "on-track"} -> "in"
      [] OTHER -> p

\* The kind of an interval that ends in phase p with no crossing at its end.
FragmentKind(p) ==
    CASE p \in {"initial", "out"} -> "out-in"
      [] p = "on-track" -> "in"
      [] OTHER -> p

\* Wrong: the first crossing after a departure closes a flying lap.
CrossedKindUnanchored(p) ==
    CASE p = "initial" -> "out"
      [] p \in {"out", "on-track"} -> "flying"
      [] OTHER -> p

\* The kind of an interval that a crossing ends in phase p.
CrossedKind(p) ==
    CASE p \in {"initial", "out"} -> "out"
      [] p = "on-track" -> "flying"
      [] OTHER -> p

\* The kind Phase::apply returns for event e in phase p.
ClosingKind(p, e) ==
    CASE e = "crossing" -> CrossedKind(p)
      [] e = "end" -> FragmentKind(p)
      [] e = "track-stop" -> "uncertain"
      [] e = "rejected-crossing" ->
            IF p \in {"pit", "stopped"} THEN p ELSE "uncertain"
      [] e = "departure" /\ p \in Inactive -> p
      [] e = "pit-entry" /\ p \notin {"pit", "stopped"} -> FragmentKind(p)
      [] e \in {"reset-stationary", "reset-moving"} /\ p \in Active -> FragmentKind(p)
      [] OTHER -> NoKind

\* The phase Phase::apply leaves behind for event e in phase p.
NextPhase(p, e) ==
    CASE e = "track-stop" -> "stopped"
      [] e = "departure" -> IF p \in Inactive THEN "out" ELSE p
      [] e \in {"pit-entry", "reset-stationary"} -> IF p = "stopped" THEN p ELSE "pit"
      [] e \in {"reset-moving", "rejected-crossing"} ->
            IF p \in {"pit", "stopped"} THEN p ELSE "uncertain"
      [] e = "crossing" -> IF p \in {"pit", "stopped"} THEN p ELSE "on-track"
      [] e \in {"rearm", "end"} -> p
=============================================================================
