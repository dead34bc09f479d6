-------------------------- MODULE LifecyclePhases --------------------------
(***************************************************************************)
(* What an app promises about its lifecycle, whoever calls start() and     *)
(* stop() and however the hooks end: it is in one of four phases, start    *)
(* hooks complete one at a time and only while it is starting, it comes up *)
(* with no registered start hook left, it only starts stopping from up,    *)
(* and a stop that fails or times out leaves it up.                        *)
(***************************************************************************)
EXTENDS Integers

CONSTANTS InitStart, MaxHooks

VARIABLES
  phase,       \* "down", "starting", "up" or "stopping"
  done,        \* start hooks completed
  registered   \* start hooks registered

phaseVars == <<phase, done, registered>>

Init ==
  /\ phase = "down"
  /\ done = 0
  /\ registered = InitStart

Register ==
  /\ registered < MaxHooks
  /\ registered' = registered + 1
  /\ UNCHANGED <<phase, done>>

BeginStart ==
  /\ phase = "down"
  /\ done < registered
  /\ phase' = "starting"
  /\ UNCHANGED <<done, registered>>

StartWithoutHooks ==
  /\ phase = "down"
  /\ done = registered
  /\ phase' = "up"
  /\ UNCHANGED <<done, registered>>

CompleteHook ==
  /\ phase = "starting"
  /\ done' = done + 1
  /\ phase' = IF done' = registered THEN "up" ELSE "starting"
  /\ UNCHANGED registered

FailStart ==
  /\ phase = "starting"
  /\ phase' = "down"
  /\ UNCHANGED <<done, registered>>

BeginStop ==
  /\ phase = "up"
  /\ phase' = "stopping"
  /\ UNCHANGED <<done, registered>>

EndStop ==
  /\ phase = "stopping"
  /\ phase' \in {"down", "up"}
  /\ UNCHANGED <<done, registered>>

Next ==
  \/ Register \/ BeginStart \/ StartWithoutHooks \/ CompleteHook
  \/ FailStart \/ BeginStop \/ EndStop

PhaseSpec == Init /\ [][Next]_phaseVars
=============================================================================
