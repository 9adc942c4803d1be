------------------------------- MODULE MotionGate -------------------------------
(***************************************************************************)
(* What the control worker promises of motion, without buses, ticks or     *)
(* telemetry. In each mode motion waits, then moves, then possibly halts;  *)
(* nothing but a new mode leads back. A new pose is sent only while moving,*)
(* and a halted robot is held at a pose that was measured, unless none was *)
(* measured since the mode was entered.                                    *)
(***************************************************************************)
CONSTANT Modes

VARIABLES
    mode,       \* the mode motion is in
    gate,       \* "waiting", "moving" or "halted"
    measured,   \* has the robot's own pose been taken in this mode?
    driven      \* what was sent in this tick: see ControlWorker

gateVars == <<mode, gate, measured, driven>>

GateInit ==
    /\ mode \in Modes
    /\ gate = "waiting"
    /\ measured = FALSE
    /\ driven = "none"

NextTick ==
    /\ driven' = "none"
    /\ UNCHANGED <<mode, gate, measured>>

ChangeMode(m) ==
    /\ m # mode
    /\ mode' = m
    /\ gate' = "waiting"
    /\ measured' = FALSE
    /\ driven' = "none"

\* Motion is armed at the measured pose; a halted robot may be measured again,
\* and stays halted.
Measure ==
    /\ mode # "telemetry"
    /\ gate' = IF gate = "waiting" THEN "moving" ELSE gate
    /\ measured' = TRUE
    /\ UNCHANGED <<mode, driven>>

\* A pose whose sending fails may be what halts the motion.
Halt ==
    /\ gate # "halted"
    /\ gate' = "halted"
    /\ measured' \in {measured, TRUE}
    /\ driven' \in IF gate = "moving" THEN {driven, "moving"} ELSE {driven}
    /\ UNCHANGED mode

Move ==
    /\ gate = "moving"
    /\ driven' = "moving"
    /\ UNCHANGED <<mode, gate, measured>>

Hold ==
    /\ gate = "halted"
    /\ mode # "telemetry"
    /\ driven' = IF measured THEN "holding" ELSE "fallback"
    /\ UNCHANGED <<mode, gate, measured>>

GateNext ==
    \/ NextTick
    \/ \E m \in Modes : ChangeMode(m)
    \/ Measure
    \/ Halt
    \/ Move
    \/ Hold

GateSpec == GateInit /\ [][GateNext]_gateVars

================================================================================
