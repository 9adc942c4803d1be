--------------------------------- MODULE Poses ---------------------------------
(***************************************************************************)
(* What the legs' manual control and the control of the arm have in        *)
(* common: a pose gives every servo a position, telemetry may be missing.  *)
(***************************************************************************)

CONSTANTS
    Servos,     \* the servos that are posed together
    Positions,  \* the positions told apart
    NoPose,     \* None, of an optional pose
    Offline     \* no telemetry, of a servo

Pose == [Servos -> Positions]
States == [Servos -> Positions \cup {Offline}]

ASSUME NoPoseAssumption == NoPose \notin Pose
ASSUME OfflineAssumption == Offline \notin Positions

\* current_pose, current_pose_from_snapshot_servos: a pose needs every servo.
Complete(states) == \A s \in Servos : states[s] # Offline

OrElse(pose, other) == IF pose # NoPose THEN pose ELSE other

\* f with the servos of the group taken from g.
Merge(f, g, group) == [s \in Servos |-> IF s \in group THEN g[s] ELSE f[s]]

================================================================================
