------------------------------- MODULE ArmAndPoses -------------------------------
(***************************************************************************)
(* Arm control, and the poses and gaits of the legs, each a program of its *)
(* own, in one specification: `part` says which of them runs, the other    *)
(* stays at its start.                                                     *)
(***************************************************************************)
EXTENDS ArmControl

CONSTANTS Late, Settings, NoWalk, Shifts, Lives, MaxTime

VARIABLES part, mode, setting, shift, armed, start, elapsed, fault, pose, edited

motionVars == <<mode, setting, shift, armed, start, elapsed, fault, pose, edited>>
partsVars == <<part, vars, motionVars>>

Motion == INSTANCE PosePrograms WITH base <- start

\* A run starts uncalibrated; durations are not negative; any pose may be measured.
ASSUME MotionAssumption ==
    /\ Late \subseteq Nat /\ MaxTime \in Nat
    /\ Settings \subseteq [standUp : Nat, blend : Nat, walk : Nat \cup {NoWalk}]
    /\ Shifts \subseteq Int /\ 0 \in Shifts
    /\ Lives \subseteq Motion!Pose /\ NoPose \notin Motion!Pose

ArmRests == Init /\ ~enabled /\ held = {}
MotionRests == Motion!Init /\ mode = [name |-> "lay", lift |-> "none"] /\ setting.blend = 0

PartsInit ==
    \/ part = "arm" /\ Init /\ MotionRests
    \/ part = "motion" /\ Motion!Init /\ ArmRests

PartsNext ==
    /\ UNCHANGED part
    /\ \/ part = "arm" /\ Next /\ UNCHANGED motionVars
       \/ part = "motion" /\ Motion!Next /\ UNCHANGED vars

PartsSpec == PartsInit /\ [][PartsNext]_partsVars

(***************************************************************************)
(* What makes them correct, with what ArmControl says of itself            *)
(***************************************************************************)
\* Each variable of the part that runs takes only values of its type.
PartsTypeOK ==
    /\ part = "arm" => TypeOK
    /\ part = "motion" => Motion!TypeOK

\* No coxa turns before the legs carry the body.
CoxaeLast == Motion!CoxaeLast

\* A gait carries the body, and pushes only where it is meant to: one tripod has
\* its feet down at any time, and a sideward gait pushes neither forward nor back.
GaitCarries == Motion!OneTripodPlanted /\ Motion!SidewardOnly

\* Commanded poses do not leap, but for the reasons that are listed.
LeapsOnlyWhere == [][Motion!LeapsNowhereElse]_partsVars

================================================================================
