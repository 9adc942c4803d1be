------------------------------ MODULE PosePrograms ------------------------------
(***************************************************************************)
(* The motions of MotionRuntime::commands that run by the clock: lying     *)
(* down, sitting, settling into a stand, the staged stand-up, and the      *)
(* tripod gaits. Each is a function of the time since it was armed and of  *)
(* the pose it was armed at; the worker evaluates it once a tick, late or  *)
(* not, with the calibration of that tick.                                 *)
(*                                                                         *)
(* Integers stand for the code's floats: time in fortieths of a second,    *)
(* angles in ticks of which Full make the servo's range, ratios in         *)
(* hundredths. The sine of the lift is a parabola with the same zeros.     *)
(***************************************************************************)
EXTENDS Integers, FiniteSets

CONSTANTS
    Late,     \* how late a tick can be
    Settings, \* configurations: stand_up.duration_seconds as standUp,
              \* tripod.startup_blend_seconds as blend, --walk-seconds as walk
    NoWalk,   \* no --walk-seconds
    Shifts,   \* where a calibration puts the zero of all joints, off the middle
    Lives,    \* the poses that are measured: the robot was brought to them
    NoPose,
    MaxTime   \* bound of the model on the time since arming

VARIABLES
    mode,
    setting,  \* the configuration of this run
    shift,    \* the calibration
    armed,    \* armed_at, initial_pose: is a motion running?
    base,     \* initial_pose, the measured pose it was armed at
    elapsed,  \* armed_at.elapsed()
    fault,
    pose,     \* hold_pose, the pose commanded last
    edited    \* history: was the calibration edited since the last command?

vars == <<mode, setting, shift, armed, base, elapsed, fault, pose, edited>>

Greatest(i, j) == IF i > j THEN i ELSE j
Clamp(low, i, high) == IF i < low THEN low ELSE IF i > high THEN high ELSE i
Rounded(n, d) == (2 * n + d) \div (2 * d)

(***************************************************************************)
(* Legs, joints and poses                                                  *)
(***************************************************************************)
Legs == {"left", "right"} \X {"front", "middle", "rear"}
Joints == {"coxa", "femur", "tibia"}
IsLeft(leg) == leg[1] = "left"
IsTripodA(leg) == IsLeft(leg) <=> leg[2] # "middle"

Full == 48
Middle == 24
Pose == [Legs -> [Joints -> 0 .. Full]]

\* coxa_forward_sign, femur_lift_sign, tibia_lift_sign: mirrored on the right.
Sign(leg) == IF IsLeft(leg) THEN 1 ELSE -1

\* servo_ticks_for_semantic_angle_deg, servo_semantic_angle_deg; an angle may be
\* given with `fine` ten-thousandths more, and is rounded where it is a servo's.
TicksNear(leg, angle, fine, zero) ==
    Clamp(0, Middle + zero + Sign(leg) * angle + Rounded(Sign(leg) * fine, 10000), Full)
Ticks(leg, angle, zero) == TicksNear(leg, angle, 0, zero)
Angle(leg, ticks, zero) == Sign(leg) * (ticks - Middle - zero)

\* offset_ticks
Offset(leg, ticks, delta) == Clamp(0, ticks + Sign(leg) * delta, Full)

Kinds == {"lay", "sit", "stand", "high"}
Angles == [lay   |-> [coxa |-> 0, femur |-> 20, tibia |-> -4],
           sit   |-> [coxa |-> 0, femur |-> 12, tibia |-> 2],
           stand |-> [coxa |-> 6, femur |-> -4, tibia |-> 8],
           high  |-> [coxa |-> 6, femur |-> -10, tibia |-> 10]]

\* named_pose_with_calibration
Named(kind, zero) == [leg \in Legs |-> [joint \in Joints |-> Ticks(leg, Angles[kind][joint], zero)]]

\* pose.insert for a joint of every leg.
With(basis, joint, ticks) == [leg \in Legs |-> [basis[leg] EXCEPT ![joint] = ticks[leg]]]

\* interpolate_pose, at `part` hundredths.
Interpolate(start, end, part) ==
    [leg \in Legs |-> [joint \in Joints |->
        start[leg][joint] + Rounded((end[leg][joint] - start[leg][joint]) * part, 100)]]

\* smoothstep of time over length, in hundredths.
Smooth(time, length) ==
    LET t == Clamp(0, time, length) IN
    Rounded(100 * t * t * (3 * length - 2 * t), length * length * length)

(***************************************************************************)
(* Poses approached                                                        *)
(***************************************************************************)
\* lay_down_pose, sit_down_pose, stand_settle_pose
Approach(kind, length, start, time, zero) ==
    Interpolate(start, Named(kind, zero), Smooth(time, length))

FemurPrep == 6
TibiaPlant == 5

\* Mutant: the coxae align while the body rises.
BodyRaiseAligned(start, target) == target

\* femur_lift_pose, foot_plant_pose, body_raise_pose
FemurLift(start) == With(start, "femur", [leg \in Legs |-> Offset(leg, start[leg].femur, FemurPrep)])
FootPlant(start) ==
    With(FemurLift(start), "tibia", [leg \in Legs |-> Offset(leg, start[leg].tibia, -TibiaPlant)])
BodyRaise(start, target) == With(target, "coxa", [leg \in Legs |-> start[leg].coxa])

\* The phases are no shorter than a tenth of a second.
Phase(length, percent) == Greatest((length * percent) \div 100, 4)

\* staged_stand_up_pose
StandUp(kind, start, time, zero) ==
    LET length == Greatest(setting.standUp, 20)
        femur == Phase(length, 20)
        tibia == femur + Phase(length, 20)
        body == tibia + Phase(length, 45)
        coxa == Greatest(length - body, 4)
        target == Named(kind, zero)
        lifted == FemurLift(start)
        planted == FootPlant(start)
        raised == BodyRaise(start, target)
    IN CASE time >= length -> target
         [] time < femur -> Interpolate(start, lifted, Smooth(time, femur))
         [] time \in femur .. tibia - 1 -> Interpolate(lifted, planted, Smooth(time - femur, tibia - femur))
         [] time \in tibia .. body - 1 -> Interpolate(planted, raised, Smooth(time - tibia, body - tibia))
         [] OTHER -> Interpolate(raised, target, Smooth(time - body, coxa))

(***************************************************************************)
(* Tripod gaits                                                            *)
(***************************************************************************)
\* TripodMotionKind; the high-step modes differ in the lift alone.
Gaits == {"forward", "backward", "rotateLeft", "rotateRight", "sideLeft", "sideRight"}
Lifts == {"standard", "highStep"}
GaitModes == [name : Gaits, lift : Lifts]

\* coxa_gait_direction_for_leg
Direction(gait, leg) ==
    CASE gait = "forward" -> 1
      [] gait = "backward" -> -1
      [] gait \in {"rotateLeft", "rotateRight"} ->
           IF IsLeft(leg) <=> gait = "rotateRight" THEN 1 ELSE -1
      [] leg[2] = "middle" -> 0
      [] OTHER -> IF (IsLeft(leg) <=> leg[2] = "front") <=> gait = "sideRight" THEN 1 ELSE -1

\* derive_tripod_profile
Swing == 4
FemurUp(lift) == IF lift = "highStep" THEN 9 ELSE 5
TibiaUp(lift) == IF lift = "highStep" THEN 12 ELSE 6

Cycle == 24
Half == 12

\* Mutant: the foot swings forward a second time.
StrideTwice(phase) ==
    IF phase < Half THEN 2 * Smooth(phase, Half) - 100
    ELSE Rounded(200 * (phase - Half), Half) - 100

\* leg_cycle_shape_deg, in hundredths: the foot is forward with the swing and up,
\* and then pushes back on the ground.
Stride(phase) ==
    IF phase < Half THEN 2 * Smooth(phase, Half) - 100
    ELSE 100 - Rounded(200 * (phase - Half), Half)
Lift(phase) == IF phase < Half THEN Rounded(400 * phase * (Half - phase), Half * Half) ELSE 0

\* Mutant: all legs step in time.
PhaseInTime(leg, time) == time % Cycle

LegPhase(leg, time) == IF IsTripodA(leg) THEN time % Cycle ELSE (time + Half) % Cycle

\* walk_pose_from_base
Walk(start, time, amplitude, zero) ==
    [leg \in Legs |->
        LET phase == LegPhase(leg, time)
            delta == [coxa |-> Swing * Stride(phase) * Direction(mode.name, leg) * amplitude,
                      femur |-> 100 * FemurUp(mode.lift) * Lift(phase),
                      tibia |-> 100 * TibiaUp(mode.lift) * Lift(phase)]
        IN [joint \in Joints |->
                TicksNear(leg, Angle(leg, start[leg][joint], zero), delta[joint], zero)]]

Settle == 10

\* The walk limit counts from when the gait begins.
WalkOver(time) == setting.walk # NoWalk /\ time - Settle >= setting.walk

\* tripod_gait_pose
Tripod(start, time, zero) ==
    IF time < Settle \/ WalkOver(time) THEN start
    ELSE Walk(start, time - Settle,
              IF setting.blend = 0 THEN 100 ELSE Smooth(time - Settle, setting.blend), zero)

(***************************************************************************)
(* The motion                                                              *)
(***************************************************************************)
PoseNames == {"lay", "sit", "standUp", "standUpHigh", "stand", "standHigh"}
Modes == [name : PoseNames, lift : {"none"}] \cup GaitModes
Walking == mode \in GaitModes
Rising == mode.name \in {"standUp", "standUpHigh"}

\* stand_transition_target, stand_settle_target, lay_down_pose, sit_down_pose
Target ==
    CASE mode.name \in {"stand", "standUp"} -> "stand"
      [] mode.name \in {"standHigh", "standUpHigh"} -> "high"
      [] OTHER -> mode.name

\* MotionRuntime::commands, without a fault; durations of at least half a second,
\* or a quarter to settle.
Commanded(start, time, zero) ==
    IF Walking THEN Tripod(start, time, zero)
    ELSE IF Rising THEN StandUp(Target, start, time, zero)
    ELSE Approach(Target, IF mode.name \in {"stand", "standHigh"} THEN Settle ELSE 20, start, time, zero)

TypeOK ==
    /\ mode \in Modes
    /\ setting \in Settings
    /\ shift \in Shifts
    /\ armed \in BOOLEAN /\ fault \in BOOLEAN /\ edited \in BOOLEAN
    /\ base \in Pose \cup {NoPose} /\ pose \in Pose \cup {NoPose}
    /\ armed => base # NoPose /\ pose # NoPose
    /\ elapsed \in 0 .. MaxTime

Init ==
    /\ mode \in Modes
    /\ setting \in Settings
    /\ shift = 0
    /\ armed = FALSE /\ fault = FALSE /\ edited = FALSE
    /\ base = NoPose /\ pose = NoPose
    /\ elapsed = 0

\* arm, at the pose that was measured.
Arm(live) ==
    /\ ~armed /\ ~fault
    /\ armed' = TRUE
    /\ base' = live /\ pose' = live
    /\ elapsed' = 0
    /\ edited' = FALSE
    /\ UNCHANGED <<mode, setting, shift, fault>>

\* commands, once a tick.
Command(later) ==
    /\ armed /\ ~fault
    /\ elapsed + later <= MaxTime
    /\ elapsed' = elapsed + later
    /\ pose' = Commanded(base, elapsed', shift)
    /\ edited' = FALSE
    /\ UNCHANGED <<mode, setting, shift, armed, base, fault>>

\* disarm, when the link is lost: the next motion starts from what is measured.
Disarm ==
    /\ armed
    /\ armed' = FALSE
    /\ base' = NoPose
    /\ elapsed' = 0
    /\ UNCHANGED <<mode, setting, shift, fault, pose, edited>>

\* trip_fault: the pose that was commanded, or measured, is held.
Trip(held) ==
    /\ armed /\ ~fault
    /\ fault' = TRUE
    /\ pose' = held
    /\ UNCHANGED <<mode, setting, shift, armed, base, elapsed, edited>>

\* A new MotionRuntime for another mode.
ChangeMode(next) ==
    /\ next # mode
    /\ mode' = next
    /\ armed' = FALSE /\ fault' = FALSE /\ edited' = FALSE
    /\ base' = NoPose /\ pose' = NoPose
    /\ elapsed' = 0
    /\ UNCHANGED <<setting, shift>>

\* A calibration handler runs while the robot moves: calibration_snapshot is
\* another one from the next tick on.
Recalibrate(zero) ==
    /\ zero # shift
    /\ shift' = zero
    /\ edited' = TRUE
    /\ UNCHANGED <<mode, setting, armed, base, elapsed, fault, pose>>

Next ==
    \/ \E live \in Lives : Arm(live)
    \/ \E later \in Late : Command(later)
    \/ Disarm
    \/ \E held \in Lives \cup {pose} : Trip(held)
    \/ \E next \in Modes : ChangeMode(next)
    \/ \E zero \in Shifts : Recalibrate(zero)

Spec == Init /\ [][Next]_vars

(***************************************************************************)
(* What makes it correct                                                   *)
(***************************************************************************)
\* Feet on the ground are not dragged around: while it stands up, the robot turns
\* no coxa before all legs carry the body at the height of the stand.
CoxaeLast ==
    armed /\ ~fault /\ Rising /\ ~edited /\ (\E leg \in Legs : pose[leg].coxa # base[leg].coxa) =>
        LET target == Named(Target, shift)
        IN \A leg \in Legs, joint \in {"femur", "tibia"} : pose[leg][joint] = target[leg][joint]

\* The body never falls: at every moment of every gait, until a fault,
\* one of the tripods has its three feet down.
OneTripodPlanted ==
    armed /\ ~fault /\ Walking =>
        \E a \in BOOLEAN :
            \A leg \in Legs : IsTripodA(leg) = a =>
                \A joint \in {"femur", "tibia"} : pose[leg][joint] = base[leg][joint]

\* What the comment of coxa_gait_direction_for_leg says of the sideward gaits:
\* within each tripod, one leg's push forward cancels another's push back, to
\* within the rounding of a tick, where no servo is at the end of its range.
SidewardOnly ==
    armed /\ ~fault /\ Walking /\ mode.name \in {"sideLeft", "sideRight"} =>
        \A a \in {"left", "right"} :
            LET Coxa(place) == Sign(<<a, place>>) * (pose[<<a, place>>].coxa - base[<<a, place>>].coxa)
            IN /\ Coxa("middle") = 0
               /\ (\A place \in {"front", "rear"} : base[<<a, place>>].coxa \in Swing .. Full - Swing)
                    => Coxa("front") + Coxa("rear") \in -1 .. 1

\* The most a joint is told to move in a fortieth of a second.
Rate == 6

\* Between two commands no joint is sent farther than the time between them
\* allows, through all phases and their seams, except: by an edit of the
\* calibration, by the end of --walk-seconds in mid-stride, and by a gait that is
\* configured to begin at full stride.
LeapsNowhereElse ==
    armed /\ elapsed' > elapsed /\ ~edited
        => \/ \A leg \in Legs, joint \in Joints :
                pose'[leg][joint] - pose[leg][joint]
                  \in -(Rate * (elapsed' - elapsed)) .. Rate * (elapsed' - elapsed)
           \/ Walking /\ WalkOver(elapsed') /\ ~WalkOver(elapsed)
           \/ Walking /\ setting.blend = 0 /\ elapsed < Settle

(***************************************************************************)
(* An inductive invariant                                                  *)
(***************************************************************************)
\* The pose that is held is the one the motion was armed at, or what it commands
\* at this moment: by today's calibration, unless that was edited since.
HeldIsCommanded ==
    armed /\ ~fault =>
        \/ pose = base
        \/ \E zero \in Shifts :
              (~edited => zero = shift) /\ pose = Commanded(base, elapsed, zero)

MotionInv == TypeOK /\ HeldIsCommanded

================================================================================
