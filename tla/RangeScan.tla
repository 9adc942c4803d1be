-------------------------------- MODULE RangeScan --------------------------------
(***************************************************************************)
(* arachno-calibrate sense-ranges: joint by joint, all legs at once, drive *)
(* the servos at a low torque limit against both ends of their travel, let *)
(* go of them, restore the limit and go on from the middle of what was     *)
(* measured. Every bus call may fail; the `?` of each one decides what is  *)
(* still done before the command returns.                                  *)
(***************************************************************************)
EXTENDS ScanServos, Sequences

CONSTANT SkipLayDown    \* is --skip-initial-lay-down given?

ASSUME SkipAssumption == SkipLayDown \in BOOLEAN

VARIABLES
    at,         \* the call that is next, "idle" between commands
    stage,      \* the stage of the scan, an index into Stages
    failed,     \* is the result of what cleanup follows an Err already?
    result      \* of the last command: "none", "ok" or "error"

scanVars == <<at, stage, failed, result>>

Sense(joint) == [act |-> "sense", joint |-> joint]
Place(joint) == [act |-> "place", joint |-> joint]

\* The body of sense_ranges.
Stages == <<Sense(Tibia), Place(Tibia), Sense(Femur), Place(Femur), Place(Tibia), Sense(Coxa)>>

Active == Group(Stages[stage].joint)

RangeSteps == {"validate", "off", "on", "limits", "lay-down", "read", "lower",
               "sweep up", "sweep down", "release", "raise", "hold", "place",
               "report", "restore", "cleanup"}

\* A call is made at one step and followed by one of two others.
Call(from, onOk, onErr, ok) ==
    /\ at = from
    /\ at' = IF ok THEN onOk ELSE onErr

\* The early returns before there is anything to clean up.
CallOrReturn(from, onOk, ok) ==
    /\ Call(from, onOk, "idle", ok)
    /\ result' = IF ok THEN result ELSE "error"
    /\ UNCHANGED <<stage, failed>>

\* The `?` of the closure: its result is kept while the cleanup is done.
CallOrRestore(from, onOk, ok) ==
    /\ Call(from, onOk, "restore", ok)
    /\ failed' = (failed \/ ~ok)
    /\ UNCHANGED <<stage, result>>

StartRanges ==
    /\ at = "idle"
    /\ at' = "validate"
    /\ stage' = 1
    /\ failed' = FALSE
    /\ result' = "none"
    /\ UNCHANGED registers

\* validate_servo_eeprom_profile only reads.
Validate(ok) == CallOrReturn("validate", "off", ok) /\ UNCHANGED registers

TorqueOff(ok) == CallOrReturn("off", "on", ok) /\ SwitchTorque(Servos, FALSE, ok)

TorqueOn(ok) == CallOrReturn("on", "limits", ok) /\ TorqueOnCurrent(ok)

SetLimits(ok) ==
    /\ CallOrReturn("limits", IF SkipLayDown THEN "read" ELSE "lay-down", ok)
    /\ SetLimit(Servos, "high", ok)

\* move_pose_until_close fails when the pose has not settled in time, too.
LayDown(ok) == CallOrRestore("lay-down", "read", ok) /\ SyncPose({}, ok)

ReadPose(ok) == CallOrRestore("read", "lower", ok) /\ UNCHANGED registers

(***************************************************************************)
(* sense_joint_group_range                                                 *)
(***************************************************************************)
Lower(ok) == CallOrRestore("lower", "sweep up", ok) /\ SetLimit(Active, "low", ok)

\* sense_group_bound: a sweep that fails, by a lost servo or by one that does
\* not start or stop in time, is followed by the release all the same.
Sweep(from, onOk, ok) ==
    /\ Call(from, onOk, "release", ok)
    /\ failed' = ~ok
    /\ UNCHANGED <<stage, result>>
    /\ SyncPose(Active, ok)

SweepUp(ok) == Sweep("sweep up", "sweep down", ok)
SweepDown(ok) == Sweep("sweep down", "release", ok)

\* A release that fails goes straight to the cleanup: the servos before that one
\* stay without torque.
Release(ok) == CallOrRestore("release", "raise", ok) /\ SwitchTorque(Active, FALSE, ok)

\* Mutant: a servo that could not be raised is held all the same.
RaiseOrHold(ok) == CallOrRestore("raise", "hold", TRUE) /\ SetLimit(Active, "high", ok)

Raise(ok) == CallOrRestore("raise", "hold", ok) /\ SetLimit(Active, "high", ok)

NextStage ==
    IF stage = Len(Stages) THEN stage' = stage /\ at' = "report"
    ELSE /\ stage' = stage + 1
         /\ at' = IF Stages[stage + 1].act = "sense" THEN "lower" ELSE "place"

\* Mutant: whether the group is held again is not looked at.
HoldUnchecked(ok) ==
    /\ at = "hold"
    /\ SwitchTorque(Active, TRUE, ok)
    /\ IF failed THEN at' = "restore" /\ UNCHANGED stage ELSE NextStage
    /\ UNCHANGED <<failed, result>>

\* Only now the result of the sweeps is looked at.
Hold(ok) ==
    /\ at = "hold"
    /\ SwitchTorque(Active, TRUE, ok)
    /\ failed' = (failed \/ ~ok)
    /\ IF failed' THEN at' = "restore" /\ UNCHANGED stage ELSE NextStage
    /\ UNCHANGED result

\* move_joint_group_to_ratio
PlaceGroup(ok) ==
    /\ at = "place"
    /\ SyncPose({}, ok)
    /\ failed' = ~ok
    /\ IF failed' THEN at' = "restore" /\ UNCHANGED stage ELSE NextStage
    /\ UNCHANGED result

WriteReport(ok) == CallOrRestore("report", "restore", ok) /\ UNCHANGED registers

(***************************************************************************)
(* The cleanup: its own failures are only logged                           *)
(***************************************************************************)
RestoreLimits(ok) ==
    /\ at = "restore"
    /\ at' = "cleanup"
    /\ SetLimit(Servos, "high", ok)
    /\ UNCHANGED <<stage, failed, result>>

Cleanup(ok) ==
    /\ at = "cleanup"
    /\ at' = "idle"
    /\ SyncPose({}, ok)
    /\ result' = IF failed THEN "error" ELSE "ok"
    /\ UNCHANGED <<stage, failed>>

RangeCall(ok) ==
    \/ Validate(ok)
    \/ TorqueOff(ok)
    \/ TorqueOn(ok)
    \/ SetLimits(ok)
    \/ LayDown(ok)
    \/ ReadPose(ok)
    \/ Lower(ok)
    \/ SweepUp(ok)
    \/ SweepDown(ok)
    \/ Release(ok)
    \/ Raise(ok)
    \/ Hold(ok)
    \/ PlaceGroup(ok)
    \/ WriteReport(ok)
    \/ RestoreLimits(ok)
    \/ Cleanup(ok)

================================================================================
