------------------------------ MODULE WorkspaceScan ------------------------------
(***************************************************************************)
(* arachno-calibrate sense-workspace, on the servos and with the control   *)
(* state of RangeScan: leg by leg, on the standing robot, lift the foot,   *)
(* drive the tibia against its mechanical end at the sensing limit, and    *)
(* put the leg back. Every move is made inside a torque window, which sets *)
(* the window's limit first and an idle limit afterwards, also when the    *)
(* move failed.                                                            *)
(***************************************************************************)
EXTENDS RangeScan

\* `stage` counts the legs here. WorkspaceTorqueLimits::limit_for: sensing and
\* try-moves are made at the sensing limit, moves and holding at the moving one.
limit_for == [Sense |-> "low", TryMove |-> "low", Move |-> "high", Hold |-> "high"]

MovedServos == {ServoId(stage, Femur), ServoId(stage, Tibia)}
ProbedServo == {ServoId(stage, Tibia)}

WorkspaceSteps == {"w-on", "w-limits", "w-read",
                   "lift on", "lift", "lift off",
                   "probe on", "probe", "retract on", "retract", "retract off",
                   "reset on", "reset", "reset off", "w-restore", "w-write"}

StartWorkspace ==
    /\ at = "idle"
    /\ at' = "w-on"
    /\ stage' = 1
    /\ failed' = FALSE
    /\ result' = "none"
    /\ UNCHANGED registers

WorkspaceTorqueOn(ok) == CallOrReturn("w-on", "w-limits", ok) /\ TorqueOnCurrent(ok)

WorkspaceLimits(ok) ==
    CallOrReturn("w-limits", "w-read", ok) /\ SetLimit(Servos, limit_for.Sense, ok)

ReadStandPose(ok) == CallOrReturn("w-read", "lift on", ok) /\ UNCHANGED registers

\* The error of a leg ends the loop over the legs.
CallOrGiveUp(from, onOk, ok) ==
    /\ Call(from, onOk, "w-restore", ok)
    /\ failed' = ~ok
    /\ UNCHANGED <<stage, result>>

(***************************************************************************)
(* with_torque_window                                                      *)
(***************************************************************************)
WindowOn(from, action, ids, mode, ok) ==
    CallOrGiveUp(from, action, ok) /\ SetLimit(ids, limit_for[mode], ok)

\* The action's result is kept until the idle limit is set.
WindowAction(from, off, ok) ==
    /\ at = from
    /\ at' = off
    /\ failed' = ~ok
    /\ SyncPose({}, ok)
    /\ UNCHANGED <<stage, result>>

WindowOff(from, onOk, ids, mode, ok) ==
    /\ at = from
    /\ at' = IF failed \/ ~ok THEN "w-restore" ELSE onOk
    /\ failed' = (failed \/ ~ok)
    /\ UNCHANGED result
    \* Before holding, the targets are read again; without them no limit is set.
    /\ \/ SetLimit(ids, limit_for[mode], ok)
       \/ mode = "Hold" /\ ~ok /\ UNCHANGED registers

(***************************************************************************)
(* calibrate_leg_workspace                                                 *)
(***************************************************************************)
LiftOn(ok) == WindowOn("lift on", "lift", MovedServos, "TryMove", ok)
Lift(ok) == WindowAction("lift", "lift off", ok)
LiftOff(ok) ==
    WindowOff("lift off", "probe on", MovedServos, "Hold", ok) /\ UNCHANGED stage

ProbeOn(ok) == CallOrGiveUp("probe on", "probe", ok) /\ SetLimit(ProbedServo, limit_for.Sense, ok)

Probe(ok) == CallOrGiveUp("probe", "retract on", ok) /\ SyncPose(ProbedServo, ok)

RetractOn(ok) == WindowOn("retract on", "retract", ProbedServo, "Sense", ok)
Retract(ok) == WindowAction("retract", "retract off", ok)
RetractOff(ok) ==
    WindowOff("retract off", "reset on", ProbedServo, "Hold", ok) /\ UNCHANGED stage

ResetOn(ok) == WindowOn("reset on", "reset", MovedServos, "Move", ok)
ResetLeg(ok) == WindowAction("reset", "reset off", ok)

\* Mutant: the leg keeps the limit it was moved with.
ResetOffStaysStrong(ok) ==
    /\ WindowOff("reset off", IF stage < NumLegs THEN "lift on" ELSE "w-restore",
                 MovedServos, "Hold", ok)
    /\ stage' = IF at' = "lift on" THEN stage + 1 ELSE stage

\* The leg is back on the ground at the sensing limit, and the next one is lifted.
ResetOff(ok) ==
    /\ WindowOff("reset off", IF stage < NumLegs THEN "lift on" ELSE "w-restore",
                 MovedServos, "Sense", ok)
    /\ stage' = IF at' = "lift on" THEN stage + 1 ELSE stage

\* Its failure is only logged.
WorkspaceRestore(ok) ==
    /\ at = "w-restore"
    /\ SetLimit(Servos, limit_for.Sense, ok)
    /\ at' = IF failed THEN "idle" ELSE "w-write"
    /\ result' = IF failed THEN "error" ELSE result
    /\ UNCHANGED <<stage, failed>>

WriteWorkspace(ok) ==
    /\ at = "w-write"
    /\ at' = "idle"
    /\ result' = IF ok THEN "ok" ELSE "error"
    /\ UNCHANGED <<stage, failed, registers>>

WorkspaceCall(ok) ==
    \/ WorkspaceTorqueOn(ok)
    \/ WorkspaceLimits(ok)
    \/ ReadStandPose(ok)
    \/ LiftOn(ok)
    \/ Lift(ok)
    \/ LiftOff(ok)
    \/ ProbeOn(ok)
    \/ Probe(ok)
    \/ RetractOn(ok)
    \/ Retract(ok)
    \/ RetractOff(ok)
    \/ ResetOn(ok)
    \/ ResetLeg(ok)
    \/ ResetOff(ok)
    \/ WorkspaceRestore(ok)
    \/ WriteWorkspace(ok)

================================================================================
