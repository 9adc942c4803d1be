------------------------------- MODULE ScansProofs -------------------------------
(***************************************************************************)
(* Proofs that the scans of arachno-calibrate never push at full strength, *)
(* for any number of legs.                                                 *)
(***************************************************************************)
EXTENDS Scans, TLAPS

USE DEF registers, scanVars, vars

(***************************************************************************)
(* The plan of the scan, and what the bus calls do to the registers        *)
(***************************************************************************)
LEMMA StagesType ==
    /\ Len(Stages) = 6
    /\ \A i \in 1 .. 6 : Stages[i].joint \in Joints
BY DEF Stages, Sense, Place, Joints

LEMMA FirstStage == 1 \in 1 .. Len(Stages) /\ 1 \in Legs
BY StagesType, LegsAssumption DEF Legs

LEMMA ServoIds == \A leg \in Legs, joint \in Joints : ServoId(leg, joint) \in Servos
BY LegsAssumption DEF ServoId, Legs, Joints, Servos, Coxa, Femur, Tibia

LEMMA PrefixesOf == ASSUME NEW ids, NEW reached \in Prefixes(ids) PROVE reached \subseteq ids
BY DEF Prefixes

LEMMA SwitchTorqueType ==
    ASSUME NEW ids, NEW on \in BOOLEAN, NEW ok, RegistersTypeOK, SwitchTorque(ids, on, ok)
    PROVE  RegistersTypeOK'
BY DEF RegistersTypeOK, SwitchTorque

LEMMA SetLimitType ==
    ASSUME NEW ids, NEW value \in Limits, NEW ok, RegistersTypeOK, SetLimit(ids, value, ok)
    PROVE  RegistersTypeOK'
BY DEF RegistersTypeOK, SetLimit

LEMMA TorqueOnCurrentType ==
    ASSUME NEW ok, RegistersTypeOK, TorqueOnCurrent(ok)
    PROVE  RegistersTypeOK'
BY DEF RegistersTypeOK, TorqueOnCurrent

LEMMA SyncPoseType ==
    ASSUME NEW probed, NEW ok, RegistersTypeOK, SyncPose(probed, ok)
    PROVE  RegistersTypeOK'
BY DEF RegistersTypeOK, SyncPose

LEMMA ActiveInServos == ASSUME TypeOK, at \in RangeSteps PROVE Active \subseteq Servos
BY StagesType, ServoIds DEF TypeOK, Active, Group

LEMMA MovedInServos ==
    ASSUME stage \in Legs
    PROVE  MovedServos \subseteq Servos /\ ProbedServo \subseteq MovedServos
BY ServoIds DEF MovedServos, ProbedServo, Joints

(***************************************************************************)
(* Types                                                                   *)
(***************************************************************************)
LEMMA NextStageType ==
    ASSUME stage \in 1 .. Len(Stages), NextStage
    PROVE  /\ at' \in {"report", "lower", "place"}
           /\ stage' \in 1 .. Len(Stages)
BY StagesType DEF NextStage

LEMMA RangeCallType == ASSUME NEW ok \in BOOLEAN, TypeOK, RangeCall(ok) PROVE TypeOK'
<1>1. Len(Stages) = 6 /\ RegistersTypeOK
  BY StagesType DEF TypeOK
<1>2. CASE Validate(ok)
  BY <1>1, <1>2
  DEF TypeOK, Validate, CallOrReturn, Call, RegistersTypeOK, RangeSteps, WorkspaceSteps
<1>3. CASE TorqueOff(ok)
  BY <1>1, SwitchTorqueType, <1>3
  DEF TypeOK, TorqueOff, CallOrReturn, Call, RangeSteps, WorkspaceSteps
<1>4. CASE TorqueOn(ok)
  BY <1>1, TorqueOnCurrentType, <1>4
  DEF TypeOK, TorqueOn, CallOrReturn, Call, RangeSteps, WorkspaceSteps
<1>5. CASE SetLimits(ok)
  BY <1>1, SetLimitType, <1>5
  DEF TypeOK, SetLimits, CallOrReturn, Call, Limits, RangeSteps, WorkspaceSteps
<1>6. CASE LayDown(ok)
  BY <1>1, SyncPoseType, <1>6
  DEF TypeOK, LayDown, CallOrRestore, Call, RangeSteps, WorkspaceSteps
<1>7. CASE ReadPose(ok)
  BY <1>1, <1>7
  DEF TypeOK, ReadPose, CallOrRestore, Call, RegistersTypeOK, RangeSteps, WorkspaceSteps
<1>8. CASE Lower(ok)
  BY <1>1, SetLimitType, <1>8
  DEF TypeOK, Lower, CallOrRestore, Call, Limits, RangeSteps, WorkspaceSteps
<1>9. CASE SweepUp(ok)
  BY <1>1, SyncPoseType, <1>9 DEF TypeOK, SweepUp, Sweep, Call, RangeSteps, WorkspaceSteps
<1>10. CASE SweepDown(ok)
  BY <1>1, SyncPoseType, <1>10 DEF TypeOK, SweepDown, Sweep, Call, RangeSteps, WorkspaceSteps
<1>11. CASE Release(ok)
  BY <1>1, SwitchTorqueType, <1>11
  DEF TypeOK, Release, CallOrRestore, Call, RangeSteps, WorkspaceSteps
<1>12. CASE Raise(ok)
  BY <1>1, SetLimitType, <1>12
  DEF TypeOK, Raise, CallOrRestore, Call, Limits, RangeSteps, WorkspaceSteps
<1>13. CASE Hold(ok)
  BY <1>1, SwitchTorqueType, NextStageType, <1>13 DEF TypeOK, Hold, RangeSteps, WorkspaceSteps
<1>14. CASE PlaceGroup(ok)
  BY <1>1, SyncPoseType, NextStageType, <1>14 DEF TypeOK, PlaceGroup, RangeSteps, WorkspaceSteps
<1>15. CASE WriteReport(ok)
  BY <1>1, <1>15
  DEF TypeOK, WriteReport, CallOrRestore, Call, RegistersTypeOK, RangeSteps, WorkspaceSteps
<1>16. CASE RestoreLimits(ok)
  BY <1>1, SetLimitType, <1>16 DEF TypeOK, RestoreLimits, Limits, RangeSteps, WorkspaceSteps
<1>17. CASE Cleanup(ok)
  BY <1>1, SyncPoseType, <1>17 DEF TypeOK, Cleanup, RangeSteps, WorkspaceSteps
<1> QED
  BY <1>2, <1>3, <1>4, <1>5, <1>6, <1>7, <1>8, <1>9, <1>10, <1>11, <1>12, <1>13, <1>14,
     <1>15, <1>16, <1>17
  DEF RangeCall

LEMMA WorkspaceCallType == ASSUME NEW ok \in BOOLEAN, TypeOK, WorkspaceCall(ok) PROVE TypeOK'
<1>1. RegistersTypeOK /\ NumLegs \in Nat \ {0}
  BY LegsAssumption DEF TypeOK
<1>2. CASE WorkspaceTorqueOn(ok)
  BY <1>1, TorqueOnCurrentType, <1>2
  DEF TypeOK, WorkspaceTorqueOn, CallOrReturn, Call, Legs, RangeSteps, WorkspaceSteps
<1>3. CASE WorkspaceLimits(ok)
  BY <1>1, SetLimitType, <1>3
  DEF TypeOK, WorkspaceLimits, CallOrReturn, Call, Limits, limit_for, Legs, RangeSteps,
      WorkspaceSteps
<1>4. CASE ReadStandPose(ok)
  BY <1>1, <1>4
  DEF TypeOK, ReadStandPose, CallOrReturn, Call, RegistersTypeOK, Legs, RangeSteps,
      WorkspaceSteps
<1>5. CASE LiftOn(ok)
  BY <1>1, SetLimitType, <1>5
  DEF TypeOK, LiftOn, WindowOn, CallOrGiveUp, Call, Limits, limit_for, Legs, RangeSteps,
      WorkspaceSteps
<1>6. CASE Lift(ok)
  BY <1>1, SyncPoseType, <1>6 DEF TypeOK, Lift, WindowAction, Legs, RangeSteps, WorkspaceSteps
<1>7. CASE LiftOff(ok)
  BY <1>1, SetLimitType, <1>7
  DEF TypeOK, LiftOff, WindowOff, RegistersTypeOK, Limits, limit_for, Legs, RangeSteps,
      WorkspaceSteps
<1>8. CASE ProbeOn(ok)
  BY <1>1, SetLimitType, <1>8
  DEF TypeOK, ProbeOn, CallOrGiveUp, Call, Limits, limit_for, Legs, RangeSteps,
      WorkspaceSteps
<1>9. CASE Probe(ok)
  BY <1>1, SyncPoseType, <1>9
  DEF TypeOK, Probe, CallOrGiveUp, Call, Legs, RangeSteps, WorkspaceSteps
<1>10. CASE RetractOn(ok)
  BY <1>1, SetLimitType, <1>10
  DEF TypeOK, RetractOn, WindowOn, CallOrGiveUp, Call, Limits, limit_for, Legs, RangeSteps,
      WorkspaceSteps
<1>11. CASE Retract(ok)
  BY <1>1, SyncPoseType, <1>11
  DEF TypeOK, Retract, WindowAction, Legs, RangeSteps, WorkspaceSteps
<1>12. CASE RetractOff(ok)
  BY <1>1, SetLimitType, <1>12
  DEF TypeOK, RetractOff, WindowOff, RegistersTypeOK, Limits, limit_for, Legs, RangeSteps,
      WorkspaceSteps
<1>13. CASE ResetOn(ok)
  BY <1>1, SetLimitType, <1>13
  DEF TypeOK, ResetOn, WindowOn, CallOrGiveUp, Call, Limits, limit_for, Legs, RangeSteps,
      WorkspaceSteps
<1>14. CASE ResetLeg(ok)
  BY <1>1, SyncPoseType, <1>14
  DEF TypeOK, ResetLeg, WindowAction, Legs, RangeSteps, WorkspaceSteps
<1>15. CASE ResetOff(ok)
  <2>1. at' \in {"w-restore", "lift on"} /\ failed' \in BOOLEAN
    BY <1>15 DEF TypeOK, ResetOff, WindowOff, WorkspaceSteps
  <2>2. /\ at' = "lift on" => stage < NumLegs
        /\ stage' = IF at' = "lift on" THEN stage + 1 ELSE stage
    BY <1>15 DEF ResetOff, WindowOff
  <2>3. stage \in Legs
    BY <1>15 DEF TypeOK, ResetOff, WindowOff, WorkspaceSteps
  <2>4. stage < NumLegs => stage + 1 \in Legs
    BY <2>3, LegsAssumption DEF Legs
  <2>5. stage' \in Legs
    BY <2>2, <2>3, <2>4
  <2>6. RegistersTypeOK'
    BY <1>1, <1>15, SetLimitType DEF ResetOff, WindowOff, RegistersTypeOK, Limits, limit_for
  <2> QED
    BY <1>15, <2>1, <2>5, <2>6
    DEF TypeOK, ResetOff, WindowOff, RangeSteps, WorkspaceSteps
<1>16. CASE WorkspaceRestore(ok)
  BY <1>1, SetLimitType, <1>16
  DEF TypeOK, WorkspaceRestore, Limits, limit_for, Legs, RangeSteps, WorkspaceSteps
<1>17. CASE WriteWorkspace(ok)
  BY <1>1, <1>17 DEF TypeOK, WriteWorkspace, RegistersTypeOK, Legs, RangeSteps, WorkspaceSteps
<1> QED
  BY <1>2, <1>3, <1>4, <1>5, <1>6, <1>7, <1>8, <1>9, <1>10, <1>11, <1>12, <1>13, <1>14,
     <1>15, <1>16, <1>17
  DEF WorkspaceCall

LEMMA ScansInitType == Init => TypeOK
BY FirstStage
DEF Init, TypeOK, RegistersInit, RegistersTypeOK, Limits, RangeSteps, WorkspaceSteps

LEMMA ScansTypeStep == TypeOK /\ [Next]_vars => TypeOK'
<1> SUFFICES ASSUME TypeOK, [Next]_vars PROVE TypeOK'
  OBVIOUS
<1>1. CASE StartRanges
  BY <1>1, FirstStage DEF TypeOK, StartRanges, RegistersTypeOK, RangeSteps, WorkspaceSteps
<1>2. CASE StartWorkspace
  BY <1>2, FirstStage DEF TypeOK, StartWorkspace, RegistersTypeOK, RangeSteps, WorkspaceSteps
<1>3. ASSUME NEW ok \in BOOLEAN, RangeCall(ok) PROVE TypeOK'
  BY <1>3, RangeCallType
<1>4. ASSUME NEW ok \in BOOLEAN, WorkspaceCall(ok) PROVE TypeOK'
  BY <1>4, WorkspaceCallType
<1>5. CASE ScanKilled
  BY <1>5 DEF TypeOK, ScanKilled, RegistersTypeOK, RangeSteps, WorkspaceSteps
<1>6. CASE UNCHANGED vars
  BY <1>6 DEF TypeOK, RegistersTypeOK
<1> QED
  BY <1>1, <1>2, <1>3, <1>4, <1>5, <1>6 DEF Next

\* Types hold in every state of the scans, for any number of legs.
THEOREM TypeCorrect == Spec => []TypeOK
BY ScansInitType, ScansTypeStep, PTL DEF Spec

(***************************************************************************)
(* What the bus calls do to the limits and the goals                       *)
(***************************************************************************)
LEMMA SetLimitEffect ==
    ASSUME NEW ids, ids \subseteq Servos, NEW value, NEW ok \in BOOLEAN,
           RegistersTypeOK, SetLimit(ids, value, ok)
    PROVE  /\ torque' = torque
           /\ \A s \in Servos : \/ limit'[s] = limit[s] /\ goal'[s] = goal[s]
                                \/ limit'[s] \in {limit[s], value} /\ goal'[s] = "here"
           /\ \A s \in Servos \ ids : limit'[s] = limit[s]
           /\ ok => \A s \in ids : limit'[s] = value /\ goal'[s] = "here"
<1>1. PICK done \in Prefixes(ids), synced \in Prefixes(ids) :
        /\ done \subseteq synced
        /\ ok => done = ids
        /\ limit' = [s \in Servos |-> IF s \in done THEN value ELSE limit[s]]
        /\ goal' = [s \in Servos |-> IF s \in synced THEN "here" ELSE goal[s]]
  BY DEF SetLimit
<1>2. done \subseteq ids
  BY <1>1, PrefixesOf
<1>3. torque' = torque
  BY DEF SetLimit
<1> QED
  BY <1>1, <1>2, <1>3 DEF RegistersTypeOK

LEMMA SetLimitDone ==
    ASSUME NEW ids, ids \subseteq Servos, NEW value, NEW ok, ok, SetLimit(ids, value, ok)
    PROVE  \A s \in ids : limit'[s] = value
<1>1. limit' = [s \in Servos |-> IF s \in ids THEN value ELSE limit[s]]
  BY DEF SetLimit
<1> QED
  BY <1>1

LEMMA SyncPoseEffect ==
    ASSUME NEW probed, NEW ok, RegistersTypeOK, SyncPose(probed, ok)
    PROVE  /\ torque' = torque /\ limit' = limit
           /\ \A s \in Servos : goal'[s] = "end" => s \in probed \/ goal[s] = "end"
BY DEF SyncPose, RegistersTypeOK

LEMMA SwitchTorqueEffect ==
    ASSUME NEW ids, ids \subseteq Servos, NEW on \in BOOLEAN, NEW ok \in BOOLEAN,
           RegistersTypeOK, SwitchTorque(ids, on, ok)
    PROVE  /\ limit' = limit /\ goal' = goal
           /\ \A s \in Servos : torque'[s] \in {torque[s], on}
           /\ \A s \in Servos \ ids : torque'[s] = torque[s]
           /\ ok => \A s \in ids : torque'[s] = on
<1>1. PICK reached \in Prefixes(ids) :
        /\ ok => reached = ids
        /\ torque' = [s \in Servos |-> IF s \in reached THEN on ELSE torque[s]]
  BY DEF SwitchTorque
<1>2. reached \subseteq ids
  BY <1>1, PrefixesOf
<1> QED
  BY <1>1, <1>2 DEF SwitchTorque, RegistersTypeOK

LEMMA TorqueOnCurrentEffect ==
    ASSUME NEW ok \in BOOLEAN, RegistersTypeOK, TorqueOnCurrent(ok)
    PROVE  /\ limit' = limit
           /\ \A s \in Servos : goal'[s] \in {goal[s], "here"}
           /\ \A s \in Servos : torque'[s] # torque[s] => goal'[s] = "here"
           /\ ok => Held(Servos)'
BY DEF TorqueOnCurrent, RegistersTypeOK, Held

(***************************************************************************)
(* The limits, call by call                                                *)
(***************************************************************************)
LEMMA StageKept ==
    ASSUME stage' = stage
    PROVE  Active' = Active /\ MovedServos' = MovedServos /\ ProbedServo' = ProbedServo
BY DEF Active, MovedServos, ProbedServo

LEMMA RangeCallInv == ASSUME NEW ok \in BOOLEAN, TypeOK, ScanInv, RangeCall(ok) PROVE ScanInv'
<1> USE DEF ScanInv, PushesAtLowLimit, ProbedIsWeak, RaisedWithoutTorque, RaisedAtRest,
            OthersHeld, OnlyMovedLegIsStrong, Held, Strong, RangeSteps, WorkspaceSteps
<1>1. RegistersTypeOK
  BY DEF TypeOK
<1>2. CASE Validate(ok)
  BY <1>1, StageKept, <1>2 DEF Validate, CallOrReturn, Call
<1>3. CASE TorqueOff(ok)
  BY <1>1, StageKept, SwitchTorqueEffect, <1>3 DEF TorqueOff, CallOrReturn, Call
<1>4. CASE TorqueOn(ok)
  BY <1>1, StageKept, TorqueOnCurrentEffect, <1>4 DEF TorqueOn, CallOrReturn, Call
<1>5. CASE SetLimits(ok)
  BY <1>1, StageKept, SetLimitEffect, <1>5 DEF SetLimits, CallOrReturn, Call
<1>6. CASE LayDown(ok)
  BY <1>1, StageKept, SyncPoseEffect, ActiveInServos, <1>6 DEF LayDown, CallOrRestore, Call
<1>7. CASE ReadPose(ok)
  BY <1>1, StageKept, <1>7 DEF ReadPose, CallOrRestore, Call
<1>8. CASE Lower(ok)
  <2>1. /\ at = "lower" /\ at' = IF ok THEN "sweep up" ELSE "restore"
        /\ failed' = (failed \/ ~ok) /\ stage' = stage
        /\ SetLimit(Active, "low", ok)
    BY <1>8 DEF Lower, CallOrRestore, Call
  <2>2. Active \subseteq Servos /\ Active' = Active
    BY <2>1, ActiveInServos, StageKept
  <2>3. /\ torque' = torque
        /\ \A s \in Servos : \/ limit'[s] = limit[s] /\ goal'[s] = goal[s]
                             \/ limit'[s] \in {limit[s], "low"} /\ goal'[s] = "here"
        /\ \A s \in Servos \ Active : limit'[s] = limit[s]
        /\ ok => \A s \in Active : limit'[s] = "low" /\ goal'[s] = "here"
    BY <1>1, <2>1, <2>2, SetLimitEffect
  <2> QED
    BY <2>1, <2>2, <2>3
<1>9. CASE SweepUp(ok)
  BY <1>1, StageKept, SyncPoseEffect, ActiveInServos, <1>9 DEF SweepUp, Sweep, Call
<1>10. CASE SweepDown(ok)
  BY <1>1, StageKept, SyncPoseEffect, ActiveInServos, <1>10 DEF SweepDown, Sweep, Call
<1>11. CASE Release(ok)
  BY <1>1, StageKept, SwitchTorqueEffect, ActiveInServos, <1>11 DEF Release, CallOrRestore, Call
<1>12. CASE Raise(ok)
  <2>1. /\ at = "raise" /\ at' = IF ok THEN "hold" ELSE "restore"
        /\ failed' = (failed \/ ~ok) /\ stage' = stage
        /\ SetLimit(Active, "high", ok)
    BY <1>12 DEF Raise, CallOrRestore, Call
  <2>2. Active \subseteq Servos /\ Active' = Active
    BY <2>1, ActiveInServos, StageKept
  <2>3. /\ torque' = torque
        /\ \A s \in Servos : \/ limit'[s] = limit[s] /\ goal'[s] = goal[s]
                             \/ limit'[s] \in {limit[s], "high"} /\ goal'[s] = "here"
        /\ \A s \in Servos \ Active : limit'[s] = limit[s]
        /\ ok => \A s \in Active : limit'[s] = "high" /\ goal'[s] = "here"
    BY <1>1, <2>1, <2>2, SetLimitEffect
  <2> QED
    BY <2>1, <2>2, <2>3
<1>13. CASE Hold(ok)
  <2>1. /\ at = "hold" /\ SwitchTorque(Active, TRUE, ok)
        /\ failed' = (failed \/ ~ok)
        /\ failed' => at' = "restore"
        /\ ~failed' => NextStage
    BY <1>13 DEF Hold
  <2>2. Active \subseteq Servos /\ stage \in 1 .. Len(Stages)
    BY <2>1, ActiveInServos DEF TypeOK
  <2>3. ~failed' => at' \in {"report", "lower", "place"}
    BY <2>1, <2>2, NextStageType
  <2>4. /\ limit' = limit /\ goal' = goal
        /\ \A s \in Servos \ Active : torque'[s] = torque[s]
    BY <1>1, <2>1, <2>2, SwitchTorqueEffect
  <2>5. ASSUME ok, NEW s \in Active PROVE torque'[s]
    <3>1. torque' = [x \in Servos |-> IF x \in Active THEN TRUE ELSE torque[x]]
      BY <2>1, <2>5 DEF SwitchTorque
    <3> QED
      BY <2>2, <2>5, <3>1
  <2> QED
    BY <2>1, <2>2, <2>3, <2>4, <2>5
<1>14. CASE PlaceGroup(ok)
  <2>1. /\ at = "place" /\ SyncPose({}, ok)
        /\ failed' => at' = "restore"
        /\ ~failed' => NextStage
    BY <1>14 DEF PlaceGroup
  <2>2. ~failed' => at' \in {"report", "lower", "place"}
    BY <2>1, NextStageType DEF TypeOK
  <2>3. /\ torque' = torque /\ limit' = limit
        /\ \A s \in Servos : goal'[s] = "end" => goal[s] = "end"
    BY <1>1, <2>1, SyncPoseEffect
  <2> QED
    BY <2>1, <2>2, <2>3
<1>15. CASE WriteReport(ok)
  BY <1>1, StageKept, <1>15 DEF WriteReport, CallOrRestore, Call
<1>16. CASE RestoreLimits(ok)
  BY <1>1, StageKept, SetLimitEffect, <1>16 DEF RestoreLimits
<1>17. CASE Cleanup(ok)
  BY <1>1, StageKept, SyncPoseEffect, ActiveInServos, <1>17 DEF Cleanup
<1> QED
  BY <1>2, <1>3, <1>4, <1>5, <1>6, <1>7, <1>8, <1>9, <1>10, <1>11, <1>12, <1>13, <1>14,
     <1>15, <1>16, <1>17
  DEF RangeCall

\* What the invariant asks of the steps at which the workspace of a leg is sensed.
InLegScan == WorkspaceSteps \ {"w-on", "w-limits"}
OthersWeak == \A s \in Servos : limit[s] # "low" => s \in MovedServos

LEMMA WorkspaceInv ==
    ASSUME at' \in InLegScan \cup {"idle"}, PushesAtLowLimit',
           at' = "probe" => \A s \in ProbedServo' : limit'[s] = "low",
           at' \in InLegScan => OthersWeak'
    PROVE  ScanInv'
BY DEF InLegScan, OthersWeak, ScanInv, ProbedIsWeak, RaisedWithoutTorque, RaisedAtRest,
       OthersHeld, OnlyMovedLegIsStrong, WorkspaceSteps

LEMMA LegLimitKeeps ==
    ASSUME NEW ids, ids \subseteq MovedServos, NEW value, NEW ok \in BOOLEAN,
           TypeOK, ScanInv, at \in InLegScan, SetLimit(ids, value, ok)
    PROVE  /\ PushesAtLowLimit'
           /\ stage' = stage => OthersWeak'
<1>1. RegistersTypeOK /\ stage \in Legs
  BY DEF TypeOK, InLegScan
<1>2. ids \subseteq Servos
  BY <1>1, MovedInServos
<1>3. /\ \A s \in Servos : \/ limit'[s] = limit[s] /\ goal'[s] = goal[s]
                           \/ limit'[s] \in {limit[s], value} /\ goal'[s] = "here"
      /\ \A s \in Servos \ ids : limit'[s] = limit[s]
  BY <1>1, <1>2, SetLimitEffect
<1>4. OthersWeak /\ PushesAtLowLimit
  BY DEF InLegScan, OthersWeak, ScanInv, OnlyMovedLegIsStrong
<1>5. PushesAtLowLimit'
  BY <1>3, <1>4 DEF PushesAtLowLimit
<1>6. stage' = stage => OthersWeak'
  BY <1>3, <1>4, StageKept DEF OthersWeak
<1> QED
  BY <1>5, <1>6

LEMMA LegMoveKeeps ==
    ASSUME NEW probed, NEW ok, TypeOK, ScanInv, at \in InLegScan, SyncPose(probed, ok),
           \A s \in probed : limit[s] = "low", stage' = stage
    PROVE  PushesAtLowLimit' /\ OthersWeak'
<1>1. /\ limit' = limit
      /\ \A s \in Servos : goal'[s] = "end" => s \in probed \/ goal[s] = "end"
  BY SyncPoseEffect DEF TypeOK
<1>2. OthersWeak /\ PushesAtLowLimit
  BY DEF InLegScan, OthersWeak, ScanInv, OnlyMovedLegIsStrong
<1> QED
  BY <1>1, <1>2, StageKept DEF OthersWeak, PushesAtLowLimit

LEMMA WorkspaceCallInv ==
    ASSUME NEW ok \in BOOLEAN, TypeOK, ScanInv, WorkspaceCall(ok) PROVE ScanInv'
<1>1. RegistersTypeOK
  BY DEF TypeOK
<1>2. at \in WorkspaceSteps => stage \in Legs /\ ProbedServo \subseteq MovedServos
  BY MovedInServos DEF TypeOK
<1>3. CASE WorkspaceTorqueOn(ok)
  BY <1>1, TorqueOnCurrentEffect, <1>3
  DEF WorkspaceTorqueOn, CallOrReturn, Call, ScanInv, PushesAtLowLimit, ProbedIsWeak,
      RaisedWithoutTorque, RaisedAtRest, OthersHeld, OnlyMovedLegIsStrong, WorkspaceSteps
<1>4. CASE WorkspaceLimits(ok)
  BY <1>1, SetLimitEffect, <1>4
  DEF WorkspaceLimits, CallOrReturn, Call, limit_for, ScanInv, PushesAtLowLimit, ProbedIsWeak,
      RaisedWithoutTorque, RaisedAtRest, OthersHeld, OnlyMovedLegIsStrong, WorkspaceSteps
<1>5. CASE ReadStandPose(ok)
  BY <1>1, StageKept, <1>5
  DEF ReadStandPose, CallOrReturn, Call, ScanInv, PushesAtLowLimit, ProbedIsWeak,
      RaisedWithoutTorque, RaisedAtRest, OthersHeld, OnlyMovedLegIsStrong, WorkspaceSteps
<1>6. CASE LiftOn(ok)
  <2>1. /\ at \in InLegScan /\ at' \in InLegScan \ {"probe"} /\ stage' = stage
        /\ SetLimit(MovedServos, "low", ok)
    BY <1>6 DEF LiftOn, WindowOn, CallOrGiveUp, Call, limit_for, InLegScan, WorkspaceSteps
  <2> QED
    BY <1>2, <2>1, LegLimitKeeps, WorkspaceInv DEF InLegScan
<1>7. CASE Lift(ok)
  <2>1. at \in InLegScan /\ at' \in InLegScan /\ at' # "probe" /\ stage' = stage
        /\ SyncPose({}, ok)
    BY <1>7 DEF Lift, WindowAction, InLegScan, WorkspaceSteps
  <2> QED
    BY <2>1, LegMoveKeeps, WorkspaceInv
<1>8. CASE LiftOff(ok)
  <2>1. /\ at \in InLegScan /\ at' \in InLegScan \ {"probe"} /\ stage' = stage
        /\ SetLimit(MovedServos, "high", ok) \/ UNCHANGED registers
    BY <1>8 DEF LiftOff, WindowOff, limit_for, InLegScan, WorkspaceSteps
  <2>2. CASE SetLimit(MovedServos, "high", ok)
    BY <1>2, <2>1, <2>2, LegLimitKeeps, WorkspaceInv DEF InLegScan
  <2>3. CASE UNCHANGED registers
    BY <2>1, <2>3, WorkspaceInv, StageKept
    DEF ScanInv, PushesAtLowLimit, OnlyMovedLegIsStrong, OthersWeak, InLegScan
  <2> QED
    BY <2>1, <2>2, <2>3
<1>9. CASE ProbeOn(ok)
  <2>1. /\ at \in InLegScan /\ at' \in InLegScan /\ stage' = stage
        /\ at' = "probe" => ok
        /\ SetLimit(ProbedServo, "low", ok)
    BY <1>9 DEF ProbeOn, CallOrGiveUp, Call, limit_for, InLegScan, WorkspaceSteps
  <2>2. ok => \A s \in ProbedServo' : limit'[s] = "low"
    <3>1. ok => \A s \in ProbedServo : limit'[s] = "low"
      BY <1>2, <2>1, MovedInServos, SetLimitDone DEF InLegScan
    <3> QED
      BY <2>1, <3>1, StageKept
  <2> QED
    BY <1>2, <2>1, <2>2, LegLimitKeeps, WorkspaceInv DEF InLegScan
<1>10. CASE Probe(ok)
  <2>1. at \in InLegScan /\ at' \in InLegScan /\ at' # "probe" /\ stage' = stage
        /\ SyncPose(ProbedServo, ok)
    BY <1>10 DEF Probe, CallOrGiveUp, Call, InLegScan, WorkspaceSteps
  <2>2. \A s \in ProbedServo : limit[s] = "low"
    BY <1>10 DEF Probe, CallOrGiveUp, Call, ScanInv, ProbedIsWeak
  <2> QED
    BY <2>1, <2>2, LegMoveKeeps, WorkspaceInv
<1>11. CASE RetractOn(ok)
  <2>1. /\ at \in InLegScan /\ at' \in InLegScan \ {"probe"} /\ stage' = stage
        /\ SetLimit(ProbedServo, "low", ok)
    BY <1>11 DEF RetractOn, WindowOn, CallOrGiveUp, Call, limit_for, InLegScan, WorkspaceSteps
  <2> QED
    BY <1>2, <2>1, LegLimitKeeps, WorkspaceInv DEF InLegScan
<1>12. CASE Retract(ok)
  <2>1. at \in InLegScan /\ at' \in InLegScan /\ at' # "probe" /\ stage' = stage
        /\ SyncPose({}, ok)
    BY <1>12 DEF Retract, WindowAction, InLegScan, WorkspaceSteps
  <2> QED
    BY <2>1, LegMoveKeeps, WorkspaceInv
<1>13. CASE RetractOff(ok)
  <2>1. /\ at \in InLegScan /\ at' \in InLegScan \ {"probe"} /\ stage' = stage
        /\ SetLimit(ProbedServo, "high", ok) \/ UNCHANGED registers
    BY <1>13 DEF RetractOff, WindowOff, limit_for, InLegScan, WorkspaceSteps
  <2>2. CASE SetLimit(ProbedServo, "high", ok)
    BY <1>2, <2>1, <2>2, LegLimitKeeps, WorkspaceInv DEF InLegScan
  <2>3. CASE UNCHANGED registers
    BY <2>1, <2>3, WorkspaceInv, StageKept
    DEF ScanInv, PushesAtLowLimit, OnlyMovedLegIsStrong, OthersWeak, InLegScan
  <2> QED
    BY <2>1, <2>2, <2>3
<1>14. CASE ResetOn(ok)
  <2>1. /\ at \in InLegScan /\ at' \in InLegScan \ {"probe"} /\ stage' = stage
        /\ SetLimit(MovedServos, "high", ok)
    BY <1>14 DEF ResetOn, WindowOn, CallOrGiveUp, Call, limit_for, InLegScan, WorkspaceSteps
  <2> QED
    BY <1>2, <2>1, LegLimitKeeps, WorkspaceInv DEF InLegScan
<1>15. CASE ResetLeg(ok)
  <2>1. at \in InLegScan /\ at' \in InLegScan /\ at' # "probe" /\ stage' = stage
        /\ SyncPose({}, ok)
    BY <1>15 DEF ResetLeg, WindowAction, InLegScan, WorkspaceSteps
  <2> QED
    BY <2>1, LegMoveKeeps, WorkspaceInv
<1>16. CASE ResetOff(ok)
  <2>1. /\ at \in InLegScan /\ at' \in {"w-restore", "lift on"}
        /\ SetLimit(MovedServos, "low", ok)
    BY <1>16 DEF ResetOff, WindowOff, limit_for, InLegScan, WorkspaceSteps
  <2>2. /\ at' = "lift on" => ok
        /\ at' # "lift on" => stage' = stage
    BY <1>16 DEF ResetOff, WindowOff
  <2>3. PushesAtLowLimit' /\ (stage' = stage => OthersWeak')
    BY <2>1, LegLimitKeeps
  <2>4. CASE ok
    <3>1. limit' = [s \in Servos |-> IF s \in MovedServos THEN "low" ELSE limit[s]]
      BY <2>1, <2>4 DEF SetLimit
    <3>2. \A s \in Servos : limit'[s] = "low"
      BY <2>1, <3>1 DEF ScanInv, OnlyMovedLegIsStrong, InLegScan
    <3> QED
      BY <2>1, <2>3, <3>2, WorkspaceInv DEF InLegScan, OthersWeak, WorkspaceSteps
  <2>5. CASE ~ok
    BY <2>1, <2>2, <2>3, <2>5, WorkspaceInv DEF InLegScan, WorkspaceSteps
  <2> QED
    BY <2>4, <2>5
<1>17. CASE WorkspaceRestore(ok)
  BY <1>1, StageKept, SetLimitEffect, <1>17
  DEF WorkspaceRestore, limit_for, ScanInv, PushesAtLowLimit, ProbedIsWeak,
      RaisedWithoutTorque, RaisedAtRest, OthersHeld, OnlyMovedLegIsStrong, WorkspaceSteps
<1>18. CASE WriteWorkspace(ok)
  BY <1>18, WorkspaceInv
  DEF WriteWorkspace, ScanInv, PushesAtLowLimit, InLegScan, WorkspaceSteps
<1> QED
  BY <1>3, <1>4, <1>5, <1>6, <1>7, <1>8, <1>9, <1>10, <1>11, <1>12, <1>13, <1>14, <1>15,
     <1>16, <1>17, <1>18
  DEF WorkspaceCall

(***************************************************************************)
(* The theorems                                                            *)
(***************************************************************************)
LEMMA ScanInvStep == TypeOK /\ ScanInv /\ [Next]_vars => ScanInv'
<1> SUFFICES ASSUME TypeOK, ScanInv, [Next]_vars PROVE ScanInv'
  OBVIOUS
<1> USE DEF ScanInv, PushesAtLowLimit, ProbedIsWeak, RaisedWithoutTorque, RaisedAtRest,
            OthersHeld, OnlyMovedLegIsStrong, WorkspaceSteps
<1>1. CASE StartRanges
  BY <1>1 DEF StartRanges
<1>2. CASE StartWorkspace
  BY <1>2 DEF StartWorkspace
<1>3. ASSUME NEW ok \in BOOLEAN, RangeCall(ok) PROVE ScanInv'
  BY <1>3, RangeCallInv
<1>4. ASSUME NEW ok \in BOOLEAN, WorkspaceCall(ok) PROVE ScanInv'
  BY <1>4, WorkspaceCallInv
<1>5. CASE ScanKilled
  BY <1>5 DEF ScanKilled
<1>6. CASE UNCHANGED vars
  BY <1>6, StageKept DEF Held, Strong
<1> QED
  BY <1>1, <1>2, <1>3, <1>4, <1>5, <1>6 DEF Next

LEMMA ScanInvInit == Init => ScanInv
BY DEF Init, RegistersInit, ScanInv, PushesAtLowLimit, ProbedIsWeak, RaisedWithoutTorque,
       RaisedAtRest, OthersHeld, OnlyMovedLegIsStrong, WorkspaceSteps

\* The inductive invariant: at every step of both scans, whichever calls failed
\* before and wherever earlier scans were killed, the servos have the limits and
\* the torque the next call relies on.
THEOREM ScanInvariant == Spec => []ScanInv
BY TypeCorrect, ScanInvInit, ScanInvStep, PTL DEF Spec

\* No servo is pushed against the end of its travel above the sensing limit
\* (sense_group_bound, probe_tibia_mechanical_limit).
THEOREM NeverPushesHard == Spec => []PushesAtLowLimit
<1>1. ScanInv => PushesAtLowLimit
  BY DEF ScanInv
<1> QED
  BY <1>1, ScanInvariant, PTL

\* The stance is held at the sensing limit by every leg that is not being sensed
\* (with_torque_window).
THEOREM StanceStaysWeak == Spec => []OnlyMovedLegIsStrong
<1>1. ScanInv => OnlyMovedLegIsStrong
  BY DEF ScanInv
<1> QED
  BY <1>1, ScanInvariant, PTL

\* A range scan that succeeds leaves the whole robot held at the moving limit
\* (sense_ranges, whose cleanup cannot fail).
THEOREM SuccessIsHeld == Spec => []OkMeansHeld
<1>1. TypeOK /\ ScanInv => OkMeansHeld
  BY DEF TypeOK, ScanInv, OthersHeld, OkMeansHeld, Held, Strong
<1> QED
  BY <1>1, TypeCorrect, ScanInvariant, PTL

\* A limit is raised only over servos at rest on their own position, with their
\* torque off (sense_joint_group_range).
THEOREM RaisesAtRest == Spec => []RaisedAtRest
<1>1. ScanInv => RaisedAtRest
  BY DEF ScanInv
<1> QED
  BY <1>1, ScanInvariant, PTL

LEMMA TorqueStep == TypeOK /\ ScanInv /\ [Next]_vars => [ComesOnHere]_vars
<1> SUFFICES ASSUME TypeOK, ScanInv, [Next]_vars PROVE [ComesOnHere]_vars
  OBVIOUS
<1>1. ASSUME NEW ok \in BOOLEAN, TorqueOnCurrent(ok) PROVE ComesOnHere
  BY <1>1, TorqueOnCurrentEffect DEF TypeOK, ComesOnHere
<1>2. ASSUME NEW ok \in BOOLEAN, Hold(ok) PROVE ComesOnHere
  <2>1. at = "hold" /\ SwitchTorque(Active, TRUE, ok) /\ Active \subseteq Servos
    BY <1>2, ActiveInServos DEF Hold, RangeSteps
  <2>2. goal' = goal /\ \A s \in Servos \ Active : torque'[s] = torque[s]
    BY <2>1, SwitchTorqueEffect DEF TypeOK
  <2>3. \A s \in Active : goal[s] = "here"
    BY <2>1 DEF ScanInv, RaisedAtRest
  <2> QED
    BY <2>2, <2>3 DEF ComesOnHere
<1>3. ASSUME NEW ok \in BOOLEAN, RangeCall(ok) PROVE ComesOnHere
  BY <1>1, <1>2, <1>3
  DEF RangeCall, Validate, TorqueOff, TorqueOn, SetLimits, LayDown, ReadPose, Lower, SweepUp,
      SweepDown, Sweep, Release, Raise, PlaceGroup, WriteReport, RestoreLimits, Cleanup,
      SetLimit, SyncPose, SwitchTorque, TypeOK, RegistersTypeOK, ComesOnHere
<1>4. ASSUME NEW ok \in BOOLEAN, WorkspaceCall(ok) PROVE ComesOnHere
  BY <1>1, <1>4
  DEF WorkspaceCall, WorkspaceTorqueOn, WorkspaceLimits, ReadStandPose, LiftOn, Lift, LiftOff,
      ProbeOn, Probe, RetractOn, Retract, RetractOff, ResetOn, ResetLeg, ResetOff,
      WorkspaceRestore, WriteWorkspace, WindowOn, WindowAction, WindowOff, SetLimit, SyncPose,
      ComesOnHere
<1> QED
  BY <1>3, <1>4 DEF Next, StartRanges, StartWorkspace, ScanKilled, vars, ComesOnHere

\* Torque comes on only over a goal at the servo's own position
\* (enable_torque_on_current_position, sense_joint_group_range).
THEOREM TorqueComesOnHere == Spec => TorqueOnHere
BY TorqueStep, TypeCorrect, ScanInvariant, PTL DEF Spec, TorqueOnHere

================================================================================
