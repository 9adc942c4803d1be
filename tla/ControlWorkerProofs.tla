-------------------------- MODULE ControlWorkerProofs --------------------------
(***************************************************************************)
(* Theorems about ControlWorker for any number of servos, stride, strike   *)
(* limits, queue bound and sets of modes, readings and IMU samples.        *)
(***************************************************************************)
EXTENDS ControlWorkerGate, SequenceTheorems, TLAPS

LEMMA CursorInRange ==
    ASSUME NEW a \in Nat
    PROVE  a % NumServos \in Servos
BY NumServosAssumption DEF Servos

LEMMA TailOfQueue ==
    ASSUME queue \in Seq(Requests), queue # <<>>
    PROVE  Tail(queue) \in Seq(Requests)
OBVIOUS

LEMMA QueueAfterAppend ==
    ASSUME queue \in Seq(Requests), NEW request \in Requests
    PROVE  Append(queue, request) \in Seq(Requests)
OBVIOUS

(***************************************************************************)
(* Type correctness                                                        *)
(***************************************************************************)
LEMMA OtherStepType == TypeOK /\ OtherStep => TypeOK'
<1> SUFFICES ASSUME TypeOK, OtherStep PROVE TypeOK'
  OBVIOUS
<1> USE DEF TypeOK, GoTo, motionVars, hwVars, sharedVars, NoMode, NoFault, Faults,
            NoPose, Poses
<1> USE DEF WorkerTypeOK, MotionTypeOK, SharedTypeOK, ServoTypeOK
<1>1. CASE KeepMode
  BY <1>1 DEF KeepMode, Steps
<1>2. CASE SwitchMode
  <2>1. WorkerTypeOK'
    BY <1>2 DEF SwitchMode, NewMotion, Steps
  <2>2. MotionTypeOK'
    BY <1>2 DEF SwitchMode, NewMotion
  <2>3. SharedTypeOK'
    BY <1>2 DEF SwitchMode, NewMotion
  <2>4. ServoTypeOK'
    BY <1>2 DEF SwitchMode, NewMotion
  <2>5. QED
    BY <2>1, <2>2, <2>3, <2>4
<1>3. CASE BusAlreadyOpen
  BY <1>3 DEF BusAlreadyOpen, Steps
<1>4. CASE OpenBus
  <2>1. WorkerTypeOK'
    BY <1>4 DEF OpenBus, Disarm, Steps
  <2>2. MotionTypeOK'
    <3>1. CASE Disarm
      BY <3>1 DEF Disarm
    <3>2. CASE UNCHANGED motionVars
      BY <3>2
    <3>3. QED
      BY <1>4, <3>1, <3>2 DEF OpenBus
  <2>3. SharedTypeOK'
    BY <1>4 DEF OpenBus, Disarm
  <2>4. ServoTypeOK'
    BY <1>4 DEF OpenBus, Disarm
  <2>5. QED
    BY <2>1, <2>2, <2>3, <2>4
<1>5. CASE OpenBusFails
  <2>1. WorkerTypeOK'
    BY <1>5 DEF OpenBusFails, Disarm, Steps
  <2>2. MotionTypeOK'
    BY <1>5 DEF OpenBusFails, Disarm
  <2>3. SharedTypeOK'
    BY <1>5 DEF OpenBusFails, Disarm
  <2>4. ServoTypeOK'
    BY <1>5 DEF OpenBusFails, Disarm
  <2>5. QED
    BY <2>1, <2>2, <2>3, <2>4
<1>6. CASE TorqueNotNeeded
  BY <1>6 DEF TorqueNotNeeded, Steps
<1>7. CASE EnableTorque
  BY <1>7 DEF EnableTorque, Steps
<1>8. CASE EnableTorqueFails
  <2>1. WorkerTypeOK'
    BY <1>8 DEF EnableTorqueFails, Disarm, DropBus, Steps
  <2>2. MotionTypeOK'
    BY <1>8 DEF EnableTorqueFails, Disarm, DropBus
  <2>3. SharedTypeOK'
    BY <1>8 DEF EnableTorqueFails, Disarm, DropBus
  <2>4. ServoTypeOK'
    BY <1>8 DEF EnableTorqueFails, Disarm, DropBus
  <2>5. QED
    BY <2>1, <2>2, <2>3, <2>4
<1>9. CASE NotArming
  BY <1>9 DEF NotArming, Steps
<1>10. CASE ArmMotion
  BY <1>10 DEF ArmMotion, Steps
<1>11. CASE ArmMotionFails
  <2>1. WorkerTypeOK'
    BY <1>11 DEF ArmMotionFails, Disarm, Steps
  <2>2. MotionTypeOK'
    BY <1>11 DEF ArmMotionFails, Disarm
  <2>3. SharedTypeOK'
    BY <1>11 DEF ArmMotionFails, Disarm
  <2>4. ServoTypeOK'
    BY <1>11 DEF ArmMotionFails, Disarm
  <2>5. QED
    BY <2>1, <2>2, <2>3, <2>4
<1>12. CASE SkipSafety
  BY <1>12 DEF SkipSafety, Steps
<1>13. CASE TripAttitude
  BY <1>13 DEF TripAttitude, TripFault, TiltStrikesNow, Steps
<1>14. CASE TripServo
  BY <1>14 DEF TripServo, TripFault, TiltStrikesNow, LowStrikesNow, Steps
<1>15. CASE PassSafety
  BY <1>15 DEF PassSafety, TiltStrikesNow, LowStrikesNow, Steps
<1>16. CASE NoUtility
  BY <1>16 DEF NoUtility, Steps
<1>17. CASE ManualUtility
  BY <1>17, TailOfQueue DEF ManualUtility, UtilityDue, Steps
<1>18. CASE ManualUtilityFails
  BY <1>18, TailOfQueue DEF ManualUtilityFails, UtilityDue, TripFault, DropBus, Steps
<1>19. CASE NoCommand
  BY <1>19 DEF NoCommand, Steps
<1>20. CASE SendCommand
  BY <1>20 DEF SendCommand, Target, DriveKind, Steps
<1>21. CASE SendCommandFails
  <2>1. WorkerTypeOK'
    BY <1>21 DEF SendCommandFails, Target, DriveKind, TripFault, DropBus, Steps
  <2>2. MotionTypeOK'
    BY <1>21 DEF SendCommandFails, Target, DriveKind, TripFault, DropBus
  <2>3. SharedTypeOK'
    BY <1>21 DEF SendCommandFails, Target, DriveKind, TripFault, DropBus
  <2>4. ServoTypeOK'
    BY <1>21 DEF SendCommandFails, Target, DriveKind, TripFault, DropBus
  <2>5. QED
    BY <2>1, <2>2, <2>3, <2>4
<1>22. QED
  BY <1>1, <1>2, <1>3, <1>4, <1>5, <1>6, <1>7, <1>8, <1>9, <1>10, <1>11, <1>12, <1>13, <1>14,
     <1>15, <1>16, <1>17, <1>18, <1>19, <1>20, <1>21
  DEF OtherStep

LEMMA ImuStepType == TypeOK /\ ImuStep => TypeOK'
<1> SUFFICES ASSUME TypeOK, NEW got \in ImuSamples \cup {NoSample}, PollImu(got)
             PROVE  TypeOK'
  BY DEF ImuStep
<1>1. imu' \in AllSamples
  BY SamplesAssumption DEF PollImu, TypeOK, WorkerTypeOK
<1>2. QED
  BY <1>1 DEF PollImu, GoTo, TypeOK, WorkerTypeOK, MotionTypeOK, SharedTypeOK,
             ServoTypeOK, motionVars, sharedVars, hwVars, Steps

LEMMA PollStepType == TypeOK /\ PollStep => TypeOK'
<1> SUFFICES ASSUME TypeOK,
                    NEW budget \in ReadBudgets, NEW down \in BOOLEAN,
                    NEW got \in Answers(budget), PollServos(budget, down, got)
             PROVE  TypeOK'
  BY DEF PollStep
<1>1. budget \in Nat
  BY NumServosAssumption, StrideAssumption DEF ReadBudgets
<1>2. cursor' \in Servos
  <2>1. cursor + budget \in Nat
    BY <1>1, NumServosAssumption DEF TypeOK, WorkerTypeOK, Servos
  <2>2. QED
    BY <2>1, CursorInRange DEF PollServos
<1>3. cache' \in [Servos -> AllReadings \cup {Offline}]
  BY ReadingsAssumption DEF PollServos, Answers, TypeOK, WorkerTypeOK
<1>4. WorkerTypeOK'
  BY <1>2, <1>3 DEF PollServos, TypeOK, WorkerTypeOK, DropBus, Steps
<1>5. MotionTypeOK'
  BY DEF PollServos, TypeOK, MotionTypeOK, TripFault, Faults, Poses
<1>6. SharedTypeOK'
  BY DEF PollServos, TypeOK, SharedTypeOK, sharedVars
<1>7. ServoTypeOK'
  BY DEF PollServos, TypeOK, ServoTypeOK, hwVars
<1>8. QED
  BY <1>4, <1>5, <1>6, <1>7 DEF TypeOK

LEMMA HandlersType == TypeOK /\ Handlers => TypeOK'
<1> SUFFICES ASSUME TypeOK, Handlers PROVE TypeOK'
  OBVIOUS
<1> USE DEF workerVars, motionVars, hwVars
<1>1. WorkerTypeOK' /\ MotionTypeOK' /\ ServoTypeOK'
  BY DEF Handlers, MotionCommand, EnsureManualEnabled, QueueManualAction, TypeOK,
         WorkerTypeOK, MotionTypeOK, ServoTypeOK
<1>2. SharedTypeOK'
  <2>1. ASSUME NEW m \in Modes, MotionCommand(m) PROVE SharedTypeOK'
    BY <2>1, ModesAssumption DEF MotionCommand, TypeOK, SharedTypeOK
  <2>2. CASE EnsureManualEnabled
    BY <2>2 DEF EnsureManualEnabled, TypeOK, SharedTypeOK
  <2>3. ASSUME NEW request \in Requests, QueueManualAction(request)
        PROVE  SharedTypeOK'
    <3>1. queue' \in Seq(Requests)
      BY <2>3, QueueAfterAppend DEF QueueManualAction, TypeOK, SharedTypeOK
    <3>2. QED
      BY <2>3, <3>1 DEF QueueManualAction, workerVars, TypeOK, SharedTypeOK
  <2>4. QED
    BY <2>1, <2>2, <2>3 DEF Handlers
<1>3. QED
  BY <1>1, <1>2 DEF TypeOK

LEMMA InitType == Init => TypeOK
BY ModesAssumption, NumServosAssumption
   DEF Init, TypeOK, WorkerTypeOK, MotionTypeOK, SharedTypeOK, ServoTypeOK, Servos,
       Steps, NoMode, NoFault, NoPose, AllSamples

LEMMA StepType == TypeOK /\ [Next]_vars => TypeOK'
<1>1. TypeOK /\ UNCHANGED vars => TypeOK'
  BY DEF vars, motionVars, hwVars, TypeOK, WorkerTypeOK, MotionTypeOK, SharedTypeOK,
         ServoTypeOK
<1>2. QED
  BY <1>1, OtherStepType, ImuStepType, PollStepType, HandlersType DEF Next, Worker

\* Every variable of the worker keeps its type, for any number of servos.
THEOREM TypeCorrect == Spec => []TypeOK
BY InitType, StepType, PTL DEF Spec

(***************************************************************************)
(* The safety invariant                                                    *)
(***************************************************************************)
\* A check that passes leaves every strike count below its limit: a count only
\* grows on a reading that would have tripped at the limit.
LEMMA PassSafetyStrikes ==
    ASSUME TypeOK, SafetyInv, PassSafety
    PROVE  StrikesBelowLimit'
<1>1. fault = NoFault /\ fault' = NoFault
  BY DEF PassSafety, SafetyChecked
<1>2. tiltStrikes' < AttitudeLimit
  BY LimitsAssumption
     DEF PassSafety, AttitudeTrips, TiltStrikesNow, TypeOK, MotionTypeOK
<1>3. ASSUME NEW s \in Servos PROVE lowStrikes'[s] < VoltageLimit
  <2>1. lowStrikes[s] \in Nat /\ lowStrikes[s] < VoltageLimit
    BY <1>1 DEF SafetyInv, StrikesBelowLimit, TypeOK, MotionTypeOK
  <2>2. ~ServoTrips(s)
    BY DEF PassSafety
  <2>3. lowStrikes'[s] = LowStrikesNow(s)
    BY DEF PassSafety
  <2>4. CASE cache[s] = "low"
    BY <2>1, <2>2, <2>3, <2>4, LimitsAssumption DEF ServoTrips, LowStrikesNow, Offline
  <2>5. CASE cache[s] # "low"
    BY <2>1, <2>3, <2>5, LimitsAssumption DEF LowStrikesNow
  <2>6. QED
    BY <2>4, <2>5
<1>4. QED
  BY <1>1, <1>2, <1>3 DEF StrikesBelowLimit

LEMMA OtherStepSafety == TypeOK /\ SafetyInv /\ OtherStep => SafetyInv'
<1> SUFFICES ASSUME TypeOK, SafetyInv, OtherStep PROVE SafetyInv'
  OBVIOUS
<1> USE LimitsAssumption
    DEF TypeOK, MotionTypeOK, SafetyInv, StepReady, TorqueFlagHonest, ArmedOnLiveBus,
        LimitsRestored, GoalsSynced, StrikesBelowLimit, CommandChecked, DriveCleared,
        DriveChecked, ArmedAtPose, GoTo, NoFault, NoPose, motionVars, hwVars, sharedVars
<1>1. CASE KeepMode
  BY <1>1 DEF KeepMode
<1>2. CASE SwitchMode
  BY <1>2 DEF SwitchMode, NewMotion
<1>3. CASE BusAlreadyOpen
  BY <1>3 DEF BusAlreadyOpen
<1>4. CASE OpenBus
  BY <1>4 DEF OpenBus, Disarm
<1>5. CASE OpenBusFails
  BY <1>5 DEF OpenBusFails, Disarm
<1>6. CASE TorqueNotNeeded
  BY <1>6 DEF TorqueNotNeeded
<1>7. CASE EnableTorque
  BY <1>7 DEF EnableTorque
<1>8. CASE EnableTorqueFails
  BY <1>8 DEF EnableTorqueFails, Disarm, DropBus
<1>9. CASE NotArming
  BY <1>9 DEF NotArming
<1>10. CASE ArmMotion
  BY <1>10 DEF ArmMotion, MayArm
<1>11. CASE ArmMotionFails
  BY <1>11 DEF ArmMotionFails, Disarm
<1>12. CASE SkipSafety
  BY <1>12 DEF SkipSafety, SafetyChecked
<1>13. CASE TripAttitude
  BY <1>13 DEF TripAttitude, TripFault, SafetyChecked
<1>14. CASE TripServo
  BY <1>14 DEF TripServo, TripFault, SafetyChecked
<1>15. CASE PassSafety
  <2>1. StrikesBelowLimit'
    BY <1>15, PassSafetyStrikes
  <2>2. CommandChecked'
    BY <1>15 DEF PassSafety, ServoTrips
  <2>3. QED
    BY <1>15, <2>1, <2>2 DEF PassSafety
<1>16. CASE NoUtility
  BY <1>16 DEF NoUtility
<1>17. CASE ManualUtility
  BY <1>17 DEF ManualUtility, UtilityDue
<1>18. CASE ManualUtilityFails
  BY <1>18 DEF ManualUtilityFails, UtilityDue, TripFault, DropBus
<1>19. CASE NoCommand
  BY <1>19 DEF NoCommand
<1>20. CASE SendCommand
  BY <1>20 DEF SendCommand, Commands, Target, DriveKind
<1>21. CASE SendCommandFails
  BY <1>21 DEF SendCommandFails, Commands, Target, DriveKind, TripFault, DropBus
<1>22. QED
  BY <1>1, <1>2, <1>3, <1>4, <1>5, <1>6, <1>7, <1>8, <1>9, <1>10, <1>11,
     <1>12, <1>13, <1>14, <1>15, <1>16, <1>17, <1>18, <1>19, <1>20, <1>21 DEF OtherStep

LEMMA PollStepSafety == TypeOK /\ SafetyInv /\ PollStep => SafetyInv'
<1> SUFFICES ASSUME TypeOK, SafetyInv,
                    NEW budget \in ReadBudgets, NEW down \in BOOLEAN,
                    NEW got \in Answers(budget), PollServos(budget, down, got)
             PROVE  SafetyInv'
  BY DEF PollStep
<1> USE DEF PollServos, TripFault, DropBus, sharedVars, hwVars
<1>1. StepReady' /\ TorqueFlagHonest' /\ ArmedOnLiveBus' /\ LimitsRestored'
     /\ GoalsSynced'
  BY DEF SafetyInv, StepReady, TorqueFlagHonest, ArmedOnLiveBus, LimitsRestored,
         GoalsSynced, NoFault
<1>2. StrikesBelowLimit'
  BY DEF SafetyInv, StrikesBelowLimit, NoFault
<1>3. CommandChecked' /\ DriveCleared' /\ DriveChecked' /\ ArmedAtPose'
  BY DEF SafetyInv, CommandChecked, DriveCleared, DriveChecked, ArmedAtPose
<1>4. QED
  BY <1>1, <1>2, <1>3 DEF SafetyInv

LEMMA QuietStepSafety ==
    SafetyInv /\ (ImuStep \/ Handlers \/ UNCHANGED vars) => SafetyInv'
<1> USE DEF SafetyInv, StepReady, TorqueFlagHonest, ArmedOnLiveBus, LimitsRestored,
            GoalsSynced, StrikesBelowLimit, CommandChecked, DriveCleared, DriveChecked, ArmedAtPose,
            motionVars, hwVars, sharedVars
<1>1. SafetyInv /\ ImuStep => SafetyInv'
  BY DEF ImuStep, PollImu, GoTo
<1>2. SafetyInv /\ Handlers => SafetyInv'
  BY DEF Handlers, MotionCommand, EnsureManualEnabled, QueueManualAction, workerVars
<1>3. SafetyInv /\ UNCHANGED vars => SafetyInv'
  BY DEF vars
<1>4. QED
  BY <1>1, <1>2, <1>3

LEMMA InitSafety == Init => SafetyInv
BY LimitsAssumption
   DEF Init, SafetyInv, StepReady, TorqueFlagHonest, ArmedOnLiveBus, LimitsRestored,
       GoalsSynced, StrikesBelowLimit, CommandChecked, DriveCleared, DriveChecked,
       ArmedAtPose, NoFault

\* The safety invariant holds for any number of servos, stride and strike limits.
THEOREM SafetyCorrect == Spec => [](TypeOK /\ SafetyInv)
<1>1. TypeOK /\ SafetyInv /\ [Next]_vars => (TypeOK /\ SafetyInv)'
  BY StepType, OtherStepSafety, PollStepSafety, QuietStepSafety DEF Next, Worker
<1>2. QED
  BY <1>1, InitType, InitSafety, PTL DEF Spec

\* Unfaulted armed motion always has an open bus, torque, and a mode that moves.
THEOREM ArmedMotionOnLiveBus == Spec => []ArmedOnLiveBus
BY SafetyCorrect, PTL DEF SafetyInv

\* While the worker believes torque is on, it is on at every servo.
THEOREM TorqueFlagIsHonest == Spec => []TorqueFlagHonest
BY SafetyCorrect, PTL DEF SafetyInv

\* Automatic motion always runs at the configured torque limits.
THEOREM AutomaticMotionAtLimits == Spec => []LimitsRestored
BY SafetyCorrect, PTL DEF SafetyInv

\* Motion is armed only over goals that were written in this torque session.
THEOREM ArmedOverSyncedGoals == Spec => []GoalsSynced
BY SafetyCorrect, PTL DEF SafetyInv

\* No new pose is broadcast past a failed safety check.
THEOREM DrivesAreChecked == Spec => []DriveChecked
BY SafetyCorrect, PTL DEF SafetyInv

\* A strike limit is reported in the tick that reaches it.
THEOREM StrikeLimitsReported == Spec => []StrikesBelowLimit
BY SafetyCorrect, PTL DEF SafetyInv

--------------------------------------------------------------------------------
\* The fault latch, and the refinement of MotionGate.

LatchStep == fault # NoFault /\ fault' # fault => fault' = NoFault /\ mode' # mode

LEMMA OtherStepLatch == OtherStep => LatchStep
<1> SUFFICES ASSUME OtherStep PROVE LatchStep
  OBVIOUS
<1> USE DEF LatchStep, motionVars
<1>1. CASE KeepMode \/ BusAlreadyOpen \/ TorqueNotNeeded \/ EnableTorque \/ NotArming
           \/ SkipSafety \/ PassSafety \/ NoUtility \/ ManualUtility \/ NoCommand
  BY <1>1 DEF KeepMode, BusAlreadyOpen, TorqueNotNeeded, EnableTorque, NotArming,
              SkipSafety, PassSafety, NoUtility, ManualUtility, NoCommand
<1>2. CASE SwitchMode
  BY <1>2 DEF SwitchMode, NewMotion
<1>3. CASE OpenBus \/ OpenBusFails \/ EnableTorqueFails \/ ArmMotion \/ ArmMotionFails
  BY <1>3 DEF OpenBus, OpenBusFails, EnableTorqueFails, ArmMotion, ArmMotionFails, Disarm
<1>4. CASE TripAttitude \/ TripServo \/ ManualUtilityFails
  BY <1>4 DEF TripAttitude, TripServo, ManualUtilityFails, TripFault
<1>5. CASE SendCommand \/ SendCommandFails
  BY <1>5 DEF SendCommand, SendCommandFails, TripFault
<1>6. QED
  BY <1>1, <1>2, <1>3, <1>4, <1>5 DEF OtherStep

\* A fault, once latched, stays the first one until the mode changes.
THEOREM FaultLatched == Spec => FirstFaultStays
<1>1. [Next]_vars => [LatchStep]_vars
  <2>1. ImuStep \/ Handlers => LatchStep
    BY DEF ImuStep, PollImu, Handlers, MotionCommand, EnsureManualEnabled,
           QueueManualAction, workerVars, motionVars, LatchStep
  <2>2. PollStep => LatchStep
    BY DEF PollStep, PollServos, TripFault, LatchStep
  <2>3. QED
    BY <2>1, <2>2, OtherStepLatch DEF Next, Worker
<1>2. QED
  BY <1>1, PTL DEF Spec, FirstFaultStays, LatchStep

(***************************************************************************)
(* Refinement                                                              *)
(***************************************************************************)
Measured == hold \in {"measured", "computed"}

GateStutters == UNCHANGED <<mode, GateOf, Measured, driven>>

\* A step that trips a fault is a Halt of the gate, or changes nothing there
\* because a fault was latched before.
LEMMA TripHalts ==
    ASSUME NEW reason \in Faults, NEW states, TripFault(reason, states, hold),
           UNCHANGED <<mode, driven>>, fault = NoFault \/ UNCHANGED armed
    PROVE  Gate!Halt \/ GateStutters
<1>1. CASE fault # NoFault
  BY <1>1 DEF TripFault, GateStutters, GateOf, Measured
<1>2. CASE fault = NoFault
  <2>1. fault' # NoFault
    BY <1>2 DEF TripFault, Faults, NoFault
  <2>2. GateOf # "halted" /\ GateOf' = "halted"
    BY <1>2, <2>1 DEF GateOf
  <2>3. Measured' \in {Measured, TRUE}
    BY <1>2 DEF TripFault, Measured
  <2>4. QED
    BY <2>2, <2>3 DEF Gate!Halt, Measured
<1>3. QED
  BY <1>1, <1>2

LEMMA OtherStepGate ==
    ASSUME TypeOK, SafetyInv, OtherStep
    PROVE  Gate!GateNext \/ GateStutters
<1> USE DEF NoFault, NoPose, motionVars
<1>1. CASE KeepMode
  BY <1>1 DEF KeepMode, Gate!GateNext, Gate!NextTick, GateOf, Measured
<1>2. CASE SwitchMode
  <2>1. pending \in Modes /\ pending # mode
    BY <1>2 DEF SwitchMode, TypeOK, SharedTypeOK
  <2>2. Gate!ChangeMode(pending)
    BY <1>2, <2>1 DEF SwitchMode, NewMotion, Gate!ChangeMode, GateOf, Measured
  <2>3. QED
    BY <2>1, <2>2 DEF Gate!GateNext
<1>3. CASE BusAlreadyOpen \/ TorqueNotNeeded \/ EnableTorque \/ NotArming \/ SkipSafety
           \/ PassSafety \/ NoUtility \/ ManualUtility \/ NoCommand
  BY <1>3 DEF BusAlreadyOpen, TorqueNotNeeded, EnableTorque, NotArming, SkipSafety,
              PassSafety, NoUtility, ManualUtility, NoCommand, sharedVars, hwVars,
              GateStutters, GateOf, Measured
<1>4. CASE OpenBus \/ OpenBusFails
  \* Without a bus no unfaulted motion was armed.
  <2>1. armed => fault # NoFault
    BY <1>4 DEF OpenBus, OpenBusFails, SafetyInv, ArmedOnLiveBus
  <2>2. QED
    BY <1>4, <2>1 DEF OpenBus, OpenBusFails, Disarm, sharedVars, GateStutters,
                      GateOf, Measured
<1>5. CASE EnableTorqueFails
  <2>1. armed => fault # NoFault
    BY <1>5 DEF EnableTorqueFails, SafetyInv, ArmedOnLiveBus
  <2>2. QED
    BY <1>5, <2>1 DEF EnableTorqueFails, Disarm, sharedVars, GateStutters, GateOf,
                      Measured
<1>6. CASE ArmMotion
  <2>1. mode # "telemetry"
    BY <1>6 DEF ArmMotion, MayArm, RequiresTorque
  <2>2. GateOf' = IF GateOf = "waiting" THEN "moving" ELSE GateOf
    BY <1>6 DEF ArmMotion, MayArm, GateOf
  <2>3. Gate!Measure
    BY <1>6, <2>1, <2>2 DEF ArmMotion, Gate!Measure
  <2>4. QED
    BY <2>3 DEF Gate!GateNext
<1>7. CASE ArmMotionFails
  BY <1>7 DEF ArmMotionFails, MayArm, Disarm, sharedVars, GateStutters, GateOf, Measured
<1>8. CASE TripAttitude
  <2>1. TripFault("attitude", cache, hold) /\ UNCHANGED <<mode, driven, armed>>
    BY <1>8 DEF TripAttitude
  <2>2. QED
    BY <2>1, TripHalts DEF Gate!GateNext, Faults
<1>9. CASE TripServo
  <2>1. PICK reason \in Faults : TripFault(reason, cache, hold)
    BY <1>9 DEF TripServo, Faults
  <2>2. UNCHANGED <<mode, driven, armed>>
    BY <1>9 DEF TripServo
  <2>3. QED
    BY <2>1, <2>2, TripHalts DEF Gate!GateNext
<1>10. CASE ManualUtilityFails
  <2>1. TripFault("manual", cache, hold) /\ UNCHANGED <<mode, driven, armed>>
    BY <1>10 DEF ManualUtilityFails
  <2>2. QED
    BY <2>1, TripHalts DEF Gate!GateNext, Faults
<1>11. CASE SendCommand
  <2>1. CASE fault = NoFault
    \* Motion is armed, so its pose was measured before.
    <3>1. armed /\ Measured
      BY <1>11, <2>1 DEF SendCommand, Commands, SafetyInv, ArmedAtPose, Measured
    <3>2. Gate!Move
      BY <1>11, <2>1, <3>1 DEF SendCommand, Target, DriveKind, Gate!Move, GateOf, Measured
    <3>3. QED
      BY <3>2 DEF Gate!GateNext
  <2>2. CASE fault # NoFault
    <3>1. Gate!Hold
      BY <1>11, <2>2 DEF SendCommand, Commands, Target, DriveKind, Gate!Hold, GateOf,
                         SafetyInv, ArmedAtPose, TypeOK, MotionTypeOK, Poses
    <3>2. QED
      BY <3>1 DEF Gate!GateNext
  <2>3. QED
    BY <2>1, <2>2
<1>12. CASE SendCommandFails
  <2>1. CASE fault = NoFault
    <3>1. armed /\ Measured
      BY <1>12, <2>1 DEF SendCommandFails, Commands, SafetyInv, ArmedAtPose, Measured
    <3>2. GateOf = "moving" /\ GateOf' = "halted"
      BY <1>12, <2>1, <3>1 DEF SendCommandFails, TripFault, GateOf
    <3>3. Measured' = TRUE
      BY <1>12, <2>1 DEF SendCommandFails, TripFault, Target, Measured
    <3>4. driven' \in {driven, "moving"} /\ mode' = mode
      BY <1>12, <2>1 DEF SendCommandFails, DriveKind, Target
    <3>5. Gate!Halt
      BY <3>2, <3>3, <3>4 DEF Gate!Halt, Measured
    <3>6. QED
      BY <3>5 DEF Gate!GateNext
  <2>2. CASE fault # NoFault
    <3>1. hold' = Target /\ fault' = fault /\ mode' = mode /\ mode # "telemetry"
      BY <1>12, <2>2 DEF SendCommandFails, TripFault, Commands
    <3>2. UNCHANGED <<GateOf, Measured>>
      BY <2>2, <3>1 DEF Target, GateOf, Measured, SafetyInv, ArmedAtPose, TypeOK,
                        MotionTypeOK, Poses
    <3>3. CASE driven' = DriveKind
      <4>1. DriveKind = IF Measured THEN "holding" ELSE "fallback"
        BY <2>2 DEF DriveKind, Target, Measured, SafetyInv, ArmedAtPose, TypeOK,
                    MotionTypeOK, Poses
      <4>2. Gate!Hold
        BY <2>2, <3>1, <3>2, <3>3, <4>1 DEF Gate!Hold, GateOf, Measured
      <4>3. QED
        BY <4>2 DEF Gate!GateNext
    <3>4. CASE driven' = driven
      BY <3>1, <3>2, <3>4 DEF GateStutters
    <3>5. QED
      BY <1>12, <3>3, <3>4 DEF SendCommandFails
  <2>3. QED
    BY <2>1, <2>2
<1>13. QED
  BY <1>1, <1>2, <1>3, <1>4, <1>5, <1>6, <1>7, <1>8, <1>9, <1>10, <1>11, <1>12
     DEF OtherStep

\* The worker implements the motion gate, whatever fails and whoever commands it.
THEOREM WorkerImplementsGate == Spec => ImplementsMotionGate
<1>1. Init => Gate!GateInit
  BY DEF Init, Gate!GateInit, GateOf, NoFault, NoPose
<1>2. TypeOK /\ SafetyInv /\ [Next]_vars => [Gate!GateNext]_(Gate!gateVars)
  <2> SUFFICES ASSUME TypeOK, SafetyInv, [Next]_vars
               PROVE  Gate!GateNext \/ GateStutters
    BY DEF GateStutters, Measured, Gate!gateVars
  <2>1. CASE ImuStep \/ Handlers \/ UNCHANGED vars
    BY <2>1 DEF ImuStep, PollImu, Handlers, MotionCommand, EnsureManualEnabled,
                QueueManualAction, workerVars, vars, motionVars, GateStutters, GateOf,
                Measured
  <2>2. CASE PollStep
    <3>1. PICK budget \in ReadBudgets, down \in BOOLEAN :
               \E got \in Answers(budget) : PollServos(budget, down, got)
      BY <2>2 DEF PollStep
    <3>2. UNCHANGED <<mode, armed, driven>>
      BY <3>1 DEF PollServos
    <3>3. CASE down
      BY <3>1, <3>2, <3>3, TripHalts DEF PollServos, Faults, Gate!GateNext
    <3>4. CASE ~down
      BY <3>1, <3>2, <3>4 DEF PollServos, GateStutters, GateOf, Measured
    <3>5. QED
      BY <3>3, <3>4
  <2>3. QED
    BY <2>1, <2>2, OtherStepGate DEF Next, Worker
<1>3. QED
  BY <1>1, <1>2, SafetyCorrect, PTL DEF Spec, ImplementsMotionGate, Gate!GateSpec

================================================================================
