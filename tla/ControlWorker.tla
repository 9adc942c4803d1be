----------------------------- MODULE ControlWorker -----------------------------
(***************************************************************************)
(* The control worker of arachno-brain: the one thread that owns the legs  *)
(* servo bus (apps/arachno-brain/src/main.rs, spawn_control_worker and the *)
(* MotionRuntime it drives), together with the HTTP handlers that talk to  *)
(* it through shared state and the servos at the other end of the bus.     *)
(*                                                                         *)
(* One loop iteration (a tick) is the sequence of steps                    *)
(*   mode -> imu -> bus -> torque -> poll -> arm -> safety -> manual       *)
(*   -> command -> mode                                                    *)
(* and a step whose call fails ends the tick early, as `continue` does.    *)
(* HTTP handlers run between any two steps.                                *)
(***************************************************************************)
EXTENDS Integers, Sequences

CONSTANTS
    NumServos,      \* number of leg servos on the bus, polled in id order
    Modes,          \* the brain modes explored, of AllModes
    Stride,         \* bus.feetech.telemetry_stride: servos polled per armed tick
    TrajectoryLog,  \* is --trajectory-log given (frames force a full poll)?
    VoltageLimit,   \* LOW_VOLTAGE_STRIKES_TO_TRIP
    AttitudeLimit,  \* BODY_ATTITUDE_STRIKES_TO_TRIP
    Readings,       \* what a servo's feedback may say, of AllReadings
    ImuSamples,     \* what the IMU bridge may report, of AllSamples
    LimitConfigured, \* does bus.feetech name a torque limit (it may do without)?
    MaxQueue        \* bound of the model on queued manual actions

AllModes == {"telemetry", "manual", "stand", "walk"}
AllReadings == {"ok", "low", "hot"}
\* A tilt that the accelerometer shows to be a jolt counts for nothing: "level".
AllSamples == {"level", "tilted"}

ASSUME NumServosAssumption == NumServos \in Nat \ {0}
ASSUME ModesAssumption == Modes \subseteq AllModes
ASSUME StrideAssumption == Stride \in 1..NumServos
ASSUME LogAssumption == TrajectoryLog \in BOOLEAN
ASSUME LimitsAssumption == VoltageLimit \in Nat \ {0} /\ AttitudeLimit \in Nat \ {0}
ASSUME ReadingsAssumption == Readings \subseteq AllReadings
ASSUME SamplesAssumption == ImuSamples \subseteq AllSamples
ASSUME LimitConfiguredAssumption == LimitConfigured \in BOOLEAN
ASSUME MaxQueueAssumption == MaxQueue \in Nat

VARIABLES
    pc,             \* the step of the tick the worker is about to take
    mode,           \* the worker's mode, and motion.mode
    pending,        \* pending_mode, the slot the dashboard writes
    busOpen,        \* is `bus` Some?
    torque,         \* the worker's torque_enabled flag
    armed,          \* are armed_at and initial_pose Some?
    fault,          \* motion.fault
    hold,           \* where motion.hold_pose came from
    cache,          \* servo_states: what the last poll said of each servo
    cursor,         \* telemetry_cursor
    lowStrikes,     \* motion.low_voltage_strikes
    tiltStrikes,    \* motion.body_attitude_strikes
    imu,            \* the attitude in imu_state, kept until the next sample
    queue,          \* manual.pending_actions
    checked,        \* has a manual handler passed ensure_manual_enabled?
    driven,         \* the goal the worker last broadcast in this tick
    hwTorque,       \* the servos' TORQUE_ENABLE registers
    hwLimit,        \* the servos' TORQUE_LIMIT registers
    hwSynced        \* does GOAL_POSITION hold a goal of the current torque session?

motionVars == <<armed, fault, hold, lowStrikes, tiltStrikes>>
hwVars == <<hwTorque, hwLimit, hwSynced>>
sharedVars == <<pending, queue, checked>>
vars == <<pc, mode, pending, busOpen, torque, motionVars, cache, cursor, imu,
          queue, checked, driven, hwVars>>

Servos == 0 .. NumServos - 1

NoMode == "none"
NoFault == "none"
Faults == {"link", "attitude", "voltage", "temperature", "manual", "write"}
NoPose == "none"
\* A pose is the measured one, one the worker computed, or the named pose of
\* MotionRuntime::fallback_pose that nobody measured.
Poses == {"measured", "computed", "fallback"}
Offline == "offline"
NoSample == "none"
Steps == {"mode", "imu", "bus", "torque", "poll", "arm", "safety", "manual", "command"}

\* Mutant: a mode that moves is missing from the match.
OnlyManualRequiresTorque(m) == m = "manual"

RequiresTorque(m) == m # "telemetry"
EnforcesAttitude(m) == m \notin {"telemetry", "manual"}

\* current_pose: Some only when every servo of the given states answered.
Complete(states) == \A s \in Servos : states[s] # Offline

\* A call over the servos in id order that fails has reached a prefix of them.
Prefixes(group) == {{s \in group : s < k} : k \in 0 .. NumServos}

Requests == [kind : {"limit", "sync"}, group : SUBSET Servos \ {{}}]

WorkerTypeOK ==
    /\ pc \in Steps
    /\ mode \in Modes
    /\ busOpen \in BOOLEAN
    /\ torque \in BOOLEAN
    /\ cache \in [Servos -> AllReadings \cup {Offline}]
    /\ cursor \in Servos
    /\ imu \in AllSamples
    /\ driven \in {"none", "moving", "holding", "fallback"}

MotionTypeOK ==
    /\ armed \in BOOLEAN
    /\ fault \in Faults \cup {NoFault}
    /\ hold \in Poses \cup {NoPose}
    /\ lowStrikes \in [Servos -> Nat]
    /\ tiltStrikes \in Nat

SharedTypeOK ==
    /\ pending \in Modes \cup {NoMode}
    /\ queue \in Seq(Requests)
    /\ checked \in BOOLEAN

ServoTypeOK ==
    /\ hwTorque \in [Servos -> BOOLEAN]
    /\ hwLimit \in [Servos -> {"configured", "other"}]
    /\ hwSynced \in [Servos -> BOOLEAN]

TypeOK == WorkerTypeOK /\ MotionTypeOK /\ SharedTypeOK /\ ServoTypeOK

\* The process starts in the mode of its command line; the servos keep the
\* registers an earlier process left in them.
Init ==
    /\ pc = "mode"
    /\ mode \in Modes
    /\ pending = NoMode
    /\ busOpen = FALSE
    /\ torque = FALSE
    /\ armed = FALSE
    /\ fault = NoFault
    /\ hold = NoPose
    /\ cache = [s \in Servos |-> Offline]
    /\ cursor = 0
    /\ lowStrikes = [s \in Servos |-> 0]
    /\ tiltStrikes = 0
    /\ imu = "level"
    /\ queue = <<>>
    /\ checked = FALSE
    /\ driven = "none"
    /\ hwTorque \in [Servos -> BOOLEAN]
    /\ hwLimit = [s \in Servos |-> "other"]
    /\ hwSynced = [s \in Servos |-> FALSE]

(***************************************************************************)
(* MotionRuntime                                                           *)
(***************************************************************************)
GoTo(from, to) == pc = from /\ pc' = to

\* Mutant: a lost link is taken for transient and not latched.
TripFaultUnlessLink(reason, states, heldBefore) ==
    IF fault # NoFault \/ reason = "link"
    THEN fault' = fault /\ hold' = heldBefore
    ELSE fault' = reason /\ hold' = IF Complete(states) THEN "measured" ELSE heldBefore

\* trip_fault: the first fault wins; the hold pose moves only to a full pose.
TripFault(reason, states, heldBefore) ==
    IF fault # NoFault
    THEN fault' = fault /\ hold' = heldBefore
    ELSE /\ fault' = reason
         /\ hold' = IF Complete(states) THEN "measured" ELSE heldBefore

\* Mutants: disarming starts the runtime over; disarming forgets the hold pose.
DisarmClearsFault ==
    /\ armed' = FALSE
    /\ tiltStrikes' = 0
    /\ fault' = NoFault
    /\ UNCHANGED <<hold, lowStrikes>>

DisarmForgetsPose ==
    /\ armed' = FALSE
    /\ tiltStrikes' = 0
    /\ hold' = NoPose
    /\ UNCHANGED <<fault, lowStrikes>>

\* disarm: keeps the fault, the hold pose and the low-voltage strikes.
Disarm ==
    /\ armed' = FALSE
    /\ tiltStrikes' = 0
    /\ UNCHANGED <<fault, hold, lowStrikes>>

\* Mutant: a new mode only clears the fault, and stays armed.
NewMotionStaysArmed ==
    /\ fault' = NoFault
    /\ tiltStrikes' = 0
    /\ UNCHANGED <<armed, hold, lowStrikes>>

\* MotionRuntime::new
NewMotion ==
    /\ armed' = FALSE
    /\ fault' = NoFault
    /\ hold' = NoPose
    /\ lowStrikes' = [s \in Servos |-> 0]
    /\ tiltStrikes' = 0

\* Mutant: the torque flag survives the bus.
DropBusKeepsTorque == busOpen' = FALSE /\ UNCHANGED torque

DropBus == busOpen' = FALSE /\ torque' = FALSE

(***************************************************************************)
(* The steps of one tick                                                   *)
(***************************************************************************)
\* Mutant: a command that comes while the bus is away is thrown away.
KeepModeWithoutBus ==
    /\ GoTo("mode", "imu")
    /\ pending \in {NoMode, mode} \/ ~busOpen
    /\ pending' = NoMode
    /\ driven' = "none"
    /\ UNCHANGED <<mode, busOpen, torque, motionVars, cache, cursor, imu, queue,
                   checked, hwVars>>

\* No command, or a command for the mode the worker is in: the slot is emptied.
KeepMode ==
    /\ GoTo("mode", "imu")
    /\ pending \in {NoMode, mode}
    /\ pending' = NoMode
    /\ driven' = "none"
    /\ UNCHANGED <<mode, busOpen, torque, motionVars, cache, cursor, imu, queue,
                   checked, hwVars>>

\* The motion runtime and the manual control state start over. A torque-off
\* write that fails part-way is only logged: the flag is cleared all the same.
SwitchMode ==
    /\ GoTo("mode", "imu")
    /\ pending \notin {NoMode, mode}
    /\ mode' = pending
    /\ pending' = NoMode
    /\ NewMotion
    /\ queue' = <<>>
    /\ driven' = "none"
    /\ IF ~RequiresTorque(pending) /\ torque
       THEN /\ torque' = FALSE
            /\ \E off \in Prefixes(Servos) :
                 /\ hwTorque' = [s \in Servos |-> hwTorque[s] /\ s \notin off]
                 /\ hwSynced' = [s \in Servos |-> hwSynced[s] /\ s \notin off]
       ELSE UNCHANGED <<torque, hwTorque, hwSynced>>
    /\ UNCHANGED <<busOpen, cache, cursor, imu, checked, hwLimit>>

\* poll_imu: without a new sample, or with a failing bridge, the last attitude
\* stays in place.
PollImu(got) ==
    /\ GoTo("imu", "bus")
    /\ imu' = IF got = NoSample THEN imu ELSE got
    /\ UNCHANGED <<mode, busOpen, torque, motionVars, cache, cursor, sharedVars,
                   driven, hwVars>>

BusAlreadyOpen ==
    /\ GoTo("bus", "torque")
    /\ busOpen
    /\ UNCHANGED <<mode, busOpen, torque, motionVars, cache, cursor, imu,
                   sharedVars, driven, hwVars>>

OpenBus ==
    /\ GoTo("bus", "torque")
    /\ ~busOpen
    /\ busOpen' = TRUE
    /\ torque' = FALSE
    /\ IF RequiresTorque(mode) THEN Disarm ELSE UNCHANGED motionVars
    /\ UNCHANGED <<mode, cache, cursor, imu, sharedVars, driven, hwVars>>

OpenBusFails ==
    /\ GoTo("bus", "mode")
    /\ ~busOpen
    /\ Disarm
    /\ UNCHANGED <<mode, busOpen, torque, cache, cursor, imu, sharedVars, driven,
                   hwVars>>

TorqueNotNeeded ==
    /\ GoTo("torque", "poll")
    /\ ~RequiresTorque(mode) \/ torque
    /\ UNCHANGED <<mode, busOpen, torque, motionVars, cache, cursor, imu,
                   sharedVars, driven, hwVars>>

\* enable_torque(true) writes TORQUE_ENABLE servo by servo; no goal is written.
EnableTorque ==
    /\ GoTo("torque", "poll")
    /\ RequiresTorque(mode) /\ ~torque
    /\ torque' = TRUE
    /\ hwTorque' = [s \in Servos |-> TRUE]
    /\ UNCHANGED <<mode, busOpen, motionVars, cache, cursor, imu, sharedVars,
                   driven, hwLimit, hwSynced>>

EnableTorqueFails ==
    /\ GoTo("torque", "mode")
    /\ RequiresTorque(mode) /\ ~torque
    /\ \E on \in Prefixes(Servos) :
         hwTorque' = [s \in Servos |-> hwTorque[s] \/ s \in on]
    /\ Disarm
    /\ DropBus
    /\ UNCHANGED <<mode, cache, cursor, imu, sharedVars, driven, hwLimit,
                   hwSynced>>

\* Mutant: the window is polled before motion is armed as well.
ReadBudgetsAlwaysStride == {Stride}

\* Until motion is armed every servo is polled; then a window of Stride servos,
\* unless this tick records a trajectory frame.
ReadBudgets ==
    IF mode = "telemetry" \/ ~armed THEN {NumServos}
    ELSE IF TrajectoryLog THEN {NumServos, Stride} ELSE {Stride}

\* Mutant: the cursor is not used, the window always starts at the first servo.
WindowFromFirst(budget) == 0 .. budget - 1

Window(budget) == {(cursor + i) % NumServos : i \in 0 .. budget - 1}

Answers(budget) == [Window(budget) -> Readings \cup {Offline}]

\* A read that times out marks its servo offline and nothing else; a read error
\* that means the port is gone ("down") drops the bus and trips a fault.
PollServos(budget, down, got) ==
    /\ pc = "poll"
    /\ down => \E s \in Window(budget) : got[s] = Offline
    /\ cache' = [s \in Servos |-> IF s \in Window(budget) THEN got[s] ELSE cache[s]]
    /\ cursor' = (cursor + budget) % NumServos
    /\ IF down
       THEN /\ TripFault("link", cache', hold)
            /\ DropBus
            /\ pc' = "mode"
       ELSE /\ UNCHANGED <<fault, hold, busOpen, torque>>
            /\ pc' = "arm"
    /\ UNCHANGED <<mode, armed, lowStrikes, tiltStrikes, imu, sharedVars, driven,
                   hwVars>>

MayArm == RequiresTorque(mode) /\ ~armed /\ Complete(cache)

NotArming ==
    /\ GoTo("arm", "safety")
    /\ ~MayArm
    /\ UNCHANGED <<mode, busOpen, torque, motionVars, cache, cursor, imu,
                   sharedVars, driven, hwVars>>

\* Mutant: only servos with another limit are visited by the restore.
ArmMotionSkipsConfigured ==
    /\ GoTo("arm", "safety")
    /\ MayArm
    /\ IF LimitConfigured
       THEN /\ hwLimit' = [s \in Servos |-> "configured"]
            /\ hwSynced' = [s \in Servos |-> hwSynced[s] \/ hwLimit[s] = "other"]
       ELSE UNCHANGED <<hwLimit, hwSynced>>
    /\ armed' = TRUE
    /\ hold' = "measured"
    /\ tiltStrikes' = 0
    /\ UNCHANGED <<mode, busOpen, torque, fault, lowStrikes, cache, cursor, imu,
                   sharedVars, driven, hwTorque>>

\* arm_motion_from_current_pose: a configured torque limit is restored on every
\* servo, at its current position, before motion is armed. Without one nothing is
\* written, and motion is armed all the same.
ArmMotion ==
    /\ GoTo("arm", "safety")
    /\ MayArm
    /\ IF LimitConfigured
       THEN /\ hwLimit' = [s \in Servos |-> "configured"]
            /\ hwSynced' = [s \in Servos |-> TRUE]
       ELSE UNCHANGED <<hwLimit, hwSynced>>
    /\ armed' = TRUE
    /\ hold' = "measured"
    /\ tiltStrikes' = 0
    /\ UNCHANGED <<mode, busOpen, torque, fault, lowStrikes, cache, cursor, imu,
                   sharedVars, driven, hwTorque>>

\* The restore gave up on some servo: the servos before it are done already.
ArmMotionFails ==
    /\ GoTo("arm", "safety")
    /\ MayArm
    /\ LimitConfigured
    /\ \E done, synced \in Prefixes(Servos) :
         /\ done \subseteq synced
         /\ hwLimit' = [s \in Servos |-> IF s \in done THEN "configured" ELSE hwLimit[s]]
         /\ hwSynced' = [s \in Servos |-> hwSynced[s] \/ s \in synced]
    /\ Disarm
    /\ UNCHANGED <<mode, busOpen, torque, cache, cursor, imu, sharedVars, driven,
                   hwTorque>>

(***************************************************************************)
(* check_safety                                                            *)
(***************************************************************************)
TiltStrikesNow ==
    IF EnforcesAttitude(mode) /\ imu = "tilted" THEN tiltStrikes + 1 ELSE 0

\* Mutant: one strike more than the limit trips.
AttitudeTripsAbove == TiltStrikesNow > AttitudeLimit

AttitudeTrips == TiltStrikesNow >= AttitudeLimit

\* Mutant: strikes decay instead of starting over, without a floor.
LowStrikesDecay(s) ==
    CASE cache[s] = Offline -> lowStrikes[s]
      [] cache[s] = "low"   -> lowStrikes[s] + 1
      [] OTHER              -> lowStrikes[s] - 1

LowStrikesNow(s) ==
    CASE cache[s] = Offline -> lowStrikes[s]
      [] cache[s] = "low"   -> lowStrikes[s] + 1
      [] OTHER              -> 0

\* Mutant: the temperature is not looked at.
ServoTripsOnVoltageOnly(s) == cache[s] = "low" /\ LowStrikesNow(s) >= VoltageLimit

ServoTrips(s) ==
    \/ cache[s] = "low" /\ LowStrikesNow(s) >= VoltageLimit
    \/ cache[s] = "hot"

SafetyChecked == RequiresTorque(mode) /\ fault = NoFault

SkipSafety ==
    /\ GoTo("safety", "manual")
    /\ ~SafetyChecked
    /\ UNCHANGED <<mode, busOpen, torque, motionVars, cache, cursor, imu,
                   sharedVars, driven, hwVars>>

\* The attitude is judged before any servo.
TripAttitude ==
    /\ GoTo("safety", "manual")
    /\ SafetyChecked
    /\ AttitudeTrips
    /\ tiltStrikes' = TiltStrikesNow
    /\ TripFault("attitude", cache, hold)
    /\ UNCHANGED <<mode, busOpen, torque, armed, lowStrikes, cache, cursor, imu,
                   sharedVars, driven, hwVars>>

\* The first servo that trips ends the check: later ones keep their strikes.
TripServo ==
    /\ GoTo("safety", "manual")
    /\ SafetyChecked
    /\ ~AttitudeTrips
    /\ tiltStrikes' = TiltStrikesNow
    /\ \E s \in Servos :
         /\ ServoTrips(s)
         /\ \A t \in Servos : t < s => ~ServoTrips(t)
         /\ lowStrikes' = [t \in Servos |-> IF t <= s THEN LowStrikesNow(t) ELSE lowStrikes[t]]
         /\ TripFault(IF cache[s] = "low" THEN "voltage" ELSE "temperature", cache, hold)
    /\ UNCHANGED <<mode, busOpen, torque, armed, cache, cursor, imu, sharedVars,
                   driven, hwVars>>

PassSafety ==
    /\ GoTo("safety", "manual")
    /\ SafetyChecked
    /\ ~AttitudeTrips
    /\ \A s \in Servos : ~ServoTrips(s)
    /\ tiltStrikes' = TiltStrikesNow
    /\ lowStrikes' = [s \in Servos |-> LowStrikesNow(s)]
    /\ UNCHANGED <<mode, busOpen, torque, armed, fault, hold, cache, cursor, imu,
                   sharedVars, driven, hwVars>>

(***************************************************************************)
(* Manual utilities and motion commands                                    *)
(***************************************************************************)
UtilityDue == mode = "manual" /\ fault = NoFault /\ queue # <<>>

NoUtility ==
    /\ GoTo("manual", "command")
    /\ ~UtilityDue
    /\ UNCHANGED <<mode, busOpen, torque, motionVars, cache, cursor, imu,
                   sharedVars, driven, hwVars>>

\* process_pending_manual_action takes one request; a torque-limit request
\* syncs and limits the servos of its group one by one, a sync request only reads.
ManualUtility ==
    /\ GoTo("manual", "command")
    /\ UtilityDue
    /\ queue' = Tail(queue)
    /\ LET group == IF Head(queue).kind = "limit" THEN Head(queue).group ELSE {} IN
         /\ hwLimit' = [s \in Servos |-> IF s \in group THEN "other" ELSE hwLimit[s]]
         /\ hwSynced' = [s \in Servos |-> hwSynced[s] \/ s \in group]
    /\ UNCHANGED <<mode, busOpen, torque, motionVars, cache, cursor, imu, pending,
                   checked, driven, hwTorque>>

ManualUtilityFails ==
    /\ GoTo("manual", "mode")
    /\ UtilityDue
    /\ queue' = Tail(queue)
    /\ LET group == IF Head(queue).kind = "limit" THEN Head(queue).group ELSE {} IN
         \E done, synced \in Prefixes(group) :
           /\ done \subseteq synced
           /\ hwLimit' = [s \in Servos |-> IF s \in done THEN "other" ELSE hwLimit[s]]
           /\ hwSynced' = [s \in Servos |-> hwSynced[s] \/ s \in synced]
    /\ TripFault("manual", cache, hold)
    /\ DropBus
    /\ UNCHANGED <<mode, armed, lowStrikes, tiltStrikes, cache, cursor, imu,
                   pending, checked, driven, hwTorque>>

\* MotionRuntime::commands returns None in telemetry mode, and while motion is
\* neither armed nor faulted.
Commands == mode # "telemetry" /\ (fault # NoFault \/ armed)

\* The pose it returns, and leaves in hold_pose: a faulted runtime repeats its
\* hold pose, or the named fallback pose when it has none.
Target ==
    CASE fault = NoFault -> "computed"
      [] fault # NoFault /\ hold # NoPose -> hold
      [] OTHER -> IF armed THEN "measured" ELSE "fallback"

DriveKind ==
    CASE fault = NoFault -> "moving"
      [] Target = "fallback" -> "fallback"
      [] OTHER -> "holding"

NoCommand ==
    /\ GoTo("command", "mode")
    /\ ~Commands
    /\ UNCHANGED <<mode, busOpen, torque, motionVars, cache, cursor, imu,
                   sharedVars, driven, hwVars>>

\* sync_write_positions is one unacknowledged broadcast.
SendCommand ==
    /\ GoTo("command", "mode")
    /\ Commands
    /\ hold' = Target
    /\ driven' = DriveKind
    /\ hwSynced' = [s \in Servos |-> TRUE]
    /\ UNCHANGED <<mode, busOpen, torque, armed, fault, lowStrikes, tiltStrikes,
                   cache, cursor, imu, sharedVars, hwTorque, hwLimit>>

\* The packet of a failed write may have left or not.
SendCommandFails ==
    /\ GoTo("command", "mode")
    /\ Commands
    /\ \/ driven' = DriveKind /\ hwSynced' = [s \in Servos |-> TRUE]
       \/ UNCHANGED <<driven, hwSynced>>
    /\ TripFault("write", cache, Target)
    /\ DropBus
    /\ UNCHANGED <<mode, armed, lowStrikes, tiltStrikes, cache, cursor, imu,
                   sharedVars, hwTorque, hwLimit>>

ImuStep == \E got \in ImuSamples \cup {NoSample} : PollImu(got)

PollStep ==
    \E budget \in ReadBudgets, down \in BOOLEAN :
        \E got \in Answers(budget) : PollServos(budget, down, got)

OtherStep ==
    \/ KeepMode \/ SwitchMode
    \/ BusAlreadyOpen \/ OpenBus \/ OpenBusFails
    \/ TorqueNotNeeded \/ EnableTorque \/ EnableTorqueFails
    \/ NotArming \/ ArmMotion \/ ArmMotionFails
    \/ SkipSafety \/ TripAttitude \/ TripServo \/ PassSafety
    \/ NoUtility \/ ManualUtility \/ ManualUtilityFails
    \/ NoCommand \/ SendCommand \/ SendCommandFails

Worker == ImuStep \/ PollStep \/ OtherStep

(***************************************************************************)
(* HTTP handlers and the environment                                       *)
(***************************************************************************)
workerVars == <<pc, mode, busOpen, torque, motionVars, cache, cursor, imu, driven, hwVars>>

\* api_motion_command overwrites whatever the slot held.
MotionCommand(m) ==
    /\ pending' = m
    /\ UNCHANGED <<workerVars, queue, checked>>

\* api_manual_torque_limit and api_manual_sync_current first read `enabled`,
\* then take the write lock in a second step: the mode may change in between.
EnsureManualEnabled ==
    /\ ~checked
    /\ mode = "manual"
    /\ checked' = TRUE
    /\ UNCHANGED <<workerVars, pending, queue>>

QueueManualAction(request) ==
    /\ checked
    /\ Len(queue) < MaxQueue
    /\ queue' = Append(queue, request)
    /\ checked' = FALSE
    /\ UNCHANGED <<workerVars, pending>>

Handlers ==
    \/ \E m \in Modes : MotionCommand(m)
    \/ EnsureManualEnabled
    \/ \E request \in Requests : QueueManualAction(request)

Next == Worker \/ Handlers

Spec == Init /\ [][Next]_vars

\* The worker is an endless loop of bounded calls (every serial read times out
\* after DEFAULT_TIMEOUT_MS), so it always takes its next step.
WorkerSpec == Spec /\ WF_vars(Worker)

\* The assumption arming rests on: a device call that is tried again and again
\* is answered some time, and so is a poll of all the servos in one tick.
CompletePoll == PollStep /\ Complete(cache')

DevicesAnswer ==
    /\ SF_vars(OpenBus)
    /\ SF_vars(EnableTorque)
    /\ SF_vars(CompletePoll)
    /\ SF_vars(ArmMotion)

FairSpec == WorkerSpec /\ DevicesAnswer

(***************************************************************************)
(* What makes the worker correct                                           *)
(***************************************************************************)
\* Motion that is armed and not faulted runs on an open bus, in a mode that
\* moves, with torque enabled: every path that gives the bus up also disarms or
\* latches a fault (the `bus = None; continue` exits of spawn_control_worker).
ArmedOnLiveBus ==
    armed /\ fault = NoFault => busOpen /\ torque /\ RequiresTorque(mode)

\* The worker's torque flag never claims more than the servos' registers: while
\* it is set the bus is open, the mode needs torque and every servo has it. The
\* flag is what keeps enable_torque from being sent again.
TorqueFlagHonest ==
    torque => busOpen /\ RequiresTorque(mode) /\ \A s \in Servos : hwTorque[s]

\* If a torque limit is configured, automatic motion runs at it on every servo,
\* whatever limits the manual utilities set before, completely or in part
\* (restore_configured_motion_torque_limit before MotionRuntime::arm).
LimitsRestored ==
    LimitConfigured /\ armed /\ mode # "manual"
        => \A s \in Servos : hwLimit[s] = "configured"

\* ... and motion is armed only over goals of this torque session: a servo whose
\* torque was enabled on whatever goal it held (EnableTorque) gets its own position
\* for a goal with the limit. Without a limit the first command is the first goal.
GoalsSynced == LimitConfigured /\ armed => \A s \in Servos : hwSynced[s]

\* A newly computed pose reaches the bus only if the safety check of this tick
\* passed on the telemetry the worker holds: no hot servo, no strike count at
\* its limit, no fault (other than the failure of that very write).
DriveChecked ==
    driven = "moving" =>
        /\ armed
        /\ fault \in {NoFault, "write"}
        /\ tiltStrikes < AttitudeLimit
        /\ \A s \in Servos : cache[s] # "hot" /\ lowStrikes[s] < VoltageLimit

\* Without a fault no strike count is at its limit: check_safety reports a limit
\* in the tick that reaches it, whatever was disarmed, re-armed or reopened.
StrikesBelowLimit ==
    fault = NoFault =>
        /\ tiltStrikes < AttitudeLimit
        /\ \A s \in Servos : lowStrikes[s] < VoltageLimit

\* The first fault stays, reason and all, until the mode is switched to another
\* one; reopening the bus, re-arming or a second failure does not clear it.
FirstFaultStays ==
    [][fault # NoFault /\ fault' # fault => fault' = NoFault /\ mode' # mode]_vars

\* A mode command is taken up unless a later command replaces it, however often
\* the bus fails in between.
ModeHonoured ==
    \A m \in Modes : pending = m ~> mode = m \/ pending \notin {m, NoMode}

\* If the devices answer now and then, a mode that moves gets armed, faults, or is
\* left by a new command: no failure leaves the worker waiting for ever.
ArmsOrHalts ==
    mode # "telemetry" ~> armed \/ fault # NoFault \/ pending # NoMode

\* What the roadmap says of the moves: they start from the measured pose, so no
\* pose is broadcast that was neither measured nor computed from a measured one
\* (the code breaks this: a fault that trips before motion was ever armed makes
\* MotionRuntime::commands send its named fallback pose).
MovesFromMeasuredPose == driven # "fallback"

(***************************************************************************)
(* The inductive invariant the proofs rest on                              *)
(***************************************************************************)
\* Past its first steps a tick has the bus, and the torque its mode needs.
StepReady ==
    /\ pc \in {"torque", "poll", "arm", "safety", "manual", "command"} => busOpen
    /\ pc \in {"poll", "arm", "safety", "manual", "command"} /\ RequiresTorque(mode)
          => torque

\* Past the safety check an unfaulted tick has no hot servo in its telemetry.
CommandChecked ==
    pc \in {"manual", "command"} /\ RequiresTorque(mode) /\ fault = NoFault
        => \A s \in Servos : cache[s] # "hot"

\* What was broadcast is known only until the next tick starts.
DriveCleared == pc # "mode" => driven = "none"

\* Motion is armed at a measured pose, and then holds that or a computed one.
ArmedAtPose == armed => RequiresTorque(mode) /\ hold \in {"measured", "computed"}

\* The safety properties, with what each step may rely on, are inductive.
SafetyInv ==
    /\ StepReady
    /\ TorqueFlagHonest
    /\ ArmedOnLiveBus
    /\ LimitsRestored
    /\ GoalsSynced
    /\ StrikesBelowLimit
    /\ CommandChecked
    /\ DriveCleared
    /\ DriveChecked
    /\ ArmedAtPose

================================================================================
