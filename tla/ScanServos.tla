------------------------------- MODULE ScanServos -------------------------------
(***************************************************************************)
(* The leg servos as arachno-calibrate sees them over the STS bus, and the *)
(* bus calls its scans are made of. A call goes through its servos in id   *)
(* order and one that fails has reached a prefix of them; the servo it     *)
(* failed at may have taken the write or not.                              *)
(***************************************************************************)
EXTENDS Integers

CONSTANT NumLegs    \* legs, with a coxa, a femur and a tibia servo each

ASSUME LegsAssumption == NumLegs \in Nat \ {0}

VARIABLES
    torque,     \* TORQUE_ENABLE of each servo
    limit,      \* TORQUE_LIMIT: the sensing limit, the moving limit or another
    goal        \* GOAL_POSITION: "here" is where the servo was when it was
                \* written, "end" an end of the full range (0 or 4095), "pose" a
                \* measured or configured pose

registers == <<torque, limit, goal>>

Coxa == 1
Femur == 2
Tibia == 3
Joints == {Coxa, Femur, Tibia}
Legs == 1 .. NumLegs
Servos == 1 .. 3 * NumLegs

\* config.all_servo_ids: leg by leg, coxa, femur, tibia.
ServoId(leg, joint) == 3 * (leg - 1) + joint
Group(joint) == {ServoId(leg, joint) : leg \in Legs}

Prefixes(ids) == {{s \in ids : s < k} : k \in 1 .. 3 * NumLegs + 1}

Limits == {"low", "high", "other"}

RegistersTypeOK ==
    /\ torque \in [Servos -> BOOLEAN]
    /\ limit \in [Servos -> Limits]
    /\ goal \in [Servos -> {"here", "end", "pose", "other"}]

\* The servos keep what earlier programs left in them.
RegistersInit ==
    /\ \E on \in BOOLEAN : torque = [s \in Servos |-> on]
    /\ limit = [s \in Servos |-> "other"]
    /\ goal = [s \in Servos |-> "other"]

\* enable_torque_on_ids, enable_torque
SwitchTorque(ids, on, ok) ==
    /\ \E reached \in Prefixes(ids) :
         /\ ok => reached = ids
         /\ torque' = [s \in Servos |-> IF s \in reached THEN on ELSE torque[s]]
    /\ UNCHANGED <<limit, goal>>

\* Mutant: the limit is set without taking the goal back first.
SetLimitAlone(ids, value, ok) ==
    /\ \E done \in Prefixes(ids) :
         /\ ok => done = ids
         /\ limit' = [s \in Servos |-> IF s \in done THEN value ELSE limit[s]]
    /\ UNCHANGED <<torque, goal>>

\* set_verified_torque_limit_on_current_position_for_ids: servo by servo, the
\* goal is set to the current position and then the limit is written until a
\* readback confirms it.
SetLimit(ids, value, ok) ==
    /\ \E done, synced \in Prefixes(ids) :
         /\ done \subseteq synced
         /\ ok => done = ids
         /\ limit' = [s \in Servos |-> IF s \in done THEN value ELSE limit[s]]
         /\ goal' = [s \in Servos |-> IF s \in synced THEN "here" ELSE goal[s]]
    /\ UNCHANGED torque

\* Mutant: torque is enabled and the goals follow.
TorqueOnThenSync(ok) ==
    /\ \E reached \in Prefixes(Servos) :
         /\ ok => reached = Servos
         /\ torque' = [s \in Servos |-> torque[s] \/ s \in reached]
         /\ goal' = [s \in Servos |-> IF ok THEN "here" ELSE goal[s]]
    /\ UNCHANGED limit

\* enable_torque_on_current_position: one broadcast of the current pose, which
\* is only sent when every servo was read, then torque servo by servo.
TorqueOnCurrent(ok) ==
    /\ \E reached \in Prefixes(Servos), synced \in BOOLEAN :
         /\ ok => reached = Servos
         /\ reached # {} => synced
         /\ torque' = [s \in Servos |-> torque[s] \/ s \in reached]
         /\ goal' = [s \in Servos |-> IF synced THEN "here" ELSE goal[s]]
    /\ UNCHANGED limit

\* sync_full_pose broadcasts the whole pose map, in which the `probed` servos
\* have an end of the range. It is not acknowledged: a failing write may have
\* left or not. What is waited for afterwards may fail as well.
SyncPose(probed, ok) ==
    /\ \E sent \in BOOLEAN :
         /\ ok => sent
         /\ goal' = [s \in Servos |-> IF ~sent THEN goal[s]
                                      ELSE IF s \in probed THEN "end" ELSE "pose"]
    /\ UNCHANGED <<torque, limit>>

================================================================================
