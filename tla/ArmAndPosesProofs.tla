--------------------------- MODULE ArmAndPosesProofs ---------------------------
(***************************************************************************)
(* Theorems about arm control, for any servos, positions and queues of any *)
(* length, and about the motions of the legs, for any configurations,      *)
(* measured poses, calibrations and delays of a tick.                      *)
(*                                                                         *)
(* Of the arm, what is wanted at "send" was decided at "torque" and        *)
(* "poll": ReadyTick carries it through the tick. What the worker          *)
(* remembers of the torque is true because every failure forgets it        *)
(* (TorqueInv), and a utility moves one servo because the copy it started  *)
(* from is the target for as long as no handler answers (CopyInv).         *)
(*                                                                         *)
(* Of the motions, the pose that is held is the one they were armed at or  *)
(* what they command at this moment (HeldIsCommanded), and what is         *)
(* commanded can be read off the programs: each stage of the stand-up      *)
(* keeps the coxae or has the height of the stand (StandUpStages), and a   *)
(* foot in the second half of its cycle has its knees where they were      *)
(* (WalkShape).                                                            *)
(***************************************************************************)
EXTENDS ArmAndPoses, SequenceTheorems, TLAPS

\* The steps that come after the torque was looked at.
Powered == {"poll", "utility", "working", "send"}
Driving == {"utility", "working", "send"}

TorqueInv ==
    /\ TorqueRemembered
    /\ failed => ~powered /\ step \in Powered \cup {"publish"}

ReadyTick ==
    /\ step \in Powered \cup {"torque"} => open
    /\ step \in Powered /\ enabled /\ ~failed => powered
    /\ step \in Driving => enabled /\ ~halted /\ polled /\ Complete(cache) /\ target # NoPose

CopyInv == job # NoServo => step = "working" /\ (~touched => seed = target)

ArmInv == TypeOK /\ ZeroAndTarget /\ TorqueInv /\ ReadyTick /\ CopyInv

LEMMA CompleteIsPose ==
    ASSUME NEW states \in States, Complete(states)
    PROVE  states \in Pose /\ states # NoPose
BY NoPoseAssumption, OfflineAssumption DEF Complete, Pose, States

LEMMA OrElseIsPose ==
    ASSUME NEW some \in Pose \cup {NoPose}, NEW other \in Pose
    PROVE  OrElse(some, other) \in Pose /\ OrElse(some, other) # NoPose
BY NoPoseAssumption DEF OrElse

LEMMA QueueKeepsType ==
    ASSUME queue \in Seq(Servos)
    PROVE  /\ <<>> \in Seq(Servos)
           /\ queue # <<>> => Head(queue) \in Servos /\ Tail(queue) \in Seq(Servos)
           /\ \A s \in Servos : Append(queue, s) \in Seq(Servos)
OBVIOUS

LEMMA ArmInitInv == Init => ArmInv
<1> SUFFICES ASSUME Init PROVE ArmInv
  OBVIOUS
<1>1. queue \in Seq(Servos)
  BY DEF Init
<1>2. request \in [op : Operations \cup {"none"}, pose : Pose \cup {NoPose}]
  BY DEF Init, NoRequest
<1>3. TypeOK
  BY <1>1, <1>2 DEF Init, TypeOK, Steps, States
<1>4. QED
  BY <1>3 DEF Init, ArmInv, ZeroAndTarget, TorqueInv, TorqueRemembered, ReadyTick, CopyInv, Powered, Driving

\* The start of the tick, up to the torque.
LEMMA StartInv ==
    ASSUME ArmInv,
           \/ KeepMode
           \/ \E manual \in BOOLEAN : ChangeMode(manual)
           \/ \E told \in SUBSET Servos : ChangeModeFails(told)
           \/ LegsEndTick \/ LegsPass \/ Linked \/ OpenArm \/ OpenArmFails
    PROVE  ArmInv'
<1> USE DEF ArmInv, TypeOK, ZeroAndTarget, TorqueInv, TorqueRemembered, ReadyTick, CopyInv, Powered, Driving,
            Steps, armVars, linkVars, pollVars, sharedVars, jobVars
<1>1. CASE KeepMode
  BY <1>1 DEF KeepMode
<1>2. ASSUME NEW manual \in BOOLEAN, ChangeMode(manual) PROVE ArmInv'
  BY <1>2, QueueKeepsType DEF ChangeMode, ForMode
<1>3. CASE LegsEndTick
  BY <1>3 DEF LegsEndTick, Publish
<1>4. CASE LegsPass
  BY <1>4 DEF LegsPass
<1>5. CASE Linked
  BY <1>5 DEF Linked
<1>6. CASE OpenArm
  BY <1>6 DEF OpenArm
<1>7. CASE OpenArmFails
  BY <1>7 DEF OpenArmFails
<1>8. ASSUME NEW told \in SUBSET Servos, ChangeModeFails(told) PROVE ArmInv'
  BY <1>8, QueueKeepsType DEF ChangeModeFails, ForMode
<1>9. QED
  BY <1>1, <1>2, <1>3, <1>4, <1>5, <1>6, <1>7, <1>8

LEMMA TorqueStepInv ==
    ASSUME ArmInv,
           \/ TorqueStays \/ EnableTorque
           \/ \E told \in SUBSET Servos : EnableTorqueFails(told)
    PROVE  ArmInv'
<1> USE DEF ArmInv, TypeOK, ZeroAndTarget, TorqueInv, TorqueRemembered, ReadyTick, CopyInv, Powered, Driving,
            Steps, armVars, linkVars, pollVars, sharedVars, jobVars
<1>1. CASE TorqueStays
  BY <1>1 DEF TorqueStays
<1>2. CASE EnableTorque
  BY <1>2 DEF EnableTorque
<1>3. ASSUME NEW told \in SUBSET Servos, EnableTorqueFails(told) PROVE ArmInv'
  BY <1>3 DEF EnableTorqueFails
<1>4. QED
  BY <1>1, <1>2, <1>3

LEMMA PollInv ==
    ASSUME ArmInv, NEW got \in States, PollBroken(got) \/ PollOnly(got) \/ PollReady(got)
    PROVE  ArmInv'
<1> USE DEF ArmInv, TypeOK, ZeroAndTarget, TorqueInv, TorqueRemembered, ReadyTick, CopyInv, Powered, Driving,
            Steps, armVars, linkVars, pollVars, sharedVars, jobVars
<1>1. CASE PollBroken(got)
  BY <1>1 DEF PollBroken, GiveUp
<1>2. CASE PollOnly(got)
  BY <1>2 DEF PollOnly
<1>3. CASE PollReady(got)
  <2>1. got \in Pose /\ got # NoPose
    BY <1>3, CompleteIsPose DEF PollReady
  <2>2. base' \in Pose \cup {NoPose} /\ target' \in Pose \cup {NoPose}
    BY <1>3, <2>1 DEF PollReady
  <2>3. base' # NoPose /\ target' # NoPose
    BY <1>3, <2>1 DEF PollReady
  <2>4. Complete(cache)'
    BY <1>3 DEF PollReady, Complete
  <2>5. QED
    BY <1>3, <2>2, <2>3, <2>4 DEF PollReady
<1>4. QED
  BY <1>1, <1>2, <1>3

\* The utility, the target and the end of the tick.
LEMMA DriveInv ==
    ASSUME ArmInv,
           \/ NoUtility \/ StartUtility \/ UtilityFails
           \/ \E live \in Pose : FinishUtility(live)
           \/ Send \/ SendFails \/ SkipSend \/ EndTick
    PROVE  ArmInv'
<1> USE DEF ArmInv, TypeOK, ZeroAndTarget, TorqueInv, TorqueRemembered, ReadyTick, CopyInv, Powered, Driving,
            Steps, armVars, linkVars, pollVars, sharedVars, jobVars
<1>1. CASE NoUtility
  BY <1>1 DEF NoUtility, Complete
<1>2. CASE StartUtility
  <2>1. seed' = target /\ job' \in Servos /\ queue' \in Seq(Servos)
    BY <1>2, QueueKeepsType DEF StartUtility, OrElse
  <2>2. QED
    BY <1>2, <2>1 DEF StartUtility, Complete
<1>3. CASE UtilityFails
  BY <1>3 DEF UtilityFails, GiveUp, Complete
<1>4. ASSUME NEW live \in Pose, FinishUtility(live) PROVE ArmInv'
  <2>1. target' \in Pose /\ target' # NoPose
    <3>1. OrElse(seed, live) \in Pose
      BY OrElseIsPose
    <3>2. target' = [OrElse(seed, live) EXCEPT ![job] = live[job]]
      BY <1>4 DEF FinishUtility
    <3>3. target' \in Pose
      BY <3>1, <3>2 DEF Pose
    <3>4. QED
      BY <3>3, NoPoseAssumption
  <2>2. base' \in Pose /\ base' # NoPose
    BY <1>4, <2>1, OrElseIsPose DEF FinishUtility
  <2>3. QED
    BY <1>4, <2>1, <2>2 DEF FinishUtility, Complete
<1>5. CASE Send
  BY <1>5 DEF Send
<1>6. CASE SendFails
  BY <1>6 DEF SendFails, GiveUp
<1>7. CASE SkipSend
  BY <1>7 DEF SkipSend
<1>8. CASE EndTick
  BY <1>8 DEF EndTick, Publish
<1>9. QED
  BY <1>1, <1>2, <1>3, <1>4, <1>5, <1>6, <1>7, <1>8

LEMMA WorkerInv == ArmInv /\ Worker => ArmInv'
BY StartInv, TorqueStepInv, PollInv, DriveInv DEF Worker

LEMMA HandlersInv == ArmInv /\ Handlers => ArmInv'
<1> SUFFICES ASSUME ArmInv, Handlers PROVE ArmInv'
  OBVIOUS
<1> USE DEF ArmInv, TypeOK, ZeroAndTarget, TorqueInv, TorqueRemembered, ReadyTick, CopyInv, armVars, linkVars,
            pollVars, sharedVars, jobVars, workerVars, NoRequest, Complete
<1>1. ASSUME NEW op \in Operations, CheckEnabled(op) PROVE ArmInv'
  BY <1>1 DEF CheckEnabled
<1>2. CASE ReadSnapshot
  <2>1. request'.pose \in Pose \cup {NoPose} /\ request'.op \in Operations \cup {"none"}
    BY <1>2, CompleteIsPose DEF ReadSnapshot
  <2>2. request' \in [op : Operations \cup {"none"}, pose : Pose \cup {NoPose}]
    BY <1>2, <2>1 DEF ReadSnapshot
  <2>3. QED
    BY <1>2, <2>2 DEF ReadSnapshot
<1>3. CASE Refuse
  BY <1>3 DEF Refuse
<1>4. CASE Capture
  BY <1>4 DEF Capture, Answer
<1>5. ASSUME NEW joints \in SUBSET Servos, NEW goals \in Pose, Apply(joints, goals) PROVE ArmInv'
  <2>1. base' \in Pose /\ base' # NoPose
    BY <1>5, OrElseIsPose DEF Apply, Answer
  <2>2. OrElse(target, base') \in Pose
    BY <2>1, OrElseIsPose
  <2>3. target' \in Pose
    BY <1>5, <2>2 DEF Apply, Pose
  <2>4. target' # NoPose
    BY <2>3, NoPoseAssumption
  <2>5. QED
    BY <1>5, <2>1, <2>3, <2>4 DEF Apply, Answer
<1>6. CASE Reset
  <2>1. base' \in Pose /\ target' = base' /\ base' # NoPose
    BY <1>6, OrElseIsPose DEF Reset, Answer
  <2>2. QED
    BY <1>6, <2>1 DEF Reset, Answer
<1>7. CASE SyncCurrent
  <2>1. base' \in Pose /\ base' # NoPose /\ target' \in Pose /\ target' # NoPose
    BY <1>7, OrElseIsPose, NoPoseAssumption DEF SyncCurrent, Answer
  <2>2. QED
    BY <1>7, <2>1 DEF SyncCurrent, Answer
<1>8. ASSUME NEW joint \in Servos, QueueUtility(joint) PROVE ArmInv'
  BY <1>8, QueueKeepsType DEF QueueUtility
<1>9. QED
  BY <1>1, <1>2, <1>3, <1>4, <1>5, <1>6, <1>7, <1>8 DEF Handlers

LEMMA ArmNextInv == ArmInv /\ [Next]_vars => ArmInv'
<1>1. ArmInv /\ UNCHANGED vars => ArmInv'
  BY DEF ArmInv, TypeOK, ZeroAndTarget, TorqueInv, TorqueRemembered, ReadyTick, CopyInv, Complete, vars, armVars,
         linkVars, pollVars, sharedVars, jobVars
<1>2. QED
  BY <1>1, WorkerInv, HandlersInv DEF Next

LEMMA ArmInvHolds == Spec => []ArmInv
BY ArmInitInv, ArmNextInv, PTL DEF Spec

LEMMA ReadyWhenSent == ArmInv => SendsWhenReady
BY DEF ArmInv, SendsWhenReady, TypeOK, ReadyTick, Powered, Driving

LEMMA RememberedTorque == ArmInv => TorqueRemembered
BY DEF ArmInv, TorqueInv

LEMMA OneServoStep == ArmInv /\ [Next]_vars => [MovesItsServo]_vars
<1> SUFFICES ASSUME ArmInv, Next, job # NoServo, job' = NoServo, ~touched, target' # target,
                    NEW s \in Servos \ {job}
             PROVE  target'[s] = target[s]
  BY DEF MovesItsServo
<1>1. step = "working" /\ seed = target /\ target \in Pose /\ target # NoPose
  BY DEF ArmInv, CopyInv, ReadyTick, Driving, TypeOK
<1>2. ~Handlers
  BY DEF Handlers, CheckEnabled, ReadSnapshot, Refuse, Capture, Apply, Reset, SyncCurrent,
         QueueUtility, Answer, workerVars
<1>3. PICK live \in Pose : FinishUtility(live)
  BY <1>1, <1>2
  DEF Next, Worker, KeepMode, ChangeMode, ChangeModeFails, ForMode, LegsEndTick, LegsPass, Linked, OpenArm,
      OpenArmFails, TorqueStays, EnableTorque, EnableTorqueFails,
      PollBroken, PollOnly, PollReady, NoUtility, StartUtility,
      UtilityFails, Send, SendFails, SkipSend, EndTick, armVars
<1>4. target' = [target EXCEPT ![job] = live[job]]
  BY <1>1, <1>3 DEF FinishUtility, OrElse
<1>5. QED
  BY <1>1, <1>4 DEF Pose

(***************************************************************************)
(* Theorems about the arm                                                  *)
(***************************************************************************)
\* Whatever handlers and worker do to each other, poses stay poses of all arm
\* servos, or None, and only arm servos are queued (ArmControlState).
THEOREM ArmTypeCorrect == Spec => []TypeOK
<1>1. ArmInv => TypeOK
  BY DEF ArmInv
<1>2. QED
  BY <1>1, ArmInvHolds, PTL

\* The zero and the target of the arm's sliders come and go together
\* (ensure_arm_reference_pose, sync_arm_mode_state and every arm handler).
THEOREM ZeroWithTarget == Spec => []ZeroAndTarget
<1>1. ArmInv => ZeroAndTarget
  BY DEF ArmInv
<1>2. QED
  BY <1>1, ArmInvHolds, PTL

\* The arm's target is sent only in manual mode without a fault, after every servo
\* answered in this tick, with torque on over this very bus (the arm's share of
\* the worker's tick).
THEOREM SentWhenReady == Spec => []SendsWhenReady
BY ReadyWhenSent, ArmInvHolds, PTL

\* arm_torque_enabled never claims more than the servos hold, and outside manual
\* mode nothing holds but what a failure made the worker forget.
THEOREM TorqueIsRemembered == Spec => []TorqueRemembered
BY RememberedTorque, ArmInvHolds, PTL

\* A utility moves its own servo's target only, unless a handler answers while it
\* runs (process_pending_arm_action, with its copy of the pose).
THEOREM OneServoMoves == Spec => UtilityMovesItsServo
BY OneServoStep, ArmInvHolds, PTL DEF Spec, UtilityMovesItsServo

(***************************************************************************)
(* The motions: arithmetic                                                 *)
(***************************************************************************)
LEMMA RatioBounds ==
    ASSUME NEW n \in Nat, NEW d \in Nat \ {0}, NEW k \in Nat, n <= k * d
    PROVE  Motion!Rounded(n, d) \in 0 .. k
<1> DEFINE q == (2 * n + d) \div (2 * d)
<1>1. 2 * d \in Nat \ {0} /\ 2 * n + d \in Nat
  OBVIOUS
<1>2. q \in Int /\ (2 * d) * q <= 2 * n + d /\ 2 * n + d < (2 * d) * (q + 1)
  BY <1>1
<1>3. 2 * n + d < (2 * d) * (k + 1)
  OBVIOUS
<1>4. q < k + 1
  <2> HIDE DEF q
  <2> SUFFICES ASSUME q >= k + 1 PROVE FALSE
    BY <1>2
  <2>1. (2 * d) * q >= (2 * d) * (k + 1)
    BY <1>1, <1>2
  <2>2. QED
    BY <2>1, <1>2, <1>3
<1>5. q >= 0
  <2> HIDE DEF q
  <2> SUFFICES ASSUME q <= -1 PROVE FALSE
    BY <1>2
  <2>1. (2 * d) * (q + 1) <= 0
    BY <1>1, <1>2
  <2>2. QED
    BY <2>1, <1>1, <1>2
<1>6. QED
  BY <1>2, <1>4, <1>5 DEF Motion!Rounded

LEMMA NothingRounded ==
    ASSUME NEW d \in Nat \ {0}
    PROVE  Motion!Rounded(0, d) = 0
<1> DEFINE q == (2 * 0 + d) \div (2 * d)
<1>1. q \in Int /\ (2 * d) * q <= d /\ d < (2 * d) * (q + 1)
  OBVIOUS
<1>2. q = 0
  <2> HIDE DEF q
  <2>1. CASE q >= 1
    <3>1. (2 * d) * q >= 2 * d
      BY <1>1, <2>1
    <3>2. QED
      BY <1>1, <3>1
  <2>2. CASE q <= -1
    <3>1. (2 * d) * (q + 1) <= 0
      BY <1>1, <2>2
    <3>2. QED
      BY <1>1, <3>1
  <2>3. QED
    BY <1>1, <2>1, <2>2
<1>3. QED
  BY <1>2 DEF Motion!Rounded

LEMMA CubePositive ==
    ASSUME NEW length \in Nat \ {0}
    PROVE  length * length * length \in Nat \ {0}
<1>1. length * length \in Nat \ {0}
  OBVIOUS
<1>2. QED
  BY <1>1

\* The cubic of the smoothstep stays below that of its end: the difference is
\* (length - t)^2 * (length + 2 t).
LEMMA StepSmooth ==
    ASSUME NEW length \in Nat \ {0}, NEW t \in 0 .. length
    PROVE  /\ t * t * (3 * length - 2 * t) \in Nat
           /\ t * t * (3 * length - 2 * t) <= length * length * length
<1> DEFINE rest == length - t
<1>1. rest \in Nat /\ length = t + rest
  OBVIOUS
<1>2. t * t \in Nat /\ 3 * length - 2 * t \in Nat
  OBVIOUS
<1>3. t * t * (3 * length - 2 * t) \in Nat
  BY <1>2
<1>4. rest * rest * (length + 2 * t) \in Nat
  <2>1. rest * rest \in Nat /\ length + 2 * t \in Nat
    BY <1>1
  <2>2. QED
    BY <2>1
<1>5. length * length * length = t * t * (3 * length - 2 * t) + rest * rest * (length + 2 * t)
  OBVIOUS
<1>6. QED
  BY <1>3, <1>4, <1>5

LEMMA SmoothRange ==
    ASSUME NEW time \in Int, NEW length \in Nat \ {0}
    PROVE  Motion!Smooth(time, length) \in 0 .. 100
<1> DEFINE t == Motion!Clamp(0, time, length)
           rise == t * t * (3 * length - 2 * t)
           cube == length * length * length
<1>1. t \in 0 .. length
  BY DEF Motion!Clamp
<1>2. cube \in Nat \ {0} /\ rise \in Nat /\ rise <= cube
  <2> HIDE DEF t
  <2>1. QED
    BY <1>1, CubePositive, StepSmooth
<1>3. 100 * t * t * (3 * length - 2 * t) = 100 * rise
  <2> HIDE DEF t
  <2>1. QED
    BY <1>1
<1>4. Motion!Rounded(100 * rise, cube) \in 0 .. 100
  <2> HIDE DEF rise, cube
  <2>1. 100 * rise \in Nat /\ 100 * rise <= 100 * cube
    BY <1>2
  <2>2. QED
    BY <1>2, <2>1, RatioBounds
<1>5. QED
  BY <1>3, <1>4 DEF Motion!Smooth

\* What lies part of the way between two positions is a position (interpolate_pose).
LEMMA PartWay ==
    ASSUME NEW from \in 0 .. Motion!Full, NEW to \in 0 .. Motion!Full, NEW p \in 0 .. 100
    PROVE  from + Motion!Rounded((to - from) * p, 100) \in 0 .. Motion!Full
<1> DEFINE way == (to - from) * p
<1>1. way \in Int /\ -100 * from <= way /\ way <= 100 * (Motion!Full - from)
  <2>1. CASE to >= from
    <3>1. way \in Nat /\ way <= (to - from) * 100
      BY <2>1 DEF Motion!Full
    <3>2. QED
      BY <3>1 DEF Motion!Full
  <2>2. CASE to < from
    <3>1. (from - to) * p \in Nat /\ (from - to) * p <= (from - to) * 100
      BY <2>2 DEF Motion!Full
    <3>2. way = -((from - to) * p)
      BY DEF Motion!Full
    <3>3. QED
      BY <3>1, <3>2 DEF Motion!Full
  <2>3. QED
    BY <2>1, <2>2 DEF Motion!Full
<1>2. Motion!Rounded(way, 100) \in -from .. Motion!Full - from
  <2> HIDE DEF way
  <2>1. QED
    BY <1>1 DEF Motion!Rounded, Motion!Full
<1>3. QED
  BY <1>2 DEF Motion!Full

(***************************************************************************)
(* Poses approached                                                        *)
(***************************************************************************)
LEMMA ClampRange ==
    ASSUME NEW i \in Int
    PROVE  Motion!Clamp(0, i, Motion!Full) \in 0 .. Motion!Full
BY DEF Motion!Clamp, Motion!Full

\* A conversion rounds the fine part alone.
LEMMA RoundedInt ==
    ASSUME NEW n \in Int, NEW d \in Nat \ {0}
    PROVE  Motion!Rounded(n, d) \in Int
<1>1. 2 * n + d \in Int /\ 2 * d \in Nat \ {0}
  OBVIOUS
<1>2. QED
  BY <1>1 DEF Motion!Rounded

LEMMA SignUnit ==
    ASSUME NEW leg \in Motion!Legs
    PROVE  Motion!Sign(leg) \in {-1, 1}
BY DEF Motion!Sign

LEMMA TicksNearRange ==
    ASSUME NEW leg \in Motion!Legs, NEW angle \in Int, NEW fine \in Int, NEW zero \in Int
    PROVE  Motion!TicksNear(leg, angle, fine, zero) \in 0 .. Motion!Full
<1>1. Motion!Sign(leg) * angle \in Int /\ Motion!Sign(leg) * fine \in Int
  BY SignUnit
<1>2. Motion!Rounded(Motion!Sign(leg) * fine, 10000) \in Int
  BY <1>1, RoundedInt
<1>3. QED
  BY <1>1, <1>2, ClampRange DEF Motion!TicksNear, Motion!Middle

LEMMA InterpolateIsPose ==
    ASSUME NEW from \in Motion!Pose, NEW to \in Motion!Pose, NEW p \in 0 .. 100
    PROVE  Motion!Interpolate(from, to, p) \in Motion!Pose
<1>1. ASSUME NEW leg \in Motion!Legs, NEW joint \in Motion!Joints
      PROVE  from[leg][joint] + Motion!Rounded((to[leg][joint] - from[leg][joint]) * p, 100)
               \in 0 .. Motion!Full
  <2>1. from[leg][joint] \in 0 .. Motion!Full /\ to[leg][joint] \in 0 .. Motion!Full
    BY DEF Motion!Pose
  <2>2. QED
    BY <2>1, PartWay
<1>2. QED
  BY <1>1 DEF Motion!Interpolate, Motion!Pose

LEMMA InterpolateKeeps ==
    ASSUME NEW from \in Motion!Pose, NEW to \in Motion!Pose, NEW p \in 0 .. 100
    PROVE  \A leg \in Motion!Legs, joint \in Motion!Joints :
             to[leg][joint] = from[leg][joint]
               => Motion!Interpolate(from, to, p)[leg][joint] = from[leg][joint]
<1> SUFFICES ASSUME NEW leg \in Motion!Legs, NEW joint \in Motion!Joints,
                    to[leg][joint] = from[leg][joint]
             PROVE  Motion!Interpolate(from, to, p)[leg][joint] = from[leg][joint]
  OBVIOUS
<1>1. from[leg][joint] \in Int
  BY DEF Motion!Pose, Motion!Full
<1>2. (to[leg][joint] - from[leg][joint]) * p = 0
  BY <1>1
<1>3. Motion!Rounded(0, 100) = 0
  BY NothingRounded
<1>4. QED
  BY <1>1, <1>2, <1>3 DEF Motion!Interpolate

LEMMA NamedIsPose ==
    ASSUME NEW kind \in Motion!Kinds, NEW zero \in Int
    PROVE  Motion!Named(kind, zero) \in Motion!Pose
<1>1. ASSUME NEW joint \in Motion!Joints PROVE Motion!Angles[kind][joint] \in Int
  BY DEF Motion!Kinds, Motion!Angles, Motion!Joints
<1>2. ASSUME NEW leg \in Motion!Legs, NEW joint \in Motion!Joints
      PROVE  Motion!Ticks(leg, Motion!Angles[kind][joint], zero) \in 0 .. Motion!Full
  BY <1>1, TicksNearRange DEF Motion!Ticks
<1>3. QED
  BY <1>2 DEF Motion!Named, Motion!Pose

LEMMA WithIsPose ==
    ASSUME NEW basis \in Motion!Pose, NEW joint \in Motion!Joints,
           NEW f, \A leg \in Motion!Legs : f[leg] \in 0 .. Motion!Full
    PROVE  /\ Motion!With(basis, joint, f) \in Motion!Pose
           /\ \A leg \in Motion!Legs :
                /\ Motion!With(basis, joint, f)[leg][joint] = f[leg]
                /\ \A other \in Motion!Joints \ {joint} :
                     Motion!With(basis, joint, f)[leg][other] = basis[leg][other]
BY DEF Motion!With, Motion!Pose

LEMMA OffsetRange ==
    ASSUME NEW leg \in Motion!Legs, NEW ticks \in 0 .. Motion!Full, NEW delta \in Int
    PROVE  Motion!Offset(leg, ticks, delta) \in 0 .. Motion!Full
<1>1. Motion!Sign(leg) * delta \in Int
  BY SignUnit
<1>2. QED
  BY <1>1, ClampRange DEF Motion!Offset, Motion!Full

\* The poses a stand-up goes through keep the coxae, and the last but one has the
\* femurs and tibias of the stand.
LEMMA Stages ==
    ASSUME NEW from \in Motion!Pose, NEW to \in Motion!Pose
    PROVE  /\ Motion!FemurLift(from) \in Motion!Pose
           /\ Motion!FootPlant(from) \in Motion!Pose
           /\ Motion!BodyRaise(from, to) \in Motion!Pose
           /\ \A leg \in Motion!Legs :
                /\ Motion!FemurLift(from)[leg]["coxa"] = from[leg]["coxa"]
                /\ Motion!FootPlant(from)[leg]["coxa"] = from[leg]["coxa"]
                /\ Motion!BodyRaise(from, to)[leg]["coxa"] = from[leg]["coxa"]
                /\ \A joint \in {"femur", "tibia"} :
                     Motion!BodyRaise(from, to)[leg][joint] = to[leg][joint]
<1> DEFINE lift == [leg \in Motion!Legs |-> Motion!Offset(leg, from[leg].femur, Motion!FemurPrep)]
           plant == [leg \in Motion!Legs |-> Motion!Offset(leg, from[leg].tibia, -Motion!TibiaPlant)]
           keep == [leg \in Motion!Legs |-> from[leg].coxa]
<1>1. Motion!Joints = {"coxa", "femur", "tibia"}
  BY DEF Motion!Joints
<1>2. ASSUME NEW leg \in Motion!Legs
      PROVE  lift[leg] \in 0 .. Motion!Full /\ plant[leg] \in 0 .. Motion!Full /\ keep[leg] \in 0 .. Motion!Full
  <2>1. \A joint \in Motion!Joints : from[leg][joint] \in 0 .. Motion!Full
    BY DEF Motion!Pose
  <2>2. from[leg].coxa \in 0 .. Motion!Full /\ from[leg].femur \in 0 .. Motion!Full /\ from[leg].tibia \in 0 .. Motion!Full
    BY <2>1, <1>1
  <2>3. Motion!FemurPrep \in Int /\ -Motion!TibiaPlant \in Int
    BY DEF Motion!FemurPrep, Motion!TibiaPlant
  <2>4. Motion!Offset(leg, from[leg].femur, Motion!FemurPrep) \in 0 .. Motion!Full
    BY <2>2, <2>3, OffsetRange
  <2>5. Motion!Offset(leg, from[leg].tibia, -Motion!TibiaPlant) \in 0 .. Motion!Full
    BY <2>2, <2>3, OffsetRange
  <2>6. QED
    BY <2>2, <2>4, <2>5
<1> HIDE DEF lift, plant, keep
<1>3. /\ Motion!FemurLift(from) = Motion!With(from, "femur", lift)
      /\ Motion!FootPlant(from) = Motion!With(Motion!FemurLift(from), "tibia", plant)
      /\ Motion!BodyRaise(from, to) = Motion!With(to, "coxa", keep)
  BY DEF Motion!FemurLift, Motion!FootPlant, Motion!BodyRaise, lift, plant, keep
<1>4. /\ Motion!FemurLift(from) \in Motion!Pose
      /\ \A leg \in Motion!Legs : Motion!FemurLift(from)[leg]["coxa"] = from[leg]["coxa"]
  <2>1. "femur" \in Motion!Joints /\ "coxa" \in Motion!Joints \ {"femur"}
    BY <1>1
  <2>2. \A leg \in Motion!Legs : lift[leg] \in 0 .. Motion!Full
    BY <1>2
  <2>3. QED
    BY <1>3, <2>1, <2>2, WithIsPose
<1>5. /\ Motion!FootPlant(from) \in Motion!Pose
      /\ \A leg \in Motion!Legs : Motion!FootPlant(from)[leg]["coxa"] = from[leg]["coxa"]
  BY <1>1, <1>2, <1>3, <1>4, WithIsPose
<1>6. /\ Motion!BodyRaise(from, to) \in Motion!Pose
      /\ \A leg \in Motion!Legs :
           /\ Motion!BodyRaise(from, to)[leg]["coxa"] = keep[leg]
           /\ \A joint \in {"femur", "tibia"} : Motion!BodyRaise(from, to)[leg][joint] = to[leg][joint]
  BY <1>1, <1>2, <1>3, WithIsPose
<1>7. QED
  BY <1>4, <1>5, <1>6 DEF keep

\* The phases of a stand-up fit into it.
LEMMA PhaseBounds ==
    ASSUME NEW length \in Nat, length >= 20, NEW percent \in 20 .. 100
    PROVE  /\ Motion!Phase(length, percent) \in Nat
           /\ 4 <= Motion!Phase(length, percent)
           /\ 100 * Motion!Phase(length, percent) <= length * percent
<1> DEFINE share == length * percent
<1>1. share \in Nat /\ share >= 400
  <2>1. length * percent >= 20 * percent
    OBVIOUS
  <2>2. QED
    BY <2>1
<1>2. share \div 100 \in Nat /\ 100 * (share \div 100) <= share
  <2> HIDE DEF share
  <2>1. QED
    BY <1>1
<1>3. QED
  BY <1>1, <1>2 DEF Motion!Phase, Motion!Greatest

SameCoxae(some, other) == \A leg \in Motion!Legs : some[leg]["coxa"] = other[leg]["coxa"]
SameHeight(some, other) ==
    \A leg \in Motion!Legs, joint \in {"femur", "tibia"} : some[leg][joint] = other[leg][joint]

\* A stand-up turns no coxa before all legs carry the body.
LEMMA StandUpStages ==
    ASSUME MotionAssumption, setting \in Settings, NEW kind \in Motion!Kinds,
           NEW from \in Motion!Pose, NEW time \in Nat, NEW zero \in Int
    PROVE  /\ Motion!StandUp(kind, from, time, zero) \in Motion!Pose
           /\ \/ SameCoxae(Motion!StandUp(kind, from, time, zero), from)
              \/ SameHeight(Motion!StandUp(kind, from, time, zero), Motion!Named(kind, zero))
<1> DEFINE length == Motion!Greatest(setting.standUp, 20)
           femur == Motion!Phase(length, 20)
           tibia == femur + Motion!Phase(length, 20)
           body == tibia + Motion!Phase(length, 45)
           coxa == Motion!Greatest(length - body, 4)
           to == Motion!Named(kind, zero)
           lifted == Motion!FemurLift(from)
           planted == Motion!FootPlant(from)
           raised == Motion!BodyRaise(from, to)
           now == Motion!StandUp(kind, from, time, zero)
<1>1. now = CASE time >= length -> to
              [] time < femur -> Motion!Interpolate(from, lifted, Motion!Smooth(time, femur))
              [] time \in femur .. tibia - 1 ->
                   Motion!Interpolate(lifted, planted, Motion!Smooth(time - femur, tibia - femur))
              [] time \in tibia .. body - 1 ->
                   Motion!Interpolate(planted, raised, Motion!Smooth(time - tibia, body - tibia))
              [] OTHER -> Motion!Interpolate(raised, to, Motion!Smooth(time - body, coxa))
  BY DEF Motion!StandUp
<1>2. length \in Nat /\ length >= 20
  BY DEF MotionAssumption, Motion!Greatest
<1>3. /\ femur \in Nat \ {0}
      /\ tibia \in Nat /\ tibia - femur \in Nat \ {0}
      /\ body \in Nat /\ body - tibia \in Nat \ {0} /\ body <= length
      /\ coxa \in Nat \ {0}
  <2> HIDE DEF length
  <2>1. /\ Motion!Phase(length, 20) \in Nat /\ 4 <= Motion!Phase(length, 20)
        /\ 100 * Motion!Phase(length, 20) <= length * 20
        /\ Motion!Phase(length, 45) \in Nat /\ 4 <= Motion!Phase(length, 45)
        /\ 100 * Motion!Phase(length, 45) <= length * 45
    BY <1>2, PhaseBounds
  <2>2. femur \in Nat \ {0} /\ tibia \in Nat /\ tibia - femur \in Nat \ {0}
    BY <2>1
  <2>3. body \in Nat /\ body - tibia \in Nat \ {0} /\ body <= length
    BY <1>2, <2>1
  <2>4. coxa \in Nat \ {0}
    <3> HIDE DEF body
    <3>1. QED
      BY <1>2, <2>3 DEF Motion!Greatest
  <2>5. QED
    BY <2>2, <2>3, <2>4
<1>4. to \in Motion!Pose
  BY NamedIsPose
<1>5. /\ lifted \in Motion!Pose /\ planted \in Motion!Pose /\ raised \in Motion!Pose
      /\ \A leg \in Motion!Legs :
           /\ lifted[leg]["coxa"] = from[leg]["coxa"]
           /\ planted[leg]["coxa"] = from[leg]["coxa"]
           /\ raised[leg]["coxa"] = from[leg]["coxa"]
           /\ \A joint \in {"femur", "tibia"} : raised[leg][joint] = to[leg][joint]
  <2> HIDE DEF to
  <2>1. QED
    BY <1>4, Stages
<1>6. {"coxa", "femur", "tibia"} \subseteq Motion!Joints
  BY DEF Motion!Joints
<1> HIDE DEF length, femur, tibia, body, coxa, to, lifted, planted, raised, now
<1>7. ASSUME NEW a \in Motion!Pose, NEW b \in Motion!Pose, NEW t \in Int, NEW l \in Nat \ {0},
             \A leg \in Motion!Legs : a[leg]["coxa"] = from[leg]["coxa"] /\ b[leg]["coxa"] = from[leg]["coxa"],
             now = Motion!Interpolate(a, b, Motion!Smooth(t, l))
      PROVE  now \in Motion!Pose /\ \A leg \in Motion!Legs : now[leg]["coxa"] = from[leg]["coxa"]
  <2> DEFINE p == Motion!Smooth(t, l)
  <2>1. p \in 0 .. 100
    BY SmoothRange
  <2> HIDE DEF p
  <2>2. now \in Motion!Pose
    BY <1>7, <2>1, InterpolateIsPose DEF p
  <2>3. ASSUME NEW leg \in Motion!Legs PROVE now[leg]["coxa"] = from[leg]["coxa"]
    <3>1. "coxa" \in Motion!Joints /\ b[leg]["coxa"] = a[leg]["coxa"]
      BY <1>6, <1>7
    <3>2. Motion!Interpolate(a, b, p)[leg]["coxa"] = a[leg]["coxa"]
      <4>1. \A any \in Motion!Legs, joint \in Motion!Joints :
              b[any][joint] = a[any][joint] => Motion!Interpolate(a, b, p)[any][joint] = a[any][joint]
        BY <2>1, InterpolateKeeps
      <4>2. QED
        BY <3>1, <4>1
    <3>3. QED
      BY <1>7, <3>2 DEF p
  <2>4. QED
    BY <2>2, <2>3
<1>8. CASE time >= length
  <2>1. now = to
    BY <1>1, <1>2, <1>3, <1>8
  <2>2. QED
    BY <1>4, <2>1 DEF now, to, SameHeight
<1>9. CASE time < length /\ time < femur
  <2>1. now = Motion!Interpolate(from, lifted, Motion!Smooth(time, femur))
    BY <1>1, <1>2, <1>3, <1>9
  <2>2. QED
    BY <1>3, <1>5, <1>7, <2>1 DEF now, SameCoxae
<1>10. CASE time < length /\ time \in femur .. tibia - 1
  <2>1. now = Motion!Interpolate(lifted, planted, Motion!Smooth(time - femur, tibia - femur))
    BY <1>1, <1>2, <1>3, <1>10
  <2>2. time - femur \in Int
    BY <1>3
  <2>3. QED
    BY <1>3, <1>5, <1>7, <2>1, <2>2 DEF now, SameCoxae
<1>11. CASE time < length /\ time \in tibia .. body - 1
  <2>1. now = Motion!Interpolate(planted, raised, Motion!Smooth(time - tibia, body - tibia))
    BY <1>1, <1>2, <1>3, <1>11
  <2>2. time - tibia \in Int
    BY <1>3
  <2>3. QED
    BY <1>3, <1>5, <1>7, <2>1, <2>2 DEF now, SameCoxae
<1>12. CASE time < length /\ time >= body
  <2> DEFINE p == Motion!Smooth(time - body, coxa)
  <2>1. now = Motion!Interpolate(raised, to, p)
    BY <1>1, <1>2, <1>3, <1>12
  <2>2. p \in 0 .. 100
    BY <1>3, SmoothRange
  <2> HIDE DEF p
  <2>3. \A leg \in Motion!Legs, joint \in {"femur", "tibia"} : now[leg][joint] = to[leg][joint]
    <3> SUFFICES ASSUME NEW leg \in Motion!Legs, NEW joint \in {"femur", "tibia"}
                 PROVE  now[leg][joint] = to[leg][joint]
      OBVIOUS
    <3>1. joint \in Motion!Joints /\ to[leg][joint] = raised[leg][joint]
      BY <1>5, <1>6
    <3>2. Motion!Interpolate(raised, to, p)[leg][joint] = raised[leg][joint]
      <4>1. \A any \in Motion!Legs, each \in Motion!Joints :
              to[any][each] = raised[any][each]
                => Motion!Interpolate(raised, to, p)[any][each] = raised[any][each]
        BY <1>4, <1>5, <2>2, InterpolateKeeps
      <4>2. QED
        BY <3>1, <4>1
    <3>3. QED
      BY <2>1, <3>1, <3>2
  <2>4. now \in Motion!Pose
    BY <1>4, <1>5, <2>1, <2>2, InterpolateIsPose
  <2>5. QED
    BY <2>3, <2>4 DEF now, to, SameHeight
<1>13. QED
  BY <1>2, <1>3, <1>8, <1>9, <1>10, <1>11, <1>12

(***************************************************************************)
(* The gaits                                                               *)
(***************************************************************************)
\* The calibration cancels out of a step: ticks and angles are converted by the
\* same zero, whichever it is.
LEMMA NearBase ==
    ASSUME NEW leg \in Motion!Legs, NEW ticks \in 0 .. Motion!Full, NEW fine \in Int, NEW zero \in Int
    PROVE  Motion!TicksNear(leg, Motion!Angle(leg, ticks, zero), fine, zero)
             = Motion!Clamp(0, ticks + Motion!Rounded(Motion!Sign(leg) * fine, 10000), Motion!Full)
<1> DEFINE off == Motion!Rounded(Motion!Sign(leg) * fine, 10000)
<1>1. Motion!Sign(leg) * fine \in Int
  BY SignUnit
<1>2. off \in Int
  BY <1>1, RoundedInt
<1> HIDE DEF off
<1>3. Motion!Sign(leg) * Motion!Angle(leg, ticks, zero) = ticks - Motion!Middle - zero
  BY SignUnit DEF Motion!Angle, Motion!Middle, Motion!Full
<1>4. Motion!Middle + zero + Motion!Sign(leg) * Motion!Angle(leg, ticks, zero) + off = ticks + off
  BY <1>2, <1>3 DEF Motion!Middle, Motion!Full
<1>5. QED
  BY <1>4 DEF Motion!TicksNear, off

LEMMA NothingMoves ==
    ASSUME NEW leg \in Motion!Legs, NEW ticks \in 0 .. Motion!Full
    PROVE  Motion!Clamp(0, ticks + Motion!Rounded(Motion!Sign(leg) * 0, 10000), Motion!Full) = ticks
<1>1. Motion!Sign(leg) * 0 = 0
  BY SignUnit
<1>2. Motion!Rounded(0, 10000) = 0
  BY NothingRounded
<1>3. QED
  BY <1>1, <1>2 DEF Motion!Clamp, Motion!Full

LEMMA PhaseRange ==
    ASSUME NEW leg \in Motion!Legs, NEW time \in Nat
    PROVE  Motion!LegPhase(leg, time) \in 0 .. Motion!Cycle - 1
BY DEF Motion!LegPhase, Motion!Cycle, Motion!Half

LEMMA ShapeInt ==
    ASSUME NEW phase \in 0 .. Motion!Cycle - 1
    PROVE  /\ Motion!Stride(phase) \in -100 .. 100
           /\ Motion!Lift(phase) \in Int
           /\ phase >= Motion!Half => Motion!Lift(phase) = 0
<1>1. Motion!Smooth(phase, Motion!Half) \in 0 .. 100
  BY SmoothRange DEF Motion!Half, Motion!Cycle
<1>2. phase >= Motion!Half => Motion!Rounded(200 * (phase - Motion!Half), Motion!Half) \in 0 .. 200
  <2> SUFFICES ASSUME phase >= Motion!Half
               PROVE  Motion!Rounded(200 * (phase - Motion!Half), Motion!Half) \in 0 .. 200
    OBVIOUS
  <2>1. 200 * (phase - Motion!Half) \in Nat /\ 200 * (phase - Motion!Half) <= 200 * Motion!Half
    BY DEF Motion!Half, Motion!Cycle
  <2>2. Motion!Half \in Nat \ {0}
    BY DEF Motion!Half
  <2>3. QED
    BY <2>1, <2>2, RatioBounds
<1>3. 400 * phase * (Motion!Half - phase) \in Int /\ Motion!Half * Motion!Half \in Nat \ {0}
  BY DEF Motion!Half, Motion!Cycle
<1>4. Motion!Rounded(400 * phase * (Motion!Half - phase), Motion!Half * Motion!Half) \in Int
  BY <1>3, RoundedInt
<1>5. Motion!Stride(phase) \in -100 .. 100
  BY <1>1, <1>2 DEF Motion!Stride, Motion!Half, Motion!Cycle
<1>6. Motion!Lift(phase) \in Int
  BY <1>4 DEF Motion!Lift
<1>7. phase >= Motion!Half => Motion!Lift(phase) = 0
  BY DEF Motion!Lift, Motion!Half, Motion!Cycle
<1>8. QED
  BY <1>5, <1>6, <1>7

LEMMA DirectionUnit ==
    ASSUME NEW gait \in Motion!Gaits, NEW leg \in Motion!Legs
    PROVE  Motion!Direction(gait, leg) \in {-1, 0, 1}
BY DEF Motion!Direction, Motion!Gaits, Motion!Legs

Hundredths == 0 .. 100

\* Where a foot is pushed to, in ten-thousandths of a tick.
Push(leg, time, amplitude) ==
    Motion!Swing * Motion!Stride(Motion!LegPhase(leg, time)) * Motion!Direction(mode.name, leg) * amplitude

LEMMA WalkShape ==
    ASSUME mode \in Motion!GaitModes, NEW from \in Motion!Pose, NEW time \in Nat,
           NEW amplitude \in Hundredths, NEW zero \in Int
    PROVE  /\ Motion!Walk(from, time, amplitude, zero) \in Motion!Pose
           /\ \A leg \in Motion!Legs :
                /\ Push(leg, time, amplitude) \in Int
                /\ Motion!Walk(from, time, amplitude, zero)[leg]["coxa"]
                     = Motion!Clamp(0, from[leg]["coxa"]
                                         + Motion!Rounded(Motion!Sign(leg) * Push(leg, time, amplitude), 10000),
                                    Motion!Full)
                /\ Motion!LegPhase(leg, time) >= Motion!Half =>
                     \A joint \in {"femur", "tibia"} :
                       Motion!Walk(from, time, amplitude, zero)[leg][joint] = from[leg][joint]
<1> DEFINE phase(leg) == Motion!LegPhase(leg, time)
           delta(leg) == [coxa |-> Motion!Swing * Motion!Stride(phase(leg))
                                     * Motion!Direction(mode.name, leg) * amplitude,
                          femur |-> 100 * Motion!FemurUp(mode.lift) * Motion!Lift(phase(leg)),
                          tibia |-> 100 * Motion!TibiaUp(mode.lift) * Motion!Lift(phase(leg))]
           now == Motion!Walk(from, time, amplitude, zero)
<1>1. now = [leg \in Motion!Legs |-> [joint \in Motion!Joints |->
               Motion!TicksNear(leg, Motion!Angle(leg, from[leg][joint], zero), delta(leg)[joint], zero)]]
  BY DEF Motion!Walk
<1>2. Motion!Joints = {"coxa", "femur", "tibia"}
  BY DEF Motion!Joints
<1>3. ASSUME NEW leg \in Motion!Legs
      PROVE  /\ \A joint \in Motion!Joints : delta(leg)[joint] \in Int
             /\ delta(leg)["coxa"] = Push(leg, time, amplitude)
             /\ phase(leg) >= Motion!Half => delta(leg)["femur"] = 0 /\ delta(leg)["tibia"] = 0
  <2>1. phase(leg) \in 0 .. Motion!Cycle - 1
    BY PhaseRange
  <2> HIDE DEF phase
  <2>2. /\ Motion!Stride(phase(leg)) \in Int /\ Motion!Lift(phase(leg)) \in Int
        /\ phase(leg) >= Motion!Half => Motion!Lift(phase(leg)) = 0
    BY <2>1, ShapeInt
  <2>3. Motion!Direction(mode.name, leg) \in {-1, 0, 1}
    BY DirectionUnit DEF Motion!GaitModes
  <2>4. Motion!FemurUp(mode.lift) \in Int /\ Motion!TibiaUp(mode.lift) \in Int /\ Motion!Swing \in Int
    BY DEF Motion!FemurUp, Motion!TibiaUp, Motion!Swing
  <2>5. delta(leg)["coxa"] \in Int
    <3>1. Motion!Swing * Motion!Stride(phase(leg)) \in Int
      BY <2>2, <2>4
    <3>2. Motion!Swing * Motion!Stride(phase(leg)) * Motion!Direction(mode.name, leg) \in Int
      BY <2>3, <3>1
    <3>3. Motion!Swing * Motion!Stride(phase(leg)) * Motion!Direction(mode.name, leg) * amplitude \in Int
      BY <3>2 DEF Hundredths
    <3>4. QED
      BY <3>3
  <2>6. delta(leg)["femur"] \in Int /\ delta(leg)["tibia"] \in Int
    BY <2>2, <2>4
  <2>7. phase(leg) >= Motion!Half => delta(leg)["femur"] = 0 /\ delta(leg)["tibia"] = 0
    BY <2>2, <2>4
  <2>8. delta(leg)["coxa"] = Push(leg, time, amplitude)
    BY DEF Push, phase
  <2>9. QED
    BY <1>2, <2>5, <2>6, <2>7, <2>8
<1> HIDE DEF phase, delta, now
<1>4. ASSUME NEW leg \in Motion!Legs, NEW joint \in Motion!Joints
      PROVE  /\ from[leg][joint] \in 0 .. Motion!Full
             /\ now[leg][joint]
                  = Motion!Clamp(0, from[leg][joint]
                                      + Motion!Rounded(Motion!Sign(leg) * delta(leg)[joint], 10000), Motion!Full)
             /\ now[leg][joint] \in 0 .. Motion!Full
  <2>1. from[leg][joint] \in 0 .. Motion!Full
    BY DEF Motion!Pose
  <2>2. delta(leg)[joint] \in Int
    BY <1>3
  <2>3. now[leg][joint]
          = Motion!TicksNear(leg, Motion!Angle(leg, from[leg][joint], zero), delta(leg)[joint], zero)
    BY <1>1
  <2>4. Motion!TicksNear(leg, Motion!Angle(leg, from[leg][joint], zero), delta(leg)[joint], zero)
          = Motion!Clamp(0, from[leg][joint]
                              + Motion!Rounded(Motion!Sign(leg) * delta(leg)[joint], 10000), Motion!Full)
    BY <2>1, <2>2, NearBase
  <2>5. from[leg][joint] + Motion!Rounded(Motion!Sign(leg) * delta(leg)[joint], 10000) \in Int
    <3>1. Motion!Sign(leg) * delta(leg)[joint] \in Int
      BY <2>2, SignUnit
    <3>2. Motion!Rounded(Motion!Sign(leg) * delta(leg)[joint], 10000) \in Int
      BY <3>1, RoundedInt
    <3>3. QED
      BY <2>1, <3>2 DEF Motion!Full
  <2>6. QED
    BY <2>1, <2>3, <2>4, <2>5, ClampRange
<1>5. now \in Motion!Pose
  BY <1>1, <1>4 DEF Motion!Pose
<1>6. ASSUME NEW leg \in Motion!Legs, phase(leg) >= Motion!Half, NEW joint \in {"femur", "tibia"}
      PROVE  now[leg][joint] = from[leg][joint]
  <2>1. joint \in Motion!Joints /\ delta(leg)[joint] = 0
    BY <1>2, <1>3, <1>6
  <2>2. from[leg][joint] \in 0 .. Motion!Full
    BY <1>4, <2>1
  <2>3. Motion!Clamp(0, from[leg][joint] + Motion!Rounded(Motion!Sign(leg) * 0, 10000), Motion!Full)
          = from[leg][joint]
    BY <2>2, NothingMoves
  <2>4. QED
    BY <1>4, <2>1, <2>3
<1>7. ASSUME NEW leg \in Motion!Legs
      PROVE  /\ Push(leg, time, amplitude) \in Int
             /\ now[leg]["coxa"]
                  = Motion!Clamp(0, from[leg]["coxa"]
                                      + Motion!Rounded(Motion!Sign(leg) * Push(leg, time, amplitude), 10000),
                                 Motion!Full)
  <2>1. "coxa" \in Motion!Joints
    BY <1>2
  <2>2. QED
    BY <1>3, <1>4, <2>1
<1>8. QED
  BY <1>5, <1>6, <1>7 DEF now, phase

\* A gait stands still, or walks from where it was armed.
LEMMA TripodShape ==
    ASSUME MotionAssumption, setting \in Settings, mode \in Motion!GaitModes, NEW from \in Motion!Pose,
           NEW time \in Nat, NEW zero \in Int
    PROVE  \/ Motion!Tripod(from, time, zero) = from
           \/ \E t \in Nat, amplitude \in Hundredths :
                Motion!Tripod(from, time, zero) = Motion!Walk(from, t, amplitude, zero)
<1> DEFINE amplitude == IF setting.blend = 0 THEN 100
                        ELSE Motion!Smooth(time - Motion!Settle, setting.blend)
<1>1. setting.blend \in Nat /\ time - Motion!Settle \in Int
  BY DEF MotionAssumption, Motion!Settle
<1>2. amplitude \in Hundredths
  <2>1. setting.blend # 0 => Motion!Smooth(time - Motion!Settle, setting.blend) \in 0 .. 100
    BY <1>1, SmoothRange
  <2>2. QED
    BY <2>1 DEF Hundredths
<1>3. CASE time < Motion!Settle \/ Motion!WalkOver(time)
  BY <1>3 DEF Motion!Tripod
<1>4. CASE ~(time < Motion!Settle \/ Motion!WalkOver(time))
  <2>1. Motion!Tripod(from, time, zero) = Motion!Walk(from, time - Motion!Settle, amplitude, zero)
    BY <1>4 DEF Motion!Tripod
  <2>2. time - Motion!Settle \in Nat
    BY <1>4 DEF Motion!Settle
  <2> HIDE DEF amplitude
  <2>3. QED
    BY <1>2, <2>1, <2>2
<1>5. QED
  BY <1>3, <1>4

LEMMA TargetKnown ==
    ASSUME mode \in Motion!Modes, ~Motion!Walking
    PROVE  Motion!Target \in Motion!Kinds
BY DEF Motion!Modes, Motion!PoseNames, Motion!Walking, Motion!Target, Motion!Kinds

\* Whatever runs, for however long, commands a position in its range for each servo.
LEMMA CommandedIsPose ==
    ASSUME MotionAssumption, setting \in Settings, mode \in Motion!Modes, NEW from \in Motion!Pose,
           NEW time \in Nat, NEW zero \in Int
    PROVE  Motion!Commanded(from, time, zero) \in Motion!Pose
<1>1. CASE Motion!Walking
  <2>1. Motion!Tripod(from, time, zero) \in Motion!Pose
    <3>1. mode \in Motion!GaitModes
      BY <1>1 DEF Motion!Walking
    <3>2. \A t \in Nat, amplitude \in Hundredths : Motion!Walk(from, t, amplitude, zero) \in Motion!Pose
      BY <3>1, WalkShape
    <3>3. QED
      BY <3>1, <3>2, TripodShape
  <2>2. QED
    BY <1>1, <2>1 DEF Motion!Commanded
<1>2. CASE ~Motion!Walking /\ Motion!Rising
  <2>1. Motion!StandUp(Motion!Target, from, time, zero) \in Motion!Pose
    BY <1>2, TargetKnown, StandUpStages
  <2>2. QED
    BY <1>2, <2>1 DEF Motion!Commanded
<1>3. CASE ~Motion!Walking /\ ~Motion!Rising
  <2> DEFINE length == IF mode.name \in {"stand", "standHigh"} THEN Motion!Settle ELSE 20
  <2>1. length \in Nat \ {0}
    BY DEF Motion!Settle
  <2>2. Motion!Commanded(from, time, zero) = Motion!Approach(Motion!Target, length, from, time, zero)
    BY <1>3 DEF Motion!Commanded
  <2> HIDE DEF length
  <2>3. Motion!Named(Motion!Target, zero) \in Motion!Pose
    BY <1>3, TargetKnown, NamedIsPose
  <2>4. Motion!Smooth(time, length) \in 0 .. 100
    BY <2>1, SmoothRange
  <2>5. QED
    BY <2>2, <2>3, <2>4, InterpolateIsPose DEF Motion!Approach
<1>4. QED
  BY <1>1, <1>2, <1>3

(***************************************************************************)
(* The motion keeps its invariant                                          *)
(***************************************************************************)
LEMMA MotionInitInv ==
    ASSUME MotionAssumption, Motion!Init
    PROVE  Motion!MotionInv
<1>1. Motion!TypeOK
  <2>1. {armed, fault, edited} \subseteq BOOLEAN
    BY DEF Motion!Init, Motion!TypeOK
  <2>2. mode \in Motion!Modes /\ setting \in Settings /\ shift \in Shifts /\ elapsed \in 0 .. MaxTime
    BY DEF MotionAssumption, Motion!Init, Motion!TypeOK
  <2>3. /\ {start, pose} \subseteq Motion!Pose \cup {NoPose}
        /\ (armed => start # NoPose /\ pose # NoPose)
    BY DEF MotionAssumption, Motion!Init, Motion!TypeOK
  <2>4. QED
    BY <2>1, <2>2, <2>3 DEF Motion!TypeOK
<1>2. Motion!HeldIsCommanded
  BY DEF Motion!Init, Motion!HeldIsCommanded
<1>3. QED
  BY <1>1, <1>2 DEF Motion!MotionInv

\* What is commanded depends on the mode and the configuration, which stay.
LEMMA SameProgram ==
    ASSUME mode' = mode, setting' = setting, NEW from, NEW time, NEW zero,
           start' = from, elapsed' = time
    PROVE  Motion!Commanded(start, elapsed, zero)' = Motion!Commanded(from, time, zero)
BY DEF Motion!Commanded, Motion!Walking, Motion!Rising, Motion!Target, Motion!Tripod, Motion!WalkOver,
       Motion!Walk, Motion!StandUp

LEMMA MotionNextInv ==
    ASSUME MotionAssumption, Motion!MotionInv, Motion!Next
    PROVE  Motion!MotionInv'
<1> USE DEF Motion!MotionInv
<1>1. ASSUME NEW live \in Lives, Motion!Arm(live) PROVE Motion!MotionInv'
  <2>1. Motion!TypeOK'
    <3>1. {armed, fault, edited}' \subseteq BOOLEAN
      BY <1>1 DEF Motion!Arm, Motion!TypeOK
    <3>2. (mode \in Motion!Modes /\ setting \in Settings /\ shift \in Shifts /\ elapsed \in 0 .. MaxTime)'
      BY <1>1 DEF MotionAssumption, Motion!Arm, Motion!TypeOK
    <3>3. /\ {start, pose}' \subseteq Motion!Pose \cup {NoPose}
          /\ (armed => start # NoPose /\ pose # NoPose)'
      BY <1>1 DEF MotionAssumption, Motion!Arm, Motion!TypeOK
    <3>4. QED
      BY <3>1, <3>2, <3>3 DEF Motion!TypeOK
  <2>2. pose' = start'
    BY <1>1 DEF Motion!Arm
  <2>3. QED
    BY <2>1, <2>2 DEF Motion!HeldIsCommanded
<1>2. ASSUME NEW later \in Late, Motion!Command(later) PROVE Motion!MotionInv'
  <2>1. elapsed' \in 0 .. MaxTime /\ shift \in Shifts /\ shift \in Int /\ start \in Motion!Pose
    BY <1>2 DEF MotionAssumption, Motion!Command, Motion!TypeOK
  <2>2. pose' = Motion!Commanded(start, elapsed', shift)
    BY <1>2 DEF Motion!Command
  <2>3. pose' \in Motion!Pose
    BY <2>1, <2>2, CommandedIsPose DEF MotionAssumption, Motion!TypeOK
  <2>4. pose' = Motion!Commanded(start, elapsed, shift)'
    BY <1>2, <2>2, SameProgram DEF Motion!Command
  <2>5. Motion!TypeOK'
    BY <1>2, <2>1, <2>3 DEF MotionAssumption, Motion!Command, Motion!TypeOK
  <2>6. Motion!HeldIsCommanded'
    BY <1>2, <2>1, <2>4 DEF Motion!HeldIsCommanded, Motion!Command
  <2>7. QED
    BY <2>5, <2>6
<1>3. CASE Motion!Disarm
  <2>1. Motion!TypeOK'
    <3>1. {armed, fault, edited}' \subseteq BOOLEAN
      BY <1>3 DEF Motion!Disarm, Motion!TypeOK
    <3>2. (mode \in Motion!Modes /\ setting \in Settings /\ shift \in Shifts /\ elapsed \in 0 .. MaxTime)'
      BY <1>3 DEF MotionAssumption, Motion!Disarm, Motion!TypeOK
    <3>3. /\ {start, pose}' \subseteq Motion!Pose \cup {NoPose}
          /\ (armed => start # NoPose /\ pose # NoPose)'
      BY <1>3 DEF MotionAssumption, Motion!Disarm, Motion!TypeOK
    <3>4. QED
      BY <3>1, <3>2, <3>3 DEF Motion!TypeOK
  <2>2. ~armed'
    BY <1>3 DEF Motion!Disarm
  <2>3. QED
    BY <2>1, <2>2 DEF Motion!HeldIsCommanded
<1>4. ASSUME NEW stuck \in Lives \cup {pose}, Motion!Trip(stuck) PROVE Motion!MotionInv'
  <2>1. Motion!TypeOK'
    BY <1>4 DEF MotionAssumption, Motion!Trip, Motion!TypeOK
  <2>2. fault'
    BY <1>4 DEF Motion!Trip
  <2>3. QED
    BY <2>1, <2>2 DEF Motion!HeldIsCommanded
<1>5. ASSUME NEW next \in Motion!Modes, Motion!ChangeMode(next) PROVE Motion!MotionInv'
  <2>1. Motion!TypeOK'
    <3>1. {armed, fault, edited}' \subseteq BOOLEAN
      BY <1>5 DEF Motion!ChangeMode, Motion!TypeOK
    <3>2. (mode \in Motion!Modes /\ setting \in Settings /\ shift \in Shifts /\ elapsed \in 0 .. MaxTime)'
      BY <1>5 DEF MotionAssumption, Motion!ChangeMode, Motion!TypeOK
    <3>3. /\ {start, pose}' \subseteq Motion!Pose \cup {NoPose}
          /\ (armed => start # NoPose /\ pose # NoPose)'
      BY <1>5 DEF MotionAssumption, Motion!ChangeMode, Motion!TypeOK
    <3>4. QED
      BY <3>1, <3>2, <3>3 DEF Motion!TypeOK
  <2>2. ~armed'
    BY <1>5 DEF Motion!ChangeMode
  <2>3. QED
    BY <2>1, <2>2 DEF Motion!HeldIsCommanded
<1>6. ASSUME NEW zero \in Shifts, Motion!Recalibrate(zero) PROVE Motion!MotionInv'
  <2>1. Motion!TypeOK'
    BY <1>6 DEF Motion!Recalibrate, Motion!TypeOK
  <2>2. edited' /\ \A any : Motion!Commanded(start, elapsed, any)' = Motion!Commanded(start, elapsed, any)
    BY <1>6, SameProgram DEF Motion!Recalibrate
  <2>3. Motion!HeldIsCommanded'
    BY <1>6, <2>2 DEF Motion!HeldIsCommanded, Motion!Recalibrate
  <2>4. QED
    BY <2>1, <2>3
<1>7. QED
  BY <1>1, <1>2, <1>3, <1>4, <1>5, <1>6 DEF Motion!Next

LEMMA MotionStutters ==
    ASSUME Motion!MotionInv, UNCHANGED motionVars
    PROVE  Motion!MotionInv'
<1>1. Motion!TypeOK'
  BY DEF motionVars, Motion!MotionInv, Motion!TypeOK
<1>2. \A any : Motion!Commanded(start, elapsed, any)' = Motion!Commanded(start, elapsed, any)
  BY SameProgram DEF motionVars
<1>3. Motion!HeldIsCommanded'
  BY <1>2 DEF motionVars, Motion!MotionInv, Motion!HeldIsCommanded
<1>4. QED
  BY <1>1, <1>3 DEF Motion!MotionInv

\* While a motion runs, the pose is that of the arming, or commanded by a calibration
\* that is today's, unless it was edited.
LEMMA PoseIsCommanded ==
    ASSUME MotionAssumption, Motion!MotionInv, armed, ~fault
    PROVE  /\ mode \in Motion!Modes /\ setting \in Settings
           /\ start \in Motion!Pose /\ elapsed \in Nat
           /\ \/ pose = start
              \/ \E zero \in Int : (~edited => zero = shift) /\ pose = Motion!Commanded(start, elapsed, zero)
BY DEF MotionAssumption, Motion!MotionInv, Motion!TypeOK, Motion!HeldIsCommanded

LEMMA CoxaeLastHolds ==
    ASSUME MotionAssumption, Motion!MotionInv
    PROVE  CoxaeLast
<1> SUFFICES ASSUME armed, ~fault, Motion!Rising, ~edited,
                    NEW leg \in Motion!Legs, pose[leg]["coxa"] # start[leg]["coxa"],
                    NEW other \in Motion!Legs, NEW joint \in {"femur", "tibia"}
             PROVE  pose[other][joint] = Motion!Named(Motion!Target, shift)[other][joint]
  BY DEF CoxaeLast, Motion!CoxaeLast
<1>1. pose = Motion!Commanded(start, elapsed, shift) /\ shift \in Int
  <2>1. pose # start
    OBVIOUS
  <2>2. QED
    BY <2>1, PoseIsCommanded
<1>2. ~Motion!Walking
  BY DEF Motion!Rising, Motion!Walking, Motion!GaitModes, Motion!Gaits
<1>3. pose = Motion!StandUp(Motion!Target, start, elapsed, shift)
  BY <1>1, <1>2 DEF Motion!Commanded
<1>4. Motion!Target \in Motion!Kinds
  BY <1>2, PoseIsCommanded, TargetKnown
<1>5. setting \in Settings /\ start \in Motion!Pose /\ elapsed \in Nat
  BY PoseIsCommanded
<1>6. SameCoxae(pose, start) \/ SameHeight(pose, Motion!Named(Motion!Target, shift))
  <2> DEFINE kind == Motion!Target
  <2> HIDE DEF kind
  <2>1. kind \in Motion!Kinds /\ pose = Motion!StandUp(kind, start, elapsed, shift)
    BY <1>3, <1>4 DEF kind
  <2>2. SameCoxae(pose, start) \/ SameHeight(pose, Motion!Named(kind, shift))
    BY <1>1, <1>5, <2>1, StandUpStages
  <2>3. QED
    BY <2>2 DEF kind
<1>7. QED
  BY <1>6 DEF SameCoxae, SameHeight

LEMMA OneTripodHolds ==
    ASSUME MotionAssumption, Motion!MotionInv
    PROVE  Motion!OneTripodPlanted
<1> SUFFICES ASSUME armed, ~fault, Motion!Walking
             PROVE  \E a \in BOOLEAN : \A leg \in Motion!Legs : Motion!IsTripodA(leg) = a =>
                      \A joint \in {"femur", "tibia"} : pose[leg][joint] = start[leg][joint]
  BY DEF Motion!OneTripodPlanted
<1>1. CASE pose = start
  BY <1>1
<1>2. ASSUME NEW t \in Nat, NEW amplitude \in Hundredths, NEW zero \in Int,
             pose = Motion!Walk(start, t, amplitude, zero)
      PROVE  \E a \in BOOLEAN : \A leg \in Motion!Legs : Motion!IsTripodA(leg) = a =>
               \A joint \in {"femur", "tibia"} : pose[leg][joint] = start[leg][joint]
  <2>1. mode \in Motion!GaitModes /\ start \in Motion!Pose
    BY PoseIsCommanded DEF Motion!Walking
  <2>2. \A leg \in Motion!Legs : Motion!LegPhase(leg, t) >= Motion!Half =>
          \A joint \in {"femur", "tibia"} : pose[leg][joint] = start[leg][joint]
    BY <1>2, <2>1, WalkShape
  <2>3. CASE t % Motion!Cycle >= Motion!Half
    <3>1. \A leg \in Motion!Legs : Motion!IsTripodA(leg) = TRUE => Motion!LegPhase(leg, t) >= Motion!Half
      BY <2>3 DEF Motion!LegPhase
    <3>2. QED
      BY <2>2, <3>1
  <2>4. CASE t % Motion!Cycle < Motion!Half
    <3>1. (t + Motion!Half) % Motion!Cycle >= Motion!Half
      BY <2>4 DEF Motion!Half, Motion!Cycle
    <3>2. \A leg \in Motion!Legs : Motion!IsTripodA(leg) = FALSE => Motion!LegPhase(leg, t) >= Motion!Half
      BY <3>1 DEF Motion!LegPhase
    <3>3. QED
      BY <2>2, <3>2
  <2>5. QED
    BY <2>3, <2>4 DEF Motion!Half, Motion!Cycle
<1>3. pose # start => \E zero \in Int : pose = Motion!Tripod(start, elapsed, zero)
  BY PoseIsCommanded DEF Motion!Commanded
<1>4. setting \in Settings /\ mode \in Motion!GaitModes /\ start \in Motion!Pose /\ elapsed \in Nat
  BY PoseIsCommanded DEF Motion!Walking
<1>5. ASSUME NEW zero \in Int, pose = Motion!Tripod(start, elapsed, zero)
      PROVE  \/ pose = start
             \/ \E t \in Nat, amplitude \in Hundredths : pose = Motion!Walk(start, t, amplitude, zero)
  BY <1>4, <1>5, TripodShape
<1>6. QED
  BY <1>1, <1>2, <1>3, <1>5

\* Two pushes that are opposite are, rounded, within a tick of each other.
LEMMA OppositeRounding ==
    ASSUME NEW n \in Int, NEW m \in Int, n + m = 0
    PROVE  /\ Motion!Rounded(n, 10000) \in Int /\ Motion!Rounded(m, 10000) \in Int
           /\ Motion!Rounded(n, 10000) + Motion!Rounded(m, 10000) \in -1 .. 1
BY DEF Motion!Rounded

LEMMA PushBound ==
    ASSUME mode \in Motion!GaitModes, NEW leg \in Motion!Legs, NEW t \in Nat, NEW amplitude \in Hundredths
    PROVE  /\ Push(leg, t, amplitude) \in Int
           /\ Motion!Rounded(Motion!Sign(leg) * Push(leg, t, amplitude), 10000) \in -4 .. 4
<1> DEFINE stride == Motion!Stride(Motion!LegPhase(leg, t))
           way == Motion!Direction(mode.name, leg)
           signed == Motion!Sign(leg) * Push(leg, t, amplitude)
<1>1. stride \in -100 .. 100
  BY PhaseRange, ShapeInt
<1>2. way \in {-1, 0, 1}
  BY DirectionUnit DEF Motion!GaitModes
<1>3. amplitude \in Int /\ amplitude >= 0 /\ amplitude <= 100
  BY DEF Hundredths
<1> HIDE DEF stride, way
<1>4. Push(leg, t, amplitude) = 4 * stride * way * amplitude
  BY DEF Push, Motion!Swing, stride, way
<1>5. PICK x \in Int : Push(leg, t, amplitude) = x * amplitude /\ x <= 400 /\ -x <= 400
  BY <1>1, <1>2, <1>4
<1>6. Push(leg, t, amplitude) \in Int /\ Push(leg, t, amplitude) <= 40000 /\ -Push(leg, t, amplitude) <= 40000
  <2>1. x * amplitude <= 400 * amplitude /\ (-x) * amplitude <= 400 * amplitude
    BY <1>3, <1>5
  <2>2. (-x) * amplitude = -(x * amplitude) /\ x * amplitude \in Int
    BY <1>3, <1>5
  <2>3. QED
    BY <1>3, <1>5, <2>1, <2>2
<1>7. signed \in Int /\ signed <= 40000 /\ -signed <= 40000
  BY <1>6, SignUnit
<1> HIDE DEF signed
<1>8. Motion!Rounded(signed, 10000) \in -4 .. 4
  BY <1>7 DEF Motion!Rounded
<1>9. QED
  BY <1>6, <1>8 DEF signed

\* Within a tripod, front and rear leg of a side are pushed in opposite directions.
LEMMA SidewardPush ==
    ASSUME mode \in Motion!GaitModes, mode.name \in {"sideLeft", "sideRight"},
           NEW a \in {"left", "right"}, NEW t \in Nat, NEW amplitude \in Hundredths
    PROVE  /\ Push(<<a, "middle">>, t, amplitude) = 0
           /\ Push(<<a, "front">>, t, amplitude) + Push(<<a, "rear">>, t, amplitude) = 0
<1>1. \A place \in {"front", "middle", "rear"} : <<a, place>> \in Motion!Legs
  BY DEF Motion!Legs
<1>2. /\ Motion!Direction(mode.name, <<a, "middle">>) = 0
      /\ Motion!Direction(mode.name, <<a, "front">>) + Motion!Direction(mode.name, <<a, "rear">>) = 0
      /\ Motion!Direction(mode.name, <<a, "front">>) \in {-1, 1}
  BY DEF Motion!Direction, Motion!IsLeft
<1>3. Motion!LegPhase(<<a, "front">>, t) = Motion!LegPhase(<<a, "rear">>, t)
  BY DEF Motion!LegPhase, Motion!IsTripodA, Motion!IsLeft
<1>4. ASSUME NEW place \in {"front", "middle", "rear"}
      PROVE  Motion!Stride(Motion!LegPhase(<<a, place>>, t)) \in -100 .. 100
  BY <1>1, PhaseRange, ShapeInt
<1>5. Push(<<a, "middle">>, t, amplitude) = 0
  <2> DEFINE stride == Motion!Stride(Motion!LegPhase(<<a, "middle">>, t))
  <2>1. stride \in -100 .. 100
    BY <1>4
  <2> HIDE DEF stride
  <2>2. QED
    BY <1>2, <2>1 DEF Push, Motion!Swing, stride, Hundredths
<1>6. Push(<<a, "front">>, t, amplitude) + Push(<<a, "rear">>, t, amplitude) = 0
  <2> DEFINE stride == Motion!Stride(Motion!LegPhase(<<a, "front">>, t))
             way == Motion!Direction(mode.name, <<a, "front">>)
             back == Motion!Direction(mode.name, <<a, "rear">>)
  <2>1. stride \in -100 .. 100
    BY <1>4
  <2>2. /\ Push(<<a, "front">>, t, amplitude) = 4 * stride * way * amplitude
        /\ Push(<<a, "rear">>, t, amplitude) = 4 * stride * back * amplitude
    BY <1>3 DEF Push, Motion!Swing
  <2>3. way \in {-1, 1} /\ way + back = 0
    BY <1>2
  <2>4. back \in {-1, 0, 1}
    BY <1>1, DirectionUnit DEF Motion!GaitModes
  <2> HIDE DEF stride, way, back
  <2>5. QED
    BY <2>1, <2>2, <2>3, <2>4 DEF Hundredths
<1>7. QED
  BY <1>5, <1>6

LEMMA SidewardHolds ==
    ASSUME MotionAssumption, Motion!MotionInv
    PROVE  Motion!SidewardOnly
<1> SUFFICES ASSUME armed, ~fault, Motion!Walking, mode.name \in {"sideLeft", "sideRight"},
                    NEW a \in {"left", "right"}
             PROVE  LET Coxa(place) ==
                          Motion!Sign(<<a, place>>) * (pose[<<a, place>>]["coxa"] - start[<<a, place>>]["coxa"])
                    IN /\ Coxa("middle") = 0
                       /\ (\A place \in {"front", "rear"} :
                             start[<<a, place>>]["coxa"] \in Motion!Swing .. Motion!Full - Motion!Swing)
                            => Coxa("front") + Coxa("rear") \in -1 .. 1
  BY DEF Motion!SidewardOnly
<1> DEFINE Coxa(place) ==
             Motion!Sign(<<a, place>>) * (pose[<<a, place>>]["coxa"] - start[<<a, place>>]["coxa"])
<1>1. /\ setting \in Settings /\ mode \in Motion!GaitModes /\ start \in Motion!Pose /\ elapsed \in Nat
      /\ pose # start => \E zero \in Int : pose = Motion!Tripod(start, elapsed, zero)
  BY PoseIsCommanded DEF Motion!Walking, Motion!Commanded
<1>2. ASSUME NEW place \in {"front", "middle", "rear"}
      PROVE  /\ <<a, place>> \in Motion!Legs
             /\ start[<<a, place>>]["coxa"] \in 0 .. Motion!Full
             /\ Motion!Sign(<<a, place>>) = IF a = "left" THEN 1 ELSE -1
  <2>1. <<a, place>> \in Motion!Legs /\ "coxa" \in Motion!Joints
    BY DEF Motion!Legs, Motion!Joints
  <2>2. QED
    BY <1>1, <2>1 DEF Motion!Pose, Motion!Sign, Motion!IsLeft
<1>3. CASE pose = start
  <2>1. ASSUME NEW place \in {"front", "middle", "rear"} PROVE Coxa(place) = 0
    BY <1>2, <1>3 DEF Motion!Full
  <2>2. QED
    BY <2>1
<1>4. ASSUME NEW t \in Nat, NEW amplitude \in Hundredths, NEW zero \in Int,
             pose = Motion!Walk(start, t, amplitude, zero)
      PROVE  /\ Coxa("middle") = 0
             /\ (\A place \in {"front", "rear"} :
                   start[<<a, place>>]["coxa"] \in Motion!Swing .. Motion!Full - Motion!Swing)
                  => Coxa("front") + Coxa("rear") \in -1 .. 1
  <2> DEFINE off(place) ==
               Motion!Rounded(Motion!Sign(<<a, place>>) * Push(<<a, place>>, t, amplitude), 10000)
  <2>1. ASSUME NEW place \in {"front", "middle", "rear"}
        PROVE  pose[<<a, place>>]["coxa"]
                 = Motion!Clamp(0, start[<<a, place>>]["coxa"] + off(place), Motion!Full)
    <3>1. \A leg \in Motion!Legs :
            Motion!Walk(start, t, amplitude, zero)[leg]["coxa"]
              = Motion!Clamp(0, start[leg]["coxa"]
                                  + Motion!Rounded(Motion!Sign(leg) * Push(leg, t, amplitude), 10000),
                             Motion!Full)
      BY <1>1, WalkShape
    <3>2. QED
      BY <1>2, <1>4, <3>1
  <2>2. Coxa("middle") = 0
    <3>1. Push(<<a, "middle">>, t, amplitude) = 0
      BY <1>1, SidewardPush
    <3>2. pose[<<a, "middle">>]["coxa"] = start[<<a, "middle">>]["coxa"]
      BY <1>2, <2>1, <3>1, NothingMoves
    <3>3. QED
      BY <1>2, <3>2 DEF Motion!Full
  <2>3. ASSUME NEW place \in {"front", "rear"}
        PROVE  off(place) \in -4 .. 4
    BY <1>1, <1>2, PushBound
  <2>4. off("front") + off("rear") \in -1 .. 1
    <3> DEFINE n(place) == Motion!Sign(<<a, place>>) * Push(<<a, place>>, t, amplitude)
    <3>1. Push(<<a, "front">>, t, amplitude) \in Int /\ Push(<<a, "rear">>, t, amplitude) \in Int
      BY <1>1, <1>2, PushBound
    <3>2. Push(<<a, "front">>, t, amplitude) + Push(<<a, "rear">>, t, amplitude) = 0
      BY <1>1, SidewardPush
    <3>3. n("front") \in Int /\ n("rear") \in Int /\ n("front") + n("rear") = 0
      BY <1>2, <3>1, <3>2
    <3> HIDE DEF n
    <3>4. Motion!Rounded(n("front"), 10000) + Motion!Rounded(n("rear"), 10000) \in -1 .. 1
      BY <3>3, OppositeRounding
    <3>5. QED
      BY <3>4 DEF n
  <2> HIDE DEF off
  <2>5. ASSUME NEW place \in {"front", "rear"},
               start[<<a, place>>]["coxa"] \in Motion!Swing .. Motion!Full - Motion!Swing
        PROVE  Coxa(place) = IF a = "left" THEN off(place) ELSE -off(place)
    BY <1>2, <2>1, <2>3, <2>5 DEF Motion!Clamp, Motion!Full, Motion!Swing
  <2>6. QED
    BY <2>2, <2>3, <2>4, <2>5 DEF Motion!Swing
<1>5. ASSUME NEW zero \in Int, pose = Motion!Tripod(start, elapsed, zero)
      PROVE  \/ pose = start
             \/ \E t \in Nat, amplitude \in Hundredths : pose = Motion!Walk(start, t, amplitude, zero)
  BY <1>1, <1>5, TripodShape
<1>6. QED
  BY <1>1, <1>3, <1>4, <1>5

(***************************************************************************)
(* Both in one specification                                               *)
(***************************************************************************)
PartsInv == ArmInv /\ Motion!MotionInv

LEMMA PartsInitInv == MotionAssumption /\ PartsInit => PartsInv
BY ArmInitInv, MotionInitInv DEF PartsInit, PartsInv, MotionRests, ArmRests

LEMMA PartsNextInv == MotionAssumption /\ PartsInv /\ [PartsNext]_partsVars => PartsInv'
<1> SUFFICES ASSUME MotionAssumption, PartsInv, [PartsNext]_partsVars PROVE PartsInv'
  OBVIOUS
<1>1. ArmInv'
  BY ArmNextInv DEF PartsInv, PartsNext, partsVars
<1>2. Motion!MotionInv'
  BY MotionNextInv, MotionStutters DEF PartsInv, PartsNext, partsVars
<1>3. QED
  BY <1>1, <1>2 DEF PartsInv

\* What arm control and the motions each rely on holds at every moment of both.
THEOREM PartsInvariant == PartsSpec => []PartsInv
BY MotionAssumption, PartsInitInv, PartsNextInv, PTL DEF PartsSpec

\* Whatever is commanded, for however long and however late (MotionRuntime::commands),
\* each servo is sent a position in its range, and the arm's poses are poses.
THEOREM PartsTypeCorrect == PartsSpec => []PartsTypeOK
<1>1. PartsInv => PartsTypeOK
  BY DEF PartsInv, ArmInv, PartsTypeOK, Motion!MotionInv
<1>2. QED
  BY <1>1, PartsInvariant, PTL

\* No stand-up, of any duration, from any measured pose, turns a coxa before all legs
\* carry the body at the height of the stand (staged_stand_up_pose).
THEOREM CoxaeTurnLast == PartsSpec => []CoxaeLast
<1>1. PartsInv => CoxaeLast
  BY MotionAssumption, CoxaeLastHolds DEF PartsInv
<1>2. QED
  BY <1>1, PartsInvariant, PTL

\* Every gait, at any moment and from any pose, has one tripod with its feet down, and
\* a sideward gait pushes neither forward nor back, to within the rounding of a tick
\* (walk_pose_from_base, coxa_gait_direction_for_leg).
THEOREM GaitsCarry == PartsSpec => []GaitCarries
<1>1. PartsInv => GaitCarries
  BY MotionAssumption, OneTripodHolds, SidewardHolds DEF PartsInv, GaitCarries
<1>2. QED
  BY <1>1, PartsInvariant, PTL

\* In the specification of both, arm control keeps its word: it sends when ready,
\* remembers its torque, and a utility moves its own servo.
THEOREM PartsKeepTheirWord ==
    PartsSpec => [](SendsWhenReady /\ TorqueRemembered) /\ UtilityMovesItsServo
<1>1. PartsInv => SendsWhenReady /\ TorqueRemembered
  BY ReadyWhenSent, RememberedTorque DEF PartsInv
<1>2. PartsInv /\ [PartsNext]_partsVars => [MovesItsServo]_vars
  BY OneServoStep DEF PartsInv, PartsNext, partsVars
<1>3. QED
  BY <1>1, <1>2, PartsInvariant, PTL DEF PartsSpec, UtilityMovesItsServo

================================================================================
