-------------------------- MODULE WorkerHistoryProofs --------------------------
(***************************************************************************)
(* What WorkerHistory remembers of the reads, for any number of servos,    *)
(* stride and strike limit a round of reads fits in.                       *)
(***************************************************************************)
EXTENDS WorkerHistory, ControlWorkerProofs

(***************************************************************************)
(* The round of the cursor                                                 *)
(***************************************************************************)
\* The cursor wraps at most once in a poll.
LEMMA Wraps ==
    ASSUME NEW c \in Servos, NEW n \in 0 .. NumServos
    PROVE  (c + n) % NumServos = IF c + n < NumServos THEN c + n ELSE c + n - NumServos
<1>1. NumServos \in Nat \ {0} /\ c \in Nat /\ c < NumServos
  BY NumServosAssumption DEF Servos
<1>2. CASE c + n < NumServos
  BY <1>1, <1>2
<1>3. CASE c + n >= NumServos
  BY <1>1, <1>3
<1>4. QED
  BY <1>1, <1>2, <1>3

\* How far the cursor has to go to come to a servo.
Ahead(s) == IF cursor <= s THEN s - cursor ELSE s - cursor + NumServos

LEMMA AheadReaches ==
    ASSUME cursor \in Servos, NEW s \in Servos
    PROVE  Ahead(s) \in 0 .. NumServos - 1 /\ (cursor + Ahead(s)) % NumServos = s
<1>1. NumServos \in Nat \ {0} /\ cursor \in Nat /\ s \in Nat /\ cursor < NumServos /\ s < NumServos
  BY NumServosAssumption DEF Servos
<1>2. Ahead(s) \in 0 .. NumServos - 1 /\ Ahead(s) \in 0 .. NumServos
  BY <1>1 DEF Ahead
<1>3. (cursor + Ahead(s)) % NumServos
         = IF cursor + Ahead(s) < NumServos THEN cursor + Ahead(s)
           ELSE cursor + Ahead(s) - NumServos
  BY <1>2, Wraps
<1>4. QED
  BY <1>1, <1>2, <1>3 DEF Ahead

\* A budget of all the servos reads every one of them, wherever the cursor is.
LEMMA WholeBusRead ==
    ASSUME cursor \in Servos
    PROVE  Window(NumServos) = Servos
<1>1. Window(NumServos) \subseteq Servos
  BY NumServosAssumption, CursorInRange DEF Window, Servos
<1>2. ASSUME NEW s \in Servos
      PROVE  s \in Window(NumServos)
  BY AheadReaches DEF Window
<1>3. QED
  BY <1>1, <1>2

\* A servo that a poll leaves out is further behind the cursor by the budget.
LEMMA LeftBehind ==
    ASSUME cursor \in Servos, NEW n \in 0 .. NumServos, NEW s \in Servos \ Window(n),
           cursor' = (cursor + n) % NumServos
    PROVE  Passed(s)' = Passed(s) + n
<1>1. Ahead(s) >= n
  BY AheadReaches, NumServosAssumption DEF Window
<1>2. cursor' = IF cursor + n < NumServos THEN cursor + n ELSE cursor + n - NumServos
  BY Wraps
<1>3. QED
  BY <1>1, <1>2, NumServosAssumption DEF Ahead, Passed, Servos

\* The cursor is less than a round past any servo.
LEMMA LessThanARound ==
    ASSUME NEW c \in Servos, NEW s \in Servos
    PROVE  (IF s < c THEN c - 1 - s ELSE NumServos + c - 1 - s) \in 0 .. NumServos - 1
BY NumServosAssumption DEF Servos

LEMMA PassedRange ==
    /\ cursor \in Servos => \A s \in Servos : Passed(s) \in 0 .. NumServos - 1
    /\ cursor' \in Servos => \A s \in Servos : Passed(s)' \in 0 .. NumServos - 1
<1>1. ASSUME NEW s \in Servos, cursor \in Servos PROVE Passed(s) \in 0 .. NumServos - 1
  BY <1>1, LessThanARound DEF Passed
<1>2. ASSUME NEW s \in Servos, cursor' \in Servos PROVE Passed(s)' \in 0 .. NumServos - 1
  <2>1. Passed(s)' = IF s < cursor' THEN cursor' - 1 - s ELSE NumServos + cursor' - 1 - s
    BY DEF Passed
  <2>2. QED
    BY <1>2, <2>1, LessThanARound
<1>3. QED
  BY <1>1, <1>2

\* A budget is the stride, or the whole bus.
LEMMA BudgetRange == ReadBudgets \subseteq {Stride, NumServos} /\ Stride \in 1 .. NumServos
BY StrideAssumption DEF ReadBudgets

\* A round shorter than the strikes needs two of them at least.
LEMMA TwoStrikes == VoltageLimit \in Nat /\ VoltageLimit >= 2
<1>1. Stride \in Nat /\ Stride > 0 /\ NumServos \in Nat /\ NumServos > 0 /\ VoltageLimit \in Nat
        /\ VoltageLimit > 0
  BY NumServosAssumption, StrideAssumption, LimitsAssumption
<1>2. CASE VoltageLimit = 1
  <2>1. Stride * (VoltageLimit - 1) = 0
    BY <1>1, <1>2
  <2>2. QED
    BY <2>1, <1>1, RoundAssumption
<1>3. QED
  BY <1>1, <1>2

\* One more strike for one more stride.
LEMMA StrideMore ==
    ASSUME NEW k \in Int
    PROVE  Stride * (k - 1) \in Int /\ Stride * k \in Int /\ Stride * k = Stride * (k - 1) + Stride
BY StrideAssumption, NumServosAssumption

\* Strikes that fit in a round stay one short of the limit.
LEMMA RoundTooShort ==
    ASSUME NEW k \in Nat, NEW d \in 0 .. NumServos - 1, Stride * k <= d
    PROVE  k + 1 < VoltageLimit
<1>1. Stride \in Nat /\ Stride > 0 /\ NumServos \in Nat /\ VoltageLimit \in Nat
  BY NumServosAssumption, StrideAssumption, LimitsAssumption
<1>2. SUFFICES ASSUME k >= VoltageLimit - 1 PROVE FALSE
  BY <1>1
<1>3. Stride * (VoltageLimit - 1) <= Stride * k
  BY <1>1, <1>2
<1>4. QED
  BY <1>1, <1>3, RoundAssumption

(***************************************************************************)
(* The history variables only watch                                        *)
(***************************************************************************)
LEMMA HistoryStepIsAStep ==
    ASSUME [HistoryNext]_<<vars, historyVars>>
    PROVE  [Next]_vars
BY DEF HistoryNext, Next, Worker, PollStep, vars

(***************************************************************************)
(* The invariant                                                           *)
(***************************************************************************)
LEMMA HistoryInitInv == HistoryInit => TypeOK /\ HistoryInv
<1> SUFFICES ASSUME HistoryInit PROVE TypeOK /\ HistoryInv
  OBVIOUS
<1>1. TypeOK
  BY InitType DEF HistoryInit
<1>2. HistoryTypeOK
  BY TwoStrikes DEF HistoryInit, HistoryTypeOK
<1>3. FreshPoll
  BY DEF HistoryInit, Init, FreshPoll
<1>4. ASSUME NEW s \in Servos
      PROVE  SagCounted(s)
  <2>1. cache[s] = Offline /\ lowStrikes[s] = 0
    BY DEF HistoryInit, Init
  <2>2. QED
    BY <2>1 DEF SagCounted, Offline
<1>5. QED
  BY <1>1, <1>2, <1>3, <1>4 DEF HistoryInv

\* A step that leaves the telemetry, the reads and the strikes alone.
LEMMA QuietTick ==
    ASSUME HistoryInv, UNCHANGED <<answered, lowReads, cache, cursor, lowStrikes>>,
           SafetyChecked' => SafetyChecked,
           SafetyChecked' => (Unjudged' <=> Unjudged),
           pc' = "arm" /\ ~armed' => pc = "arm" /\ ~armed
    PROVE  HistoryInv'
<1>1. HistoryTypeOK'
  BY DEF HistoryInv, HistoryTypeOK
<1>2. FreshPoll'
  BY DEF HistoryInv, FreshPoll
<1>3. ASSUME NEW s \in Servos
      PROVE  SagCounted(s)'
  <2>1. SagCounted(s) /\ Passed(s)' = Passed(s)
    BY DEF HistoryInv, Passed
  <2>2. QED
    BY <2>1 DEF SagCounted
<1>4. QED
  BY <1>1, <1>2, <1>3 DEF HistoryInv

LEMMA ImuStepHistory ==
    ASSUME HistoryInv, ImuStep, UNCHANGED historyVars
    PROVE  HistoryInv'
BY QuietTick DEF ImuStep, PollImu, GoTo, motionVars, historyVars, SafetyChecked, Unjudged

LEMMA HandlersHistory ==
    ASSUME HistoryInv, Handlers, UNCHANGED historyVars
    PROVE  HistoryInv'
BY QuietTick DEF Handlers, MotionCommand, EnsureManualEnabled, QueueManualAction, workerVars,
                 motionVars, historyVars, SafetyChecked, Unjudged

\* What a poll makes of one servo's count.
LEMMA PollCounts ==
    ASSUME TypeOK, HistoryInv, NEW s \in Servos,
           NEW budget \in ReadBudgets, NEW got \in Answers(budget),
           PollServos(budget, FALSE, got), RecordPoll(Window(budget), got)
    PROVE  SagCounted(s)'
<1> USE DEF Offline
<1>1. cursor \in Servos /\ lowReads[s] \in 0 .. VoltageLimit /\ lowStrikes[s] \in Nat
  BY DEF TypeOK, WorkerTypeOK, MotionTypeOK, HistoryInv, HistoryTypeOK
<1>2. SagCounted(s) /\ pc = "poll" /\ pc' = "arm" /\ (SafetyChecked' <=> SafetyChecked)
        /\ lowStrikes' = lowStrikes
  BY DEF PollServos, HistoryInv, SafetyChecked
<1>3. ~Unjudged /\ Unjudged'
  BY <1>2 DEF Unjudged
<1>4. CASE s \notin Window(budget)
  <2>1. cache'[s] = cache[s] /\ lowReads'[s] = lowReads[s]
    BY <1>4 DEF PollServos, RecordPoll
  <2>2. budget \in 0 .. NumServos /\ budget >= Stride /\ Stride \in Nat
    BY BudgetRange, NumServosAssumption
  <2>3. Passed(s)' = Passed(s) + budget
    BY <1>1, <1>4, <2>2, LeftBehind DEF PollServos
  <2>4. Passed(s) \in Nat
    BY <1>1, PassedRange, NumServosAssumption
  <2>5. Stride * (lowStrikes[s] - 1) <= Passed(s) => Stride * lowStrikes[s] <= Passed(s)'
    BY <1>1, <2>2, <2>3, <2>4, StrideMore
  <2>6. QED
    BY <1>2, <1>3, <2>1, <2>5 DEF SagCounted
<1>5. CASE s \in Window(budget) /\ got[s] = Offline
  <2>1. cache'[s] = Offline /\ lowReads'[s] = lowReads[s]
    BY <1>5 DEF PollServos, RecordPoll
  <2>2. QED
    BY <1>2, <1>3, <2>1 DEF SagCounted
<1>6. CASE s \in Window(budget) /\ got[s] = "low"
  <2>1. cache'[s] = "low" /\ lowReads'[s] = AtMost(lowReads[s] + 1, VoltageLimit)
    BY <1>6 DEF PollServos, RecordPoll
  <2>2. lowReads'[s] >= 1 /\ (lowReads'[s] = 1 => lowReads[s] = 0)
    BY <1>1, <2>1, TwoStrikes DEF AtMost
  <2>3. cursor' \in Servos
    <3>1. cursor + budget \in Nat
      BY <1>1, BudgetRange, NumServosAssumption DEF Servos
    <3>2. QED
      BY <3>1, CursorInRange DEF PollServos
  <2>4. Passed(s)' >= 0
    BY <2>3, PassedRange, NumServosAssumption
  <2>5. Stride * 0 = 0
    BY BudgetRange
  <2>6. QED
    BY <1>2, <1>3, <2>1, <2>2, <2>4, <2>5 DEF SagCounted
<1>7. CASE s \in Window(budget) /\ got[s] \notin {Offline, "low"}
  <2>1. cache'[s] \notin {Offline, "low"} /\ lowReads'[s] = 0
    BY <1>7 DEF PollServos, RecordPoll
  <2>2. QED
    BY <1>2, <1>3, <2>1 DEF SagCounted
<1>8. QED
  BY <1>4, <1>5, <1>6, <1>7

\* Before motion is armed the whole bus is read.
LEMMA PollIsFresh ==
    ASSUME TypeOK, NEW budget \in ReadBudgets, NEW down \in BOOLEAN, NEW got \in Answers(budget),
           PollServos(budget, down, got), RecordPoll(Window(budget), got)
    PROVE  FreshPoll'
<1> SUFFICES ASSUME ~armed PROVE answered' = {s \in Servos : cache'[s] # Offline}
  BY DEF FreshPoll, PollServos
<1>1. budget = NumServos
  BY DEF ReadBudgets
<1>2. Window(budget) = Servos
  BY <1>1, WholeBusRead DEF TypeOK, WorkerTypeOK
<1>3. QED
  BY <1>2 DEF PollServos, RecordPoll

LEMMA PollHistory ==
    ASSUME TypeOK, HistoryInv, NEW budget \in ReadBudgets, NEW down \in BOOLEAN,
           NEW got \in Answers(budget),
           PollServos(budget, down, got), RecordPoll(Window(budget), got)
    PROVE  HistoryInv'
<1>1. HistoryTypeOK'
  <2>1. Window(budget) \subseteq Servos
    BY BudgetRange, NumServosAssumption, CursorInRange DEF Window, TypeOK, WorkerTypeOK, Servos
  <2>2. answered' \subseteq Servos
    BY <2>1 DEF RecordPoll
  <2>3. lowReads' \in [Servos -> 0 .. VoltageLimit]
    BY TwoStrikes DEF RecordPoll, AtMost, HistoryInv, HistoryTypeOK
  <2>4. QED
    BY <2>2, <2>3 DEF HistoryTypeOK
<1>2. FreshPoll'
  BY PollIsFresh
<1>3. ASSUME NEW s \in Servos
      PROVE  SagCounted(s)'
  <2>1. CASE ~down
    BY <2>1, PollCounts
  <2>2. CASE down
    <3>1. ~SafetyChecked'
      BY <2>2 DEF PollServos, TripFault, SafetyChecked, NoFault
    <3>2. cache'[s] = "low" => lowReads'[s] >= 1
      <4>1. CASE s \in Window(budget)
        BY <4>1, TwoStrikes DEF PollServos, RecordPoll, AtMost, HistoryInv, HistoryTypeOK, Offline
      <4>2. CASE s \notin Window(budget)
        BY <4>2 DEF PollServos, RecordPoll, HistoryInv, SagCounted
      <4>3. QED
        BY <4>1, <4>2
    <3>3. QED
      BY <3>1, <3>2 DEF SagCounted
  <2>3. QED
    BY <2>1, <2>2
<1>4. QED
  BY <1>1, <1>2, <1>3 DEF HistoryInv

\* What the safety check makes of the strikes it has judged.
LEMMA JudgedCounts ==
    ASSUME TypeOK, HistoryInv, PassSafety, UNCHANGED historyVars, NEW s \in Servos
    PROVE  SagCounted(s)'
<1> USE DEF Offline
<1>1. /\ pc = "safety" /\ pc' = "manual" /\ SafetyChecked
      /\ lowStrikes'[s] = LowStrikesNow(s)
      /\ cache'[s] = cache[s] /\ lowReads'[s] = lowReads[s] /\ cursor' = cursor
  BY DEF PassSafety, GoTo, historyVars
<1>2. SagCounted(s) /\ Unjudged /\ ~Unjudged' /\ Passed(s)' = Passed(s)
  BY <1>1 DEF HistoryInv, Unjudged, Passed
<1>3. lowStrikes[s] \in Nat
  BY DEF TypeOK, MotionTypeOK
<1>4. CASE cache[s] = Offline
  BY <1>1, <1>2, <1>4 DEF SagCounted, LowStrikesNow
<1>5. CASE cache[s] = "low"
  <2>1. lowStrikes'[s] = lowStrikes[s] + 1 /\ lowStrikes'[s] - 1 = lowStrikes[s]
    BY <1>1, <1>3, <1>5 DEF LowStrikesNow
  <2>2. lowReads[s] # 0
    BY <1>2, <1>5 DEF SagCounted
  <2>3. QED
    BY <1>1, <1>2, <1>5, <2>1, <2>2 DEF SagCounted
<1>6. CASE cache[s] \notin {Offline, "low"}
  BY <1>1, <1>2, <1>6 DEF SagCounted, LowStrikesNow
<1>7. QED
  BY <1>4, <1>5, <1>6

\* Where no fault is checked for any more, the strikes mean nothing.
LEMMA Unchecked ==
    ASSUME HistoryInv, UNCHANGED <<lowReads, cache>>, ~SafetyChecked', answered' \subseteq Servos,
           pc' # "arm"
    PROVE  HistoryInv'
BY DEF HistoryInv, HistoryTypeOK, FreshPoll, SagCounted

LEMMA OtherStepHistory ==
    ASSUME TypeOK, HistoryInv, OtherStep, UNCHANGED lowReads,
           answered' = IF pc = "mode" THEN {} ELSE answered
    PROVE  HistoryInv'
<1> USE DEF GoTo, motionVars, historyVars
<1>0. answered' \subseteq Servos
  BY DEF HistoryInv, HistoryTypeOK
<1>1. CASE KeepMode \/ SwitchMode
  <2>1. pc = "mode" /\ pc' = "imu" /\ UNCHANGED <<cache, cursor>>
    BY <1>1 DEF KeepMode, SwitchMode
  <2>2. HistoryTypeOK' /\ FreshPoll' /\ ~Unjudged /\ ~Unjudged'
    BY <1>0, <2>1 DEF HistoryInv, HistoryTypeOK, FreshPoll, Unjudged
  <2>3. ASSUME NEW s \in Servos
        PROVE  SagCounted(s)'
    <3>1. SagCounted(s) /\ Passed(s)' = Passed(s) /\ lowStrikes[s] \in Nat
      BY <2>1 DEF HistoryInv, Passed, TypeOK, MotionTypeOK
    <3>2. CASE KeepMode
      <4>1. UNCHANGED lowStrikes /\ (SafetyChecked' <=> SafetyChecked)
        BY <3>2 DEF KeepMode, SafetyChecked
      <4>2. QED
        BY <2>1, <2>2, <3>1, <4>1 DEF SagCounted
    <3>3. CASE SwitchMode
      <4>1. lowStrikes'[s] = 0
        BY <3>3 DEF SwitchMode, NewMotion
      <4>2. Stride * (0 - 1) <= Passed(s)
        BY PassedRange, BudgetRange, NumServosAssumption DEF TypeOK, WorkerTypeOK
      <4>3. QED
        BY <2>1, <2>2, <3>1, <4>1, <4>2 DEF SagCounted
    <3>4. QED
      BY <1>1, <3>2, <3>3
  <2>4. QED
    BY <2>2, <2>3 DEF HistoryInv
<1>2. CASE PassSafety
  <2>1. pc = "safety" /\ UNCHANGED historyVars
    BY <1>2 DEF PassSafety
  <2>2. \A s \in Servos : SagCounted(s)'
    BY <1>2, <2>1, JudgedCounts
  <2>3. HistoryTypeOK' /\ FreshPoll'
    BY <1>2, <2>1 DEF PassSafety, HistoryInv, HistoryTypeOK, FreshPoll
  <2>4. QED
    BY <2>2, <2>3 DEF HistoryInv
<1>3. CASE TripAttitude \/ TripServo \/ ManualUtilityFails \/ SendCommandFails
  <2>1. UNCHANGED <<lowReads, cache>> /\ pc' # "arm"
    BY <1>3 DEF TripAttitude, TripServo, ManualUtilityFails, SendCommandFails
  <2>2. fault' # NoFault
    BY <1>3 DEF TripAttitude, TripServo, ManualUtilityFails, SendCommandFails, TripFault, NoFault
  <2>3. QED
    BY <1>0, <2>1, <2>2, Unchecked DEF SafetyChecked
<1>4. CASE SkipSafety
  <2>1. ~SafetyChecked' /\ UNCHANGED <<lowReads, cache>> /\ pc' # "arm"
    BY <1>4 DEF SkipSafety, SafetyChecked
  <2>2. QED
    BY <1>0, <2>1, Unchecked
<1>5. CASE NotArming \/ ArmMotion \/ ArmMotionFails
  <2>1. /\ pc = "arm" /\ pc' = "safety"
        /\ UNCHANGED <<answered, lowReads, cache, cursor, lowStrikes, fault, mode>>
    BY <1>5 DEF NotArming, ArmMotion, ArmMotionFails, Disarm
  <2>2. QED
    BY <2>1, QuietTick DEF SafetyChecked, Unjudged
<1>6. CASE BusAlreadyOpen \/ OpenBus \/ OpenBusFails \/ TorqueNotNeeded \/ EnableTorque
           \/ EnableTorqueFails
  <2>1. /\ pc \in {"bus", "torque"} /\ pc' \in {"torque", "poll", "mode"}
        /\ UNCHANGED <<answered, lowReads, cache, cursor, lowStrikes, fault, mode>>
    BY <1>6 DEF BusAlreadyOpen, OpenBus, OpenBusFails, TorqueNotNeeded, EnableTorque,
                EnableTorqueFails, Disarm
  <2>2. QED
    BY <2>1, QuietTick DEF SafetyChecked, Unjudged
<1>7. CASE NoUtility \/ ManualUtility \/ NoCommand \/ SendCommand
  <2>1. /\ pc \in {"manual", "command"} /\ pc' \in {"command", "mode"}
        /\ UNCHANGED <<answered, lowReads, cache, cursor, lowStrikes, fault, mode>>
    BY <1>7 DEF NoUtility, ManualUtility, NoCommand, SendCommand
  <2>2. QED
    BY <2>1, QuietTick DEF SafetyChecked, Unjudged
<1>8. QED
  BY <1>1, <1>2, <1>3, <1>4, <1>5, <1>6, <1>7 DEF OtherStep

LEMMA HistoryNextInv ==
    ASSUME TypeOK, HistoryInv, [HistoryNext]_<<vars, historyVars>>
    PROVE  HistoryInv'
<1>1. CASE ImuStep /\ UNCHANGED historyVars
  BY <1>1, ImuStepHistory
<1>2. CASE \E budget \in ReadBudgets, down \in BOOLEAN :
             \E got \in Answers(budget) :
               PollServos(budget, down, got) /\ RecordPoll(Window(budget), got)
  BY <1>2, PollHistory
<1>3. CASE /\ OtherStep
           /\ answered' = IF pc = "mode" THEN {} ELSE answered
           /\ UNCHANGED lowReads
  BY <1>3, OtherStepHistory
<1>4. CASE Handlers /\ UNCHANGED historyVars
  BY <1>4, HandlersHistory
<1>5. CASE UNCHANGED <<vars, historyVars>>
  BY <1>5, QuietTick DEF vars, motionVars, historyVars, SafetyChecked, Unjudged
<1>6. QED
  BY <1>1, <1>2, <1>3, <1>4, <1>5 DEF HistoryNext

\* The counts of reads and strikes keep the invariant, and the worker its type.
THEOREM HistoryInvariant == HistorySpec => [](TypeOK /\ HistoryInv)
<1>1. HistoryInit => TypeOK /\ HistoryInv
  BY HistoryInitInv
<1>2. TypeOK /\ HistoryInv /\ [HistoryNext]_<<vars, historyVars>> => (TypeOK /\ HistoryInv)'
  BY HistoryStepIsAStep, StepType, HistoryNextInv
<1>3. QED
  BY <1>1, <1>2, PTL DEF HistorySpec

\* Motion is armed at a pose that was read from every servo in the same tick.
THEOREM ArmsFromFreshPose == HistorySpec => ArmFromFreshPose
<1>1. ASSUME TypeOK, HistoryInv, [HistoryNext]_<<vars, historyVars>>, ~armed, armed'
      PROVE  answered = Servos
  <2>1. OtherStep
    BY <1>1 DEF HistoryNext, ImuStep, PollImu, PollServos, Handlers, MotionCommand,
                EnsureManualEnabled, QueueManualAction, workerVars, motionVars, vars
  <2>2. ArmMotion
    <3>1. ~(KeepMode \/ SwitchMode \/ BusAlreadyOpen \/ OpenBus \/ OpenBusFails
            \/ TorqueNotNeeded \/ EnableTorque \/ EnableTorqueFails)
      BY <1>1 DEF KeepMode, SwitchMode, BusAlreadyOpen, OpenBus, OpenBusFails, TorqueNotNeeded,
                  EnableTorque, EnableTorqueFails, NewMotion, Disarm, motionVars
    <3>2. ~(NotArming \/ ArmMotionFails \/ SkipSafety \/ TripAttitude \/ TripServo \/ PassSafety)
      BY <1>1 DEF NotArming, ArmMotionFails, SkipSafety, TripAttitude, TripServo, PassSafety, Disarm,
                  motionVars
    <3>3. ~(NoUtility \/ ManualUtility \/ ManualUtilityFails \/ NoCommand \/ SendCommand
            \/ SendCommandFails)
      BY <1>1 DEF NoUtility, ManualUtility, ManualUtilityFails, NoCommand, SendCommand,
                  SendCommandFails, motionVars
    <3>4. QED
      BY <2>1, <3>1, <3>2, <3>3 DEF OtherStep
  <2>3. QED
    BY <1>1, <2>2 DEF ArmMotion, GoTo, MayArm, Complete, HistoryInv, FreshPoll
<1>2. TypeOK /\ HistoryInv /\ [HistoryNext]_<<vars, historyVars>>
        => [~armed /\ armed' => answered = Servos]_<<vars, historyVars>>
  BY <1>1
<1>3. QED
  BY <1>2, HistoryInvariant, PTL DEF HistorySpec, ArmFromFreshPose

\* A voltage fault needs a second sagging sample: the strikes of one are too few.
THEOREM OneSagTripsNothing == HistorySpec => OneSagDoesNotTrip
<1>1. ASSUME TypeOK, HistoryInv, [HistoryNext]_<<vars, historyVars>>,
             fault' = "voltage", fault = NoFault
      PROVE  \E s \in Servos : lowReads[s] > 1
  <2>1. OtherStep
    BY <1>1 DEF HistoryNext, ImuStep, PollImu, PollServos, TripFault, Handlers, MotionCommand,
                EnsureManualEnabled, QueueManualAction, workerVars, motionVars, vars, NoFault
  <2>2. TripServo
    <3>1. ~(KeepMode \/ SwitchMode \/ BusAlreadyOpen \/ OpenBus \/ OpenBusFails
            \/ TorqueNotNeeded \/ EnableTorque \/ EnableTorqueFails)
      BY <1>1 DEF KeepMode, SwitchMode, BusAlreadyOpen, OpenBus, OpenBusFails, TorqueNotNeeded,
                  EnableTorque, EnableTorqueFails, NewMotion, Disarm, motionVars, NoFault
    <3>2. ~(NotArming \/ ArmMotion \/ ArmMotionFails \/ SkipSafety \/ TripAttitude \/ PassSafety)
      BY <1>1 DEF NotArming, ArmMotion, ArmMotionFails, SkipSafety, TripAttitude, PassSafety, Disarm,
                  TripFault, motionVars, NoFault
    <3>3. ~(NoUtility \/ ManualUtility \/ ManualUtilityFails \/ NoCommand \/ SendCommand
            \/ SendCommandFails)
      BY <1>1 DEF NoUtility, ManualUtility, ManualUtilityFails, NoCommand, SendCommand,
                  SendCommandFails, TripFault, motionVars, NoFault
    <3>4. QED
      BY <2>1, <3>1, <3>2, <3>3 DEF OtherStep
  <2>3. PICK s \in Servos : cache[s] = "low" /\ ServoTrips(s)
    BY <1>1, <2>2 DEF TripServo, TripFault, NoFault
  <2>4. LowStrikesNow(s) >= VoltageLimit /\ LowStrikesNow(s) = lowStrikes[s] + 1
    BY <2>3 DEF ServoTrips, LowStrikesNow, Offline
  <2>5. SafetyChecked /\ Unjudged /\ SagCounted(s)
    BY <1>1, <2>2 DEF TripServo, GoTo, Unjudged, HistoryInv
  <2>6. cursor \in Servos /\ lowStrikes[s] \in Nat /\ lowReads[s] \in Nat
    BY <1>1, TwoStrikes DEF TypeOK, WorkerTypeOK, MotionTypeOK, HistoryInv, HistoryTypeOK
  <2>7. lowReads[s] # 1
    <3>1. SUFFICES ASSUME lowReads[s] = 1 PROVE FALSE
      OBVIOUS
    <3>2. Stride * lowStrikes[s] <= Passed(s)
      BY <2>3, <2>5, <3>1 DEF SagCounted
    <3>3. lowStrikes[s] + 1 < VoltageLimit
      BY <2>6, <3>2, PassedRange, RoundTooShort
    <3>4. QED
      BY <2>4, <2>6, <3>3, TwoStrikes
  <2>8. QED
    BY <2>3, <2>5, <2>6, <2>7 DEF SagCounted
<1>2. TypeOK /\ HistoryInv /\ [HistoryNext]_<<vars, historyVars>>
        => [fault' = "voltage" /\ fault = NoFault
              => \E s \in Servos : lowReads[s] > 1]_<<vars, historyVars>>
  BY <1>1
<1>3. QED
  BY <1>2, HistoryInvariant, PTL DEF HistorySpec, OneSagDoesNotTrip

================================================================================
