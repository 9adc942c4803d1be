------------------------------ MODULE DevicesProofs ------------------------------
(***************************************************************************)
(* Theorems about the programs and the firmware at the serial lines, for   *)
(* any number of servos, entries, attempts, sweeps and frames.             *)
(***************************************************************************)
EXTENDS Devices, EepromApplyProofs, ScansProofs, ImuLinkProofs, SequenceTheorems

(***************************************************************************)
(* The driver of the servo bus: an exchange                                *)
(***************************************************************************)
\* The replies under way stay replies, and what is true of each of them and of a new
\* one is true of those that are left.
LEMMA BusUnder ==
    ASSUME NEW way, way \subseteq Bus!Reply, Bus!Under(way)
    PROVE  line' \subseteq way /\ line' \subseteq Bus!Reply
BY DEF Bus!Under

LEMMA BusReply ==
    ASSUME Bus!TypeOK,
           NEW k \in Bus!Kinds, NEW v \in BusLimits \cup BusPlaces \cup {0},
           NEW got \in BOOLEAN
    PROVE  /\ [servo |-> drained, kind |-> k, value |-> v] \in Bus!Reply
           /\ Bus!Replies(got, [servo |-> drained, kind |-> k, value |-> v]) \subseteq Bus!Reply
           /\ Bus!Replies(got, [servo |-> drained, kind |-> k, value |-> v])
                \subseteq line \cup {[servo |-> drained, kind |-> k, value |-> v]}
BY DEF Bus!TypeOK, Bus!Reply, Bus!Replies

LEMMA BusAccept ==
    ASSUME Bus!TypeOK, NEW got \in BOOLEAN, NEW accepted,
           NEW reply \in Bus!Reply, Bus!Accept(got, reply, accepted)
    PROVE  /\ accepted \in line \cup {reply}
           /\ accepted \in Bus!Reply
           /\ accepted.servo = reply.servo /\ accepted.kind = reply.kind
           /\ line' \subseteq line \cup {reply} /\ line' \subseteq Bus!Reply
           /\ error' \in BOOLEAN
           /\ ~error' => got /\ accepted = reply /\ ~error
BY DEF Bus!Accept, Bus!Under, Bus!Replies, Bus!TypeOK

LEMMA BusTimeout ==
    ASSUME Bus!TypeOK, NEW got \in BOOLEAN, NEW reply \in Bus!Reply,
           Bus!Timeout(got, reply)
    PROVE  /\ line' \subseteq line \cup {reply} /\ line' \subseteq Bus!Reply
           /\ error' = error
BY DEF Bus!Timeout, Bus!Under, Bus!Replies, Bus!TypeOK

LEMMA BusProceeds ==
    ASSUME Bus!TypeOK, NEW first \in {"switch", "pose"}, Bus!Proceeds(first)
    PROVE  /\ drained' \in Bus!Servos
           /\ strikes' \in 1 .. Attempts /\ since' \in 1 .. Readbacks
           /\ \/ step' = "ok" /\ drained' = drained
              \/ step' = first /\ drained' = drained + 1
           /\ step' = "ok" => \A s \in Bus!Servos : s <= drained
BY BusAssumption
   DEF Bus!Proceeds, Bus!Last, Bus!Following, Bus!Servos, Bus!TypeOK, Bus!counters

LEMMA BusRetry ==
    ASSUME Bus!TypeOK, Bus!Retry
    PROVE  /\ drained' = drained
           /\ strikes' \in 1 .. Attempts /\ since' \in 1 .. Readbacks
           /\ step' \in {"write", "failed"}
BY BusAssumption DEF Bus!Retry, Bus!Fails, Bus!counters, Bus!TypeOK

(***************************************************************************)
(* The driver of the servo bus: the calls                                  *)
(***************************************************************************)
LEMMA BusBegins ==
    ASSUME Bus!BusInv,
           \/ \E on \in BOOLEAN : Bus!BeginTorque(on)
           \/ \E value \in BusLimits : Bus!BeginLimit(value)
    PROVE  Bus!BusInv'
<1>1. /\ step' \in {"switch", "pose"} /\ drained' = 1
      /\ kind' = IF step' = "pose" THEN "limit" ELSE kind'
      /\ step' = "switch" => kind' \in {"enable", "disable"}
      /\ strikes' = 1 /\ since' = 1 /\ error' = FALSE /\ alive' = FALSE
      /\ UNCHANGED <<device, stream, until, saw, latest, taken>>
      /\ bridge' \in BusLimits
      /\ line' = line \/ line' = {}
      /\ kind' = "limit" => line' = {}
  BY DEF Bus!BeginTorque, Bus!BeginLimit, Bus!Begin, Bus!First, Bus!registers,
         Bus!BusInv, Bus!TypeOK
<1>2. Bus!TypeOK'
  <2>1. 1 \in Bus!Servos /\ 1 \in 1 .. Attempts /\ 1 \in 1 .. Readbacks
    BY BusAssumption DEF Bus!Servos
  <2>2. line' \subseteq Bus!Reply
    BY <1>1 DEF Bus!BusInv, Bus!TypeOK
  <2>3. kind' \in Bus!Calls /\ step' \in Bus!Steps
    BY <1>1 DEF Bus!Calls, Bus!Steps
  <2> QED
    BY <1>1, <2>1, <2>2, <2>3 DEF Bus!BusInv, Bus!TypeOK
<1>3. Bus!StepOfCall'
  BY <1>1 DEF Bus!StepOfCall
<1>4. Bus!LateFeedback' /\ Bus!LateWord'
  BY <1>1 DEF Bus!BusInv, Bus!LateFeedback, Bus!LateWord
<1>5. Bus!LimitBehind' /\ Bus!TorqueBehind' /\ Bus!SyncedHere'
  BY <1>1 DEF Bus!LimitBehind, Bus!TorqueBehind, Bus!SyncedHere, Bus!Behind, Bus!Servos
<1> QED
  BY <1>2, <1>3, <1>4, <1>5 DEF Bus!BusInv

LEMMA BusSwitches ==
    ASSUME Bus!BusInv, NEW hit \in BOOLEAN, Bus!Switch(hit)
    PROVE  Bus!BusInv'
<1> DEFINE reply == [servo |-> drained, kind |-> "ack", value |-> 0]
<1> USE DEF Bus!BusInv
<1>1. reply \in Bus!Reply /\ reply.kind = "ack"
  BY BusReply DEF Bus!Kinds
<1>2. /\ step = "switch" /\ kind \in {"enable", "disable"}
      /\ device' = IF hit THEN [device EXCEPT ![drained] = (kind = "enable")] ELSE device
      /\ UNCHANGED <<stream, until, saw, latest, kind, bridge, taken, alive>>
  BY DEF Bus!Switch, Bus!StepOfCall
<1>3. \/ \E accepted \in line \cup {reply} :
            Bus!Accept(hit, reply, accepted) /\ Bus!Proceeds("switch")
      \/ Bus!Unconfirmed(hit, reply) /\ Bus!Proceeds("switch")
      \/ Bus!Timeout(hit, reply) /\ Bus!Fails
  BY DEF Bus!Switch
<1>4. /\ line' \subseteq line \cup {reply} /\ line' \subseteq Bus!Reply
      /\ error' \in BOOLEAN
      /\ ~error' => ~error
      /\ step' = "failed" \/ (saw /\ ~error' => hit)
  BY <1>1, <1>3, BusAccept, BusTimeout DEF Bus!Unconfirmed, Bus!Fails, Bus!TypeOK
<1>5. /\ drained' \in Bus!Servos
      /\ strikes' \in 1 .. Attempts /\ since' \in 1 .. Readbacks
      /\ \/ step' = "ok" /\ drained' = drained
         \/ step' = "switch" /\ drained' = drained + 1
         \/ step' = "failed" /\ drained' = drained
      /\ step' = "ok" => \A s \in Bus!Servos : s <= drained
  BY <1>3, BusProceeds DEF Bus!Fails, Bus!counters, Bus!TypeOK
<1>6. Bus!TypeOK'
  BY <1>2, <1>4, <1>5 DEF Bus!TypeOK, Bus!Steps, Bus!Calls
<1>7. Bus!StepOfCall'
  BY <1>2, <1>5 DEF Bus!StepOfCall
<1>8. Bus!LateFeedback'
  BY <1>1, <1>2, <1>4 DEF Bus!LateFeedback
<1>9. Bus!TorqueBehind'
  <2> SUFFICES ASSUME saw, ~error', NEW s \in Bus!Behind'
               PROVE  device'[s] = (kind = "enable")
    BY <1>2 DEF Bus!TorqueBehind
  <2>1. CASE s = drained /\ step' # "failed"
    BY <1>2, <1>4, <2>1 DEF Bus!TypeOK
  <2>2. CASE ~(s = drained /\ step' # "failed")
    <3>1. s \in Bus!Behind /\ (hit => s # drained)
      BY <1>5, <2>2 DEF Bus!Behind, Bus!TypeOK, Bus!Servos
    <3>2. device'[s] = device[s]
      BY <1>2, <3>1 DEF Bus!TypeOK
    <3> QED
      BY <1>2, <1>4, <3>1, <3>2 DEF Bus!TorqueBehind
  <2> QED
    BY <2>1, <2>2
<1> QED
  BY <1>2, <1>5, <1>6, <1>7, <1>8, <1>9 DEF Bus!LateWord, Bus!LimitBehind, Bus!SyncedHere

\* What the exchanges of a limit call have in common: no other limit is set, so the
\* words under way stay true.
LEMMA BusLimitCall ==
    ASSUME Bus!BusInv, kind = "limit", step # "ok",
           NEW reply \in Bus!Reply,
           reply.kind = "telemetry" => reply.value \in BusPlaces,
           reply.kind = "word" /\ reply.value = bridge => stream'[reply.servo] = bridge,
           line' \subseteq line \cup {reply},
           UNCHANGED <<kind, bridge>>,
           \A s \in Bus!Servos : stream'[s] = stream[s] \/ stream'[s] = bridge,
           step' # "idle", step' # "switch",
           drained' = drained \/ (drained' = drained + 1 /\ stream'[drained] = bridge),
           step' = "ok" => \A s \in Bus!Servos : s <= drained /\ stream'[drained] = bridge
    PROVE  /\ Bus!StepOfCall' /\ Bus!LateFeedback' /\ Bus!LateWord'
           /\ Bus!LimitBehind' /\ Bus!TorqueBehind'
<1> USE DEF Bus!BusInv
<1>1. \A s \in Bus!Servos : stream[s] = bridge => stream'[s] = bridge
  OBVIOUS
<1>2. Bus!LateFeedback'
  BY DEF Bus!LateFeedback
<1>3. Bus!LateWord'
  BY <1>1 DEF Bus!LateWord, Bus!TypeOK, Bus!Reply
<1>4. Bus!LimitBehind'
  BY <1>1 DEF Bus!LimitBehind, Bus!Behind, Bus!TypeOK, Bus!Servos
<1> QED
  BY <1>2, <1>3, <1>4 DEF Bus!StepOfCall, Bus!TorqueBehind

LEMMA BusSyncs ==
    ASSUME Bus!BusInv, NEW hit \in BOOLEAN, NEW hears \in BOOLEAN, Bus!SyncPose(hit, hears)
    PROVE  Bus!BusInv'
<1> DEFINE reply == [servo |-> drained, kind |-> "telemetry", value |-> latest[drained]]
<1> USE DEF Bus!BusInv
<1>1. reply \in Bus!Reply /\ reply.kind = "telemetry" /\ reply.value \in BusPlaces
      /\ reply.value = latest[drained]
  BY BusReply DEF Bus!Kinds, Bus!TypeOK
<1>2. /\ step = "pose" /\ kind = "limit"
      /\ UNCHANGED <<device, stream, saw, latest, kind, bridge>>
      /\ \/ /\ \E accepted \in line \cup {reply} :
                  /\ Bus!Accept(hit, reply, accepted)
                  /\ taken' = accepted.value
                  /\ until' = IF hears THEN [until EXCEPT ![drained] = accepted.value]
                                       ELSE until
            /\ alive' = hears /\ step' = "write"
            /\ UNCHANGED <<drained, strikes, since>>
         \/ /\ Bus!Timeout(hit, reply)
            /\ step' = "failed"
            /\ UNCHANGED <<drained, strikes, since, until, taken, alive>>
  BY DEF Bus!SyncPose, Bus!Fails, Bus!counters, Bus!StepOfCall
<1>3. /\ line' \subseteq line \cup {reply} /\ line' \subseteq Bus!Reply
      /\ error' \in BOOLEAN
      /\ taken' \in BusPlaces /\ until' \in [Bus!Servos -> BusPlaces]
      /\ step' = "write" /\ alive' /\ ~error' => until'[drained] = latest[drained]
  <2>1. ASSUME NEW accepted \in line \cup {reply}, Bus!Accept(hit, reply, accepted)
        PROVE  /\ accepted.value \in BusPlaces
               /\ ~error' => accepted.value = latest[drained]
               /\ line' \subseteq line \cup {reply} /\ line' \subseteq Bus!Reply
               /\ error' \in BOOLEAN
    BY <1>1, <2>1, BusAccept DEF Bus!LateFeedback
  <2>2. CASE step' = "write"
    BY <1>2, <2>1, <2>2 DEF Bus!TypeOK
  <2>3. CASE step' = "failed"
    BY <1>1, <1>2, <2>3, BusTimeout DEF Bus!TypeOK
  <2> QED
    BY <1>2, <2>2, <2>3
<1>4. Bus!TypeOK'
  BY <1>2, <1>3 DEF Bus!TypeOK, Bus!Steps
<1>5. /\ Bus!StepOfCall' /\ Bus!LateFeedback' /\ Bus!LateWord'
      /\ Bus!LimitBehind' /\ Bus!TorqueBehind'
  BY <1>1, <1>2, <1>3, BusLimitCall
<1>6. Bus!SyncedHere'
  BY <1>2, <1>3 DEF Bus!SyncedHere
<1> QED
  BY <1>4, <1>5, <1>6

LEMMA BusWrites ==
    ASSUME Bus!BusInv, NEW hit \in BOOLEAN, Bus!WriteLimit(hit)
    PROVE  Bus!BusInv'
<1> DEFINE reply == [servo |-> drained, kind |-> "ack", value |-> 0]
<1> USE DEF Bus!BusInv
<1>1. reply \in Bus!Reply /\ reply.kind = "ack"
  BY BusReply DEF Bus!Kinds
<1>2. /\ step = "write" /\ kind = "limit"
      /\ stream' = IF hit THEN [stream EXCEPT ![drained] = bridge] ELSE stream
      /\ UNCHANGED <<device, until, saw, latest, kind, bridge, taken, alive>>
  BY DEF Bus!WriteLimit, Bus!StepOfCall
<1>3. \/ \E accepted \in line \cup {reply} :
            /\ Bus!Accept(hit, reply, accepted)
            /\ step' = "verify"
            /\ UNCHANGED <<drained, strikes, since>>
      \/ /\ Bus!Timeout(hit, reply) /\ step' = "verify"
         /\ UNCHANGED <<drained, strikes, since>>
      \/ Bus!Timeout(hit, reply) /\ Bus!Retry
  BY DEF Bus!WriteLimit, Bus!Unconfirmed, Bus!counters
<1>4. /\ line' \subseteq line \cup {reply} /\ line' \subseteq Bus!Reply
      /\ error' \in BOOLEAN
  BY <1>1, <1>3, BusAccept, BusTimeout DEF Bus!TypeOK
<1>trusted. ~error' => ~error
  BY <1>1, <1>3, BusAccept, BusTimeout DEF Bus!TypeOK
<1>5. /\ drained' = drained /\ step' \in {"verify", "write", "failed"}
      /\ strikes' \in 1 .. Attempts /\ since' \in 1 .. Readbacks
  BY <1>3, BusRetry DEF Bus!TypeOK
<1>6. Bus!TypeOK'
  <2>1. stream' \in [Bus!Servos -> BusLimits]
    BY <1>2 DEF Bus!TypeOK
  <2>2. step' \in Bus!Steps
    BY <1>5 DEF Bus!Steps
  <2> QED
    BY <1>2, <1>4, <1>5, <2>1, <2>2 DEF Bus!TypeOK
<1>7. \A s \in Bus!Servos : stream'[s] = stream[s] \/ stream'[s] = bridge
  BY <1>2 DEF Bus!TypeOK
<1>8. /\ Bus!StepOfCall' /\ Bus!LateFeedback' /\ Bus!LateWord'
      /\ Bus!LimitBehind' /\ Bus!TorqueBehind'
  BY <1>1, <1>2, <1>4, <1>5, <1>7, BusLimitCall
<1>9. Bus!SyncedHere'
  <2> SUFFICES ASSUME alive', ~error' PROVE until'[drained'] = latest'[drained']
    BY DEF Bus!SyncedHere
  <2> QED
    BY <1>2, <1>trusted, <1>5 DEF Bus!SyncedHere
<1> QED
  BY <1>6, <1>8, <1>9

\* What is compared with the wanted limit is a word of this servo: the limit is there.
LEMMA BusVerifies ==
    ASSUME Bus!BusInv, NEW hit \in BOOLEAN, Bus!VerifyLimit(hit)
    PROVE  Bus!BusInv'
<1> DEFINE reply == [servo |-> drained, kind |-> "word", value |-> stream[drained]]
<1> USE DEF Bus!BusInv
<1>1. reply \in Bus!Reply /\ reply.kind = "word" /\ reply.servo = drained
      /\ reply.value = stream[drained]
  BY BusReply DEF Bus!Kinds, Bus!TypeOK
<1>2. /\ step = "verify" /\ kind = "limit"
      /\ UNCHANGED <<device, stream, until, saw, latest, kind, bridge, taken, alive>>
  BY DEF Bus!VerifyLimit, Bus!StepOfCall, Bus!registers
<1>3. \/ \E accepted \in line \cup {reply} :
            /\ Bus!Accept(hit, reply, accepted)
            /\ IF accepted.value = bridge THEN Bus!Proceeds("pose") ELSE Bus!Retry
      \/ /\ Bus!Timeout(hit, reply) /\ step' = "probe"
         /\ UNCHANGED <<drained, strikes, since>>
  BY DEF Bus!VerifyLimit, Bus!counters
<1>4. /\ line' \subseteq line \cup {reply} /\ line' \subseteq Bus!Reply
      /\ error' \in BOOLEAN
  BY <1>1, <1>3, BusAccept, BusTimeout DEF Bus!TypeOK
<1>trusted. ~error' => ~error
  BY <1>1, <1>3, BusAccept, BusTimeout DEF Bus!TypeOK
<1>5. \/ Bus!Proceeds("pose") /\ stream[drained] = bridge
      \/ Bus!Retry
      \/ step' = "probe" /\ UNCHANGED <<drained, strikes, since>>
  <2>1. ASSUME NEW accepted \in line \cup {reply}, Bus!Accept(hit, reply, accepted),
               accepted.value = bridge
        PROVE  stream[drained] = bridge
    BY <1>1, <1>2, <2>1, BusAccept DEF Bus!LateWord
  <2> QED
    BY <1>3, <2>1
<1>6. /\ drained' \in Bus!Servos
      /\ strikes' \in 1 .. Attempts /\ since' \in 1 .. Readbacks
      /\ step' \in {"probe", "write", "failed", "pose", "ok"}
      /\ step' \in {"probe", "write"} => drained' = drained
      /\ drained' = drained \/ (drained' = drained + 1 /\ stream[drained] = bridge)
      /\ step' = "ok" => \A s \in Bus!Servos : s <= drained /\ stream[drained] = bridge
  <2>1. CASE Bus!Proceeds("pose") /\ stream[drained] = bridge
    BY <2>1, BusProceeds
  <2>2. CASE Bus!Retry
    BY <2>2, BusRetry DEF Bus!TypeOK
  <2>3. CASE step' = "probe" /\ UNCHANGED <<drained, strikes, since>>
    BY <2>3 DEF Bus!TypeOK
  <2> QED
    BY <1>5, <2>1, <2>2, <2>3
<1>7. Bus!TypeOK'
  <2>1. step' \in Bus!Steps
    BY <1>6 DEF Bus!Steps
  <2> QED
    BY <1>2, <1>4, <1>6, <2>1 DEF Bus!TypeOK
<1>8. /\ Bus!StepOfCall' /\ Bus!LateFeedback' /\ Bus!LateWord'
      /\ Bus!LimitBehind' /\ Bus!TorqueBehind'
  BY <1>1, <1>2, <1>4, <1>6, BusLimitCall
<1>9. Bus!SyncedHere'
  <2> SUFFICES ASSUME step' \in {"write", "verify", "probe"}, alive', ~error'
               PROVE  until'[drained'] = latest'[drained']
    BY DEF Bus!SyncedHere
  <2> QED
    BY <1>2, <1>trusted, <1>6 DEF Bus!SyncedHere
<1> QED
  BY <1>7, <1>8, <1>9

LEMMA BusProbes ==
    ASSUME Bus!BusInv, NEW hit \in BOOLEAN, Bus!Probe(hit)
    PROVE  Bus!BusInv'
<1> DEFINE reply == [servo |-> drained, kind |-> "telemetry", value |-> latest[drained]]
<1> USE DEF Bus!BusInv
<1>1. reply \in Bus!Reply /\ reply.kind = "telemetry" /\ reply.value \in BusPlaces
  BY BusReply DEF Bus!Kinds, Bus!TypeOK
<1>2. /\ step = "probe" /\ kind = "limit"
      /\ Bus!Timeout(hit, reply)
      /\ UNCHANGED <<device, stream, until, saw, latest, kind, bridge, taken, alive>>
  BY DEF Bus!Probe, Bus!Timeout, Bus!StepOfCall, Bus!registers
<1>3. /\ line' \subseteq line \cup {reply} /\ line' \subseteq Bus!Reply
      /\ error' = error
  BY <1>1, <1>2, BusTimeout
<1>4. /\ drained' = drained /\ step' \in {"verify", "write", "failed"}
      /\ strikes' \in 1 .. Attempts /\ since' \in 1 .. Readbacks
  <2>1. CASE since < Readbacks
    BY <2>1, BusAssumption DEF Bus!Probe, Bus!TypeOK
  <2>2. CASE ~(since < Readbacks)
    BY <2>2, BusRetry DEF Bus!Probe
  <2> QED
    BY <2>1, <2>2
<1>5. Bus!TypeOK'
  BY <1>2, <1>3, <1>4 DEF Bus!TypeOK, Bus!Steps
<1>6. /\ Bus!StepOfCall' /\ Bus!LateFeedback' /\ Bus!LateWord'
      /\ Bus!LimitBehind' /\ Bus!TorqueBehind'
  BY <1>1, <1>2, <1>3, <1>4, BusLimitCall
<1>7. Bus!SyncedHere'
  BY <1>2, <1>3, <1>4 DEF Bus!SyncedHere
<1> QED
  BY <1>5, <1>6, <1>7

LEMMA BusStep ==
    ASSUME Bus!BusInv, [Bus!Next]_(Bus!vars)
    PROVE  Bus!BusInv'
<1> USE DEF Bus!BusInv
<1>1. ASSUME Bus!Return \/ \E s \in Bus!Servos : \/ \E to \in BusPlaces : Bus!Move(s, to)
                                               \/ \E value \in BusLimits : Bus!PowerCycle(s, value)
      PROVE  Bus!BusInv'
  <2>1. Bus!TypeOK'
    BY <1>1 DEF Bus!TypeOK, Bus!Return, Bus!Move, Bus!PowerCycle, Bus!registers,
                Bus!counters, Bus!Calls, Bus!Steps
  <2>2. /\ kind' = "none" /\ step' = "idle" /\ line' = line
    BY <1>1 DEF Bus!Return, Bus!Move, Bus!PowerCycle, Bus!StepOfCall
  <2> QED
    BY <2>1, <2>2 DEF Bus!StepOfCall, Bus!LateFeedback, Bus!LateWord, Bus!LimitBehind,
                      Bus!TorqueBehind, Bus!SyncedHere
<1>2. CASE UNCHANGED Bus!vars
  BY <1>2 DEF Bus!vars, Bus!registers, Bus!counters, Bus!TypeOK, Bus!StepOfCall,
              Bus!LateFeedback, Bus!LateWord, Bus!LimitBehind, Bus!TorqueBehind, Bus!Behind,
              Bus!SyncedHere
<1> QED
  BY <1>1, <1>2, BusBegins, BusSwitches, BusSyncs, BusWrites, BusVerifies, BusProbes
     DEF Bus!Next

LEMMA BusStart == Bus!Init => Bus!BusInv
<1>1. 1 \in Bus!Servos /\ 1 \in 1 .. Attempts /\ 1 \in 1 .. Readbacks
  BY BusAssumption DEF Bus!Servos
<1>2. Bus!Init => Bus!TypeOK
  BY <1>1 DEF Bus!Init, Bus!TypeOK, Bus!Calls, Bus!Steps, Bus!First
<1> QED
  BY <1>2 DEF Bus!Init, Bus!BusInv, Bus!StepOfCall, Bus!LateFeedback, Bus!LateWord,
              Bus!LimitBehind, Bus!TorqueBehind, Bus!SyncedHere

\* A limit is only written by a step that has seen the goal where the servo is.
LEMMA BusRaises == ASSUME Bus!BusInv, [Bus!Next]_(Bus!vars) PROVE Bus!RaisedOnPlace
<1>1. ASSUME stream' # stream, kind = "limit"
      PROVE  step = "write"
  BY <1>1 DEF Bus!Next, Bus!BeginTorque, Bus!BeginLimit, Bus!Begin, Bus!Switch, Bus!SyncPose,
     Bus!WriteLimit, Bus!VerifyLimit, Bus!Probe, Bus!Return, Bus!Move, Bus!PowerCycle,
     Bus!registers, Bus!vars
<1> QED
  BY <1>1 DEF Bus!RaisedOnPlace, Bus!BusInv, Bus!SyncedHere

(***************************************************************************)
(* The waits of arachno-calibrate                                          *)
(***************************************************************************)
LEMMA WaitStart == Settle!Init => Settle!WaitInv
BY WaitAssumption
   DEF Settle!Init, Settle!WaitInv, Settle!TypeOK, Settle!StillWaiting, Settle!SeenInSweeps,
       Settle!GroupCounts, Settle!SettleCounts, Settle!CloseCounts, Settle!Concluded,
       Settle!Loops

\* What is watched is counted once a sweep, while sweeps are left.
LEMMA WaitWatches ==
    ASSUME Settle!WaitInv, kind = "waiting", NEW got \in [WaitedFor -> Settle!Readings],
           Settle!Watch(got)
    PROVE  /\ device' \in [WaitedFor -> 0 .. WaitTimeout + 1]
           /\ since' \in [WaitedFor -> 0 .. WaitTimeout + 1]
           /\ latest' \in [WaitedFor -> 0 .. WaitTimeout + 1]
           /\ \A s \in WaitedFor :
                 /\ device'[s] <= since'[s] /\ since'[s] <= drained + 1
                 /\ latest'[s] <= drained + 1
                 /\ device'[s] = IF Settle!Quiet(got[s]) THEN device[s] + 1 ELSE 0
                 /\ since'[s] = IF device'[s] > since[s] THEN device'[s] ELSE since[s]
                 /\ latest'[s] = IF latest[s] > 0 \/ Settle!HasStarted(got[s])
                                 THEN latest[s] + 1 ELSE 0
<1> USE DEF Settle!WaitInv, Settle!TypeOK
<1>1. drained \in 0 .. WaitTimeout
  BY WaitAssumption DEF Settle!StillWaiting
<1>2. \A s \in WaitedFor :
        /\ device'[s] = IF Settle!Quiet(got[s]) THEN device[s] + 1 ELSE 0
        /\ since'[s] = IF device'[s] > since[s] THEN device'[s] ELSE since[s]
        /\ latest'[s] = IF latest[s] > 0 \/ Settle!HasStarted(got[s]) THEN latest[s] + 1 ELSE 0
  BY DEF Settle!Watch
<1>3. \A s \in WaitedFor :
        /\ device'[s] \in 0 .. WaitTimeout + 1 /\ since'[s] \in 0 .. WaitTimeout + 1
        /\ latest'[s] \in 0 .. WaitTimeout + 1
        /\ device'[s] <= since'[s] /\ since'[s] <= drained + 1
        /\ latest'[s] <= drained + 1
  BY <1>1, <1>2, WaitAssumption DEF Settle!SeenInSweeps
<1> QED
  BY <1>2, <1>3 DEF Settle!Watch

LEMMA WaitConcludes ==
    ASSUME NEW done \in BOOLEAN, Settle!Conclude(done), Settle!WaitInv, kind = "waiting"
    PROVE  /\ drained' = drained + 1 /\ drained' \in 0 .. WaitTimeout + 1
           /\ kind' \in {"waiting", "ok", "timeout", "error"}
           /\ kind' = "ok" <=> done
           /\ kind' = "waiting" => drained' <= WaitTimeout
           /\ kind' # "error"
BY WaitAssumption
   DEF Settle!Conclude, Settle!WaitInv, Settle!TypeOK, Settle!StillWaiting

LEMMA WaitGroup ==
    ASSUME Settle!WaitInv, NEW got \in [WaitedFor -> Settle!Readings], Settle!GroupSweep(got)
    PROVE  Settle!WaitInv'
<1> USE DEF Settle!WaitInv
<1> DEFINE done == \A s \in WaitedFor : line'[s] >= Confirm
<1>1. /\ step = "group" /\ kind = "waiting"
      /\ UNCHANGED <<step, taken, until>>
      /\ bridge' = [s \in WaitedFor |-> bridge[s] \/ Settle!HasStarted(got[s])]
      /\ line' = [s \in WaitedFor |-> IF bridge'[s] /\ Settle!Stopped(got[s])
                                      THEN line[s] + 1 ELSE 0]
      /\ Settle!Conclude(done) /\ Settle!Watch(got)
  BY DEF Settle!GroupSweep, Settle!Waits
<1>2. drained \in 0 .. WaitTimeout /\ drained' = drained + 1
  BY <1>1, WaitAssumption DEF Settle!StillWaiting, Settle!TypeOK, Settle!Conclude
<1>3. \A s \in WaitedFor :
        /\ bridge'[s] <=> latest'[s] > 0
        /\ line'[s] = IF device'[s] < latest'[s] THEN device'[s] ELSE latest'[s]
        /\ line'[s] \in 0 .. WaitTimeout + 1 /\ line'[s] <= drained'
  <2> SUFFICES ASSUME NEW s \in WaitedFor
               PROVE  /\ bridge'[s] <=> latest'[s] > 0
                      /\ line'[s] = IF device'[s] < latest'[s] THEN device'[s] ELSE latest'[s]
                      /\ line'[s] \in 0 .. WaitTimeout + 1 /\ line'[s] <= drained'
    OBVIOUS
  <2>1. /\ line[s] \in Nat /\ latest[s] \in Nat /\ device[s] \in Nat
        /\ line[s] = IF device[s] < latest[s] THEN device[s] ELSE latest[s]
        /\ line[s] <= drained
    BY <1>1 DEF Settle!TypeOK, Settle!GroupCounts, Settle!SeenInSweeps
  <2>2. bridge[s] <=> latest[s] > 0
    BY <1>1 DEF Settle!GroupCounts
  <2>3. bridge'[s] <=> bridge[s] \/ Settle!HasStarted(got[s])
    BY <1>1
  <2>4. line'[s] = IF bridge'[s] /\ Settle!Stopped(got[s]) THEN line[s] + 1 ELSE 0
    BY <1>1
  <2>5. /\ device'[s] = IF Settle!Stopped(got[s]) THEN device[s] + 1 ELSE 0
        /\ latest'[s] = IF latest[s] > 0 \/ Settle!HasStarted(got[s]) THEN latest[s] + 1 ELSE 0
    BY <1>1, WaitWatches DEF Settle!Quiet
  <2>6. bridge'[s] <=> latest'[s] > 0
    BY <2>1, <2>2, <2>3, <2>5
  <2> QED
    BY <1>2, <2>1, <2>2, <2>3, <2>4, <2>5, <2>6, WaitAssumption
<1>4. Settle!TypeOK'
  <2>1. bridge' \in [WaitedFor -> BOOLEAN]
    BY <1>1
  <2>2. line' \in [WaitedFor -> 0 .. WaitTimeout + 1]
    BY <1>1, <1>3
  <2> QED
    BY <1>1, <2>1, <2>2, WaitWatches, WaitConcludes DEF Settle!TypeOK
<1>5. Settle!SeenInSweeps'
  BY <1>1, <1>2, <1>3, WaitWatches DEF Settle!SeenInSweeps
<1>6. Settle!GroupCounts'
  BY <1>1, <1>3 DEF Settle!GroupCounts
<1>7. Settle!StillWaiting' /\ Settle!Concluded'
  <2>1. kind' = "ok" <=> done
    BY <1>1, WaitConcludes
  <2>2. ~done => \E s \in WaitedFor : line'[s] < Confirm
    BY <1>3, WaitAssumption
  <2> QED
    BY <1>1, <2>1, <2>2, WaitConcludes DEF Settle!StillWaiting, Settle!Concluded
<1> QED
  BY <1>1, <1>4, <1>5, <1>6, <1>7 DEF Settle!SettleCounts, Settle!CloseCounts

LEMMA WaitSettle ==
    ASSUME Settle!WaitInv, NEW got \in [WaitedFor -> Settle!Readings], Settle!SettleSweep(got)
    PROVE  Settle!WaitInv'
<1> USE DEF Settle!WaitInv
<1>1. /\ step = "settle" /\ kind = "waiting"
      /\ UNCHANGED <<step, bridge, until>>
      /\ line' = [s \in WaitedFor |-> IF s \in taken THEN line[s]
                                      ELSE IF Settle!Stopped(got[s]) THEN line[s] + 1 ELSE 0]
      /\ taken' = {s \in WaitedFor : line'[s] >= Confirm}
      /\ Settle!Conclude(taken' = WaitedFor) /\ Settle!Watch(got)
  BY DEF Settle!SettleSweep, Settle!Waits
<1>2. drained \in 0 .. WaitTimeout /\ drained' = drained + 1
  BY <1>1, WaitAssumption DEF Settle!StillWaiting, Settle!TypeOK, Settle!Conclude
<1>3. \A s \in WaitedFor :
        /\ line'[s] \in 0 .. WaitTimeout + 1 /\ line'[s] <= drained'
        /\ s \in taken' <=> line'[s] >= Confirm
        /\ line'[s] <= since'[s]
        /\ s \notin taken' => line'[s] = device'[s] /\ since'[s] < Confirm
  <2> SUFFICES ASSUME NEW s \in WaitedFor
               PROVE  /\ line'[s] \in 0 .. WaitTimeout + 1 /\ line'[s] <= drained'
                      /\ s \in taken' <=> line'[s] >= Confirm
                      /\ line'[s] <= since'[s]
                      /\ s \notin taken' => line'[s] = device'[s] /\ since'[s] < Confirm
    OBVIOUS
  <2>1. /\ line[s] \in Nat /\ device[s] \in Nat /\ since[s] \in Nat
        /\ s \in taken <=> line[s] >= Confirm
        /\ line[s] <= since[s] /\ line[s] <= drained
        /\ s \notin taken => line[s] = device[s] /\ since[s] < Confirm
    BY <1>1 DEF Settle!TypeOK, Settle!SettleCounts, Settle!SeenInSweeps
  <2>2. /\ line'[s] = IF s \in taken THEN line[s]
                      ELSE IF Settle!Stopped(got[s]) THEN line[s] + 1 ELSE 0
        /\ s \in taken' <=> line'[s] >= Confirm
    BY <1>1
  <2>3. /\ device'[s] = IF Settle!Stopped(got[s]) THEN device[s] + 1 ELSE 0
        /\ since'[s] = IF device'[s] > since[s] THEN device'[s] ELSE since[s]
    BY <1>1, WaitWatches DEF Settle!Quiet
  <2> QED
    BY <1>2, <2>1, <2>2, <2>3, WaitAssumption
<1>4. Settle!TypeOK'
  <2>1. line' \in [WaitedFor -> 0 .. WaitTimeout + 1] /\ taken' \subseteq WaitedFor
    BY <1>1, <1>3
  <2> QED
    BY <1>1, <2>1, WaitWatches, WaitConcludes DEF Settle!TypeOK
<1>5. Settle!SeenInSweeps'
  BY <1>1, <1>2, <1>3, WaitWatches DEF Settle!SeenInSweeps
<1>6. Settle!SettleCounts'
  BY <1>3 DEF Settle!SettleCounts
<1>7. Settle!StillWaiting' /\ Settle!Concluded'
  <2>1. kind' = "ok" <=> taken' = WaitedFor
    BY <1>1, WaitConcludes
  <2>2. taken' # WaitedFor => \E s \in WaitedFor : s \notin taken'
    BY <1>1
  <2> QED
    BY <1>1, <2>1, <2>2, WaitConcludes DEF Settle!StillWaiting, Settle!Concluded
<1> QED
  BY <1>1, <1>4, <1>5, <1>6, <1>7 DEF Settle!GroupCounts, Settle!CloseCounts

LEMMA WaitClose ==
    ASSUME Settle!WaitInv, NEW got \in [WaitedFor -> Settle!Readings], Settle!CloseSweep(got)
    PROVE  Settle!WaitInv'
<1> USE DEF Settle!WaitInv
<1> DEFINE close == \A s \in WaitedFor : got[s] = "there"
<1>1. /\ step = "close" /\ kind = "waiting"
      /\ UNCHANGED <<step, bridge, line, taken>>
      /\ until' = IF close THEN until + 1 ELSE 0
      /\ Settle!Conclude(until' >= Confirm) /\ Settle!Watch(got)
  BY DEF Settle!CloseSweep, Settle!Waits
<1>2. /\ drained \in 0 .. WaitTimeout /\ drained' = drained + 1
      /\ until \in 0 .. Confirm - 1
  BY <1>1, WaitAssumption DEF Settle!StillWaiting, Settle!TypeOK, Settle!Conclude
<1>3. until' \in 0 .. Confirm
  BY <1>1, <1>2, WaitAssumption
<1>4. \A s \in WaitedFor : device'[s] = IF got[s] = "there" THEN device[s] + 1 ELSE 0
  BY <1>1, WaitWatches DEF Settle!Quiet
<1>5. Settle!CloseCounts'
  <2>1. CASE close
    BY <1>1, <1>2, <1>4, <2>1 DEF Settle!CloseCounts, Settle!TypeOK
  <2>2. CASE ~close
    <3>1. PICK s \in WaitedFor : got[s] # "there"
      BY <2>2
    <3>2. until' = 0 /\ device'[s] = 0
      BY <1>1, <1>4, <2>2, <3>1
    <3>3. \A r \in WaitedFor : device'[r] >= 0
      BY <1>1, WaitWatches
    <3> QED
      BY <3>1, <3>2, <3>3 DEF Settle!CloseCounts
  <2> QED
    BY <2>1, <2>2
<1>concluded.
      /\ drained' \in 0 .. WaitTimeout + 1
      /\ kind' \in {"waiting", "ok", "timeout", "error"}
      /\ kind' = "ok" <=> until' >= Confirm
      /\ kind' = "waiting" => drained' <= WaitTimeout
      /\ kind' # "error"
  BY <1>1, <1>2, WaitAssumption DEF Settle!Conclude
<1>6. Settle!TypeOK'
  BY <1>1, <1>3, <1>concluded, WaitWatches DEF Settle!TypeOK
<1>7. Settle!SeenInSweeps'
  BY <1>1, <1>2, WaitWatches DEF Settle!SeenInSweeps, Settle!TypeOK
<1>8. Settle!StillWaiting' /\ Settle!Concluded'
  BY <1>1, <1>3, <1>concluded, WaitAssumption DEF Settle!StillWaiting, Settle!Concluded
<1> QED
  BY <1>1, <1>5, <1>6, <1>7, <1>8 DEF Settle!GroupCounts, Settle!SettleCounts

LEMMA WaitStep ==
    ASSUME Settle!WaitInv, [Settle!Next]_(Settle!vars)
    PROVE  Settle!WaitInv'
<1> USE DEF Settle!WaitInv
<1>1. ASSUME NEW got \in [WaitedFor -> Settle!Readings], Settle!SweepFails(got)
      PROVE  Settle!WaitInv'
  BY <1>1 DEF Settle!SweepFails, Settle!Waits, Settle!code, Settle!history, Settle!TypeOK,
     Settle!StillWaiting, Settle!SeenInSweeps, Settle!GroupCounts, Settle!SettleCounts,
     Settle!CloseCounts, Settle!Concluded
<1>2. CASE UNCHANGED Settle!vars
  BY <1>2 DEF Settle!vars, Settle!code, Settle!history, Settle!TypeOK,
     Settle!StillWaiting, Settle!SeenInSweeps, Settle!GroupCounts, Settle!SettleCounts,
     Settle!CloseCounts, Settle!Concluded
<1> QED
  BY <1>1, <1>2, WaitGroup, WaitSettle, WaitClose DEF Settle!Next, Settle!Sweep

\* The counts of the loops are what was seen, so their outcomes are.
LEMMA WaitTells ==
    ASSUME Settle!WaitInv
    PROVE  Settle!SettledMeansQuiet /\ Settle!TimeoutMeansUnrest
<1> USE WaitAssumption DEF Settle!WaitInv, Settle!Concluded, Settle!TypeOK
<1>1. CASE step = "group"
  <2>1. \A s \in WaitedFor :
          /\ line[s] \in Nat /\ device[s] \in Nat /\ latest[s] \in Nat
          /\ line[s] = IF device[s] < latest[s] THEN device[s] ELSE latest[s]
    BY <1>1 DEF Settle!GroupCounts
  <2>2. Settle!SettledMeansQuiet
    BY <1>1, <2>1 DEF Settle!SettledMeansQuiet
  <2>3. Settle!TimeoutMeansUnrest
    BY <1>1, <2>1 DEF Settle!TimeoutMeansUnrest
  <2> QED
    BY <2>2, <2>3
<1>2. CASE step = "settle"
  BY <1>2 DEF Settle!SettleCounts, Settle!SettledMeansQuiet, Settle!TimeoutMeansUnrest
<1>3. CASE step = "close"
  <2>1. PICK s \in WaitedFor : until = device[s]
    BY <1>3 DEF Settle!CloseCounts
  <2>2. \A r \in WaitedFor : until <= device[r] /\ device[r] \in Nat
    BY <1>3 DEF Settle!CloseCounts
  <2> QED
    BY <1>3, <2>1, <2>2 DEF Settle!SettledMeansQuiet, Settle!TimeoutMeansUnrest
<1> QED
  BY <1>1, <1>2, <1>3 DEF Settle!Loops

(***************************************************************************)
(* The start of the IMU's board                                            *)
(***************************************************************************)
\* The modes and addresses are left to arithmetic, the rest to logic.
BootAt == until \in 0 .. 3 /\ (step # "done" => until <= Boot!Last)

BootLogic ==
    /\ step \in {"spi", "i2c", "done"} /\ alive \in BOOLEAN
    /\ kind \in Boot!Faults /\ error \in Boot!Faults
    /\ latest \in Boot!Faults \cup {"none"} /\ line \subseteq Boot!Answers
    /\ step # "done" => latest = "none"
    /\ Boot!CodesTell /\ Boot!SilenceMeansSilence /\ Boot!NoFaultMeansSensor

LEMMA BootParts == Boot!BootInv <=> BootAt /\ BootLogic
BY DEF Boot!BootInv, Boot!TypeOK, BootAt, BootLogic

LEMMA BootStart == Boot!Init => Boot!BootInv
<1>1. Boot!Init => BootAt
  BY DEF Boot!Init, BootAt, Boot!Last
<1>2. Boot!Init => BootLogic
  BY DEF Boot!Init, BootLogic, Boot!CodesTell, Boot!SilenceMeansSilence, Boot!Disturbed,
         Boot!NoFaultMeansSensor, Boot!Faults
<1> QED
  BY <1>1, <1>2, BootParts

LEMMA BootStep ==
    ASSUME Boot!BootInv, [Boot!Next]_(Boot!vars)
    PROVE  Boot!BootInv'
<1>1. BootAt /\ BootLogic
  BY BootParts
<1>2. BootAt'
  BY <1>1 DEF BootAt, BootLogic, Boot!Last, Boot!Next, Boot!ProbeFinds, Boot!ProbeMeetsAlien,
     Boot!ProbeErrs, Boot!ProbeMeetsNothing, Boot!BringUpFails, Boot!BringUpDone,
     Boot!BringUp, Boot!Probing, Boot!Continues, Boot!GivesUp, Boot!vars
<1>3. BootLogic'
  <2> USE <1>1 DEF BootLogic, Boot!CodesTell, Boot!SilenceMeansSilence, Boot!Disturbed,
          Boot!NoFaultMeansSensor, Boot!Faults, Boot!Answers
  <2>1. CASE Boot!ProbeFinds
    BY <2>1 DEF Boot!ProbeFinds, Boot!Probing
  <2>2. CASE Boot!ProbeMeetsAlien
    BY <2>2 DEF Boot!ProbeMeetsAlien, Boot!Probing, Boot!Continues, Boot!GivesUp, Boot!Select
  <2>3. CASE Boot!ProbeErrs
    BY <2>3 DEF Boot!ProbeErrs, Boot!Probing, Boot!Continues, Boot!GivesUp, Boot!Select
  <2>4. ASSUME NEW answer \in Boot!Answers, Boot!ProbeMeetsNothing(answer)
        PROVE  BootLogic'
    BY <2>4 DEF Boot!ProbeMeetsNothing, Boot!Probing, Boot!Continues, Boot!GivesUp,
                Boot!Select
  <2>5. ASSUME NEW answer \in Boot!Answers, Boot!BringUpFails(answer)
        PROVE  BootLogic'
    BY <2>5 DEF Boot!BringUpFails, Boot!BringUp, Boot!GivesUp, Boot!Select
  <2>6. CASE Boot!BringUpDone
    BY <2>6 DEF Boot!BringUpDone, Boot!BringUp
  <2>7. CASE UNCHANGED Boot!vars
    BY <2>7 DEF Boot!vars
  <2> QED
    BY <2>1, <2>2, <2>3, <2>4, <2>5, <2>6, <2>7 DEF Boot!Next
<1> QED
  BY <1>2, <1>3 DEF Boot!BootInv, Boot!TypeOK, BootAt, BootLogic

(***************************************************************************)
(* From the IMU's board to the worker: the line                            *)
(***************************************************************************)
LEMMA FeedFrames ==
    ASSUME NEW f \in Feed!Frames
    PROVE  /\ ~Feed!IsSample(f) => f.info \in Feed!Devices
           /\ Feed!IsSample(f) => f.sample \in Feed!Samples
BY DEF Feed!Frames, Feed!IsSample

LEMMA FeedMakes ==
    /\ \A d \in Feed!Devices :
         /\ [info |-> d] \in Feed!Frames
         /\ ~Feed!IsSample([info |-> d]) /\ [info |-> d].info = d
    /\ \A x \in Feed!Samples :
         [sample |-> x] \in Feed!Frames /\ Feed!IsSample([sample |-> x])
BY DEF Feed!Frames, Feed!IsSample

\* A frame that is written, or taken with some of those behind it, leaves the others.
LEMMA FeedWrites ==
    ASSUME line \in Seq(Feed!Frames), NEW f \in Feed!Frames, Feed!Write(f)
    PROVE  /\ line' \in Seq(Feed!Frames) /\ Len(line') <= MaxLine
           /\ \A i \in 1 .. Len(line') : line'[i] = f \/ \E j \in 1 .. Len(line) : line'[i] = line[j]
BY FeedAssumption DEF Feed!Write

LEMMA FeedTakes ==
    ASSUME line \in Seq(Feed!Frames), Len(line) <= MaxLine,
           NEW lost \in 0 .. MaxLost, Feed!Take(lost)
    PROVE  /\ line' \in Seq(Feed!Frames) /\ Len(line') <= MaxLine
           /\ \A i \in 1 .. Len(line') : \E j \in 1 .. Len(line) : line'[i] = line[j]
           /\ bridge = "open" /\ line # <<>>
           /\ Head(line) = line[1] /\ line[1] \in Feed!Frames /\ 1 \in 1 .. Len(line)
<1>1. /\ bridge = "open" /\ lost < Len(line) /\ lost \in Nat
      /\ line' = SubSeq(line, 2 + lost, Len(line))
  BY FeedAssumption DEF Feed!Take
<1>2. /\ line' \in Seq(Feed!Frames)
      /\ Len(line') = Len(line) - lost - 1
      /\ \A i \in 1 .. Len(line') : line'[i] = line[i + lost + 1]
  BY <1>1, SubSeqProperties
<1> QED
  BY <1>1, <1>2, FeedAssumption

LEMMA FeedStart == Feed!Init => Feed!FeedInv
<1>1. Feed!Init => Feed!TypeOK
  <2>1. Feed!Init => /\ line \in Seq(Feed!Frames) /\ Len(line) <= MaxLine
                     /\ until \in 0 .. Interval /\ since \in Nat
                     /\ drained \in 0 .. DrainMax /\ strikes \in 0 .. Strikes
    BY FeedAssumption DEF Feed!Init
  <2> QED
    BY <2>1 DEF Feed!Init, Feed!TypeOK
<1> QED
  BY <1>1, FeedAssumption
     DEF Feed!Init, Feed!FeedInv, Feed!LineOfBoard, Feed!ProbedUnknown, Feed!KindIsDevices,
         Feed!NoErrorMeansAlive, Feed!InfoKeepsComing

\* The board comes, goes and starts to stream; the host is where it was.
LEMMA FeedBoard ==
    ASSUME Feed!FeedInv,
           \/ \E found \in Feed!Devices : Feed!PlugIn(found)
           \/ Feed!Unplug \/ Feed!Disconnect \/ Feed!Connect
    PROVE  Feed!FeedInv'
<1> USE DEF Feed!FeedInv
<1>1. /\ UNCHANGED <<step, drained, taken, saw, kind, error, latest, strikes, alive>>
      /\ stream' \in {"off", "waiting", "hello"}
      /\ stream' = "off" => line' = <<>> /\ bridge' # "open"
      /\ \/ line' = <<>> /\ bridge' = IF bridge = "closed" THEN "closed" ELSE "dead"
         \/ line' = line /\ bridge' = bridge
      /\ device' \in Feed!Devices
      /\ device' = device \/ (line' = <<>> /\ bridge' # "open")
      /\ until' \in {0, until} /\ since' \in {0, since}
  BY DEF Feed!PlugIn, Feed!Unplug, Feed!Disconnect, Feed!Connect, Feed!LineDown, Feed!host,
     Feed!drain, Feed!state, Feed!TypeOK, Feed!LineOfBoard
<1>2. Feed!TypeOK'
  <2>1. line' \in Seq(Feed!Frames) /\ Len(line') <= MaxLine
    <3>1. line' = <<>> \/ line' = line
      BY <1>1
    <3>2. <<>> \in Seq(Feed!Frames) /\ Len(<<>>) <= MaxLine
      BY FeedAssumption
    <3>3. line \in Seq(Feed!Frames) /\ Len(line) <= MaxLine
      BY DEF Feed!TypeOK
    <3> QED
      BY <3>1, <3>2, <3>3
  <2>2. until' \in 0 .. Interval /\ since' \in Nat
    BY <1>1, FeedAssumption DEF Feed!TypeOK
  <2> QED
    BY <1>1, <2>1, <2>2 DEF Feed!TypeOK
<1>3. Feed!LineOfBoard'
  BY <1>1 DEF Feed!LineOfBoard
<1> QED
  BY <1>1, <1>2, <1>3 DEF Feed!ProbedUnknown, Feed!KindIsDevices, Feed!NoErrorMeansAlive,
     Feed!InfoKeepsComing

\* The firmware writes an info of its own or a sample.
LEMMA FeedFirmware ==
    ASSUME Feed!FeedInv,
           Feed!Hello \/ Feed!Announce \/ \E sample \in Feed!Samples : Feed!Stream(sample)
    PROVE  Feed!FeedInv'
<1> USE DEF Feed!FeedInv
<1>1. /\ UNCHANGED <<device, bridge, step, drained, taken, saw, kind, error, latest, strikes, alive>>
      /\ stream' = "stream" /\ stream # "off"
  BY DEF Feed!Hello, Feed!Announce, Feed!Stream, Feed!host, Feed!drain, Feed!state,
     Feed!TypeOK
<1>2. until' \in 0 .. Interval /\ since' \in Nat /\ since' + until' <= Interval
  <2>1. Interval \in Nat /\ until \in 0 .. Interval /\ since \in Nat
    BY FeedAssumption DEF Feed!TypeOK
  <2>2. \/ until' = 0 /\ since' = 0
        \/ until' = Interval /\ since' = 0
        \/ until > 0 /\ until' = until - 1 /\ since' = since + 1 /\ stream = "stream"
    BY DEF Feed!Hello, Feed!Announce, Feed!Stream
  <2> QED
    BY <2>1, <2>2 DEF Feed!InfoKeepsComing
<1>3. PICK f \in Feed!Frames : Feed!Write(f) /\ (~Feed!IsSample(f) => f.info = device)
  <2>1. CASE Feed!Hello \/ Feed!Announce
    BY <2>1, FeedMakes DEF Feed!Hello, Feed!Announce, Feed!TypeOK
  <2>2. ASSUME NEW sample \in Feed!Samples, Feed!Stream(sample)
        PROVE  \E f \in Feed!Frames : Feed!Write(f) /\ (~Feed!IsSample(f) => f.info = device)
    BY <2>2, FeedMakes DEF Feed!Stream
  <2> QED
    BY <2>1, <2>2
<1>4. /\ line' \in Seq(Feed!Frames) /\ Len(line') <= MaxLine
      /\ \A i \in 1 .. Len(line') : line'[i] = f \/ \E j \in 1 .. Len(line) : line'[i] = line[j]
  BY <1>3, FeedWrites DEF Feed!TypeOK
<1>5. Feed!TypeOK'
  BY <1>1, <1>2, <1>4 DEF Feed!TypeOK
<1>6. Feed!LineOfBoard'
  <2> SUFFICES ASSUME NEW i \in 1 .. Len(line'), ~Feed!IsSample(line'[i])
               PROVE  line'[i].info = device
    BY <1>1 DEF Feed!LineOfBoard, Feed!IsSample
  <2>1. CASE line'[i] = f
    BY <1>3, <2>1
  <2>2. CASE \E j \in 1 .. Len(line) : line'[i] = line[j]
    BY <2>2 DEF Feed!LineOfBoard
  <2> QED
    BY <1>4, <2>1, <2>2
<1> QED
  BY <1>1, <1>2, <1>5, <1>6 DEF Feed!ProbedUnknown, Feed!KindIsDevices,
     Feed!NoErrorMeansAlive, Feed!InfoKeepsComing

\* The worker takes a frame. An info that it takes as the first word of a bridge names
\* the board.
LEMMA FeedReads == ASSUME Feed!FeedInv, Feed!Reads PROVE Feed!FeedInv'
<1> USE DEF Feed!FeedInv, Feed!Working, Feed!board, Feed!drain, Feed!state
<1>1. PICK lost \in 0 .. MaxLost :
        \/ Feed!ProbeSample(lost) \/ Feed!ProbeInfo(lost)
        \/ Feed!DrainInfo(lost) \/ Feed!DrainSample(lost)
  BY DEF Feed!Reads
<1>2. Feed!Take(lost)
  BY <1>1 DEF Feed!ProbeSample, Feed!ProbeInfo, Feed!DrainInfo, Feed!DrainSample
<1>3. /\ line' \in Seq(Feed!Frames) /\ Len(line') <= MaxLine
      /\ \A i \in 1 .. Len(line') : \E j \in 1 .. Len(line) : line'[i] = line[j]
      /\ bridge = "open" /\ line # <<>>
      /\ Head(line) = line[1] /\ line[1] \in Feed!Frames /\ 1 \in 1 .. Len(line)
  BY <1>2, FeedTakes DEF Feed!TypeOK
<1>4. /\ UNCHANGED <<device, stream, until, since, bridge, latest, strikes>>
      /\ step' = step \/ (step = "probe" /\ step' = "drain")
  BY <1>1 DEF Feed!ProbeSample, Feed!ProbeInfo, Feed!DrainInfo, Feed!DrainSample
<1>5. Feed!LineOfBoard'
  <2>1. stream # "off"
    BY <1>3 DEF Feed!LineOfBoard
  <2> SUFFICES ASSUME NEW i \in 1 .. Len(line'), ~Feed!IsSample(line'[i])
               PROVE  line'[i].info = device
    BY <1>4, <2>1 DEF Feed!LineOfBoard, Feed!IsSample
  <2> QED
    BY <1>3 DEF Feed!LineOfBoard
<1>6. /\ drained' \in 0 .. DrainMax /\ taken' \in Feed!Samples \cup {None}
  <2>1. CASE Feed!DrainSample(lost)
    BY <1>3, <2>1, FeedFrames, FeedAssumption DEF Feed!DrainSample, Feed!TypeOK
  <2> QED
    BY <1>1, <2>1 DEF Feed!ProbeSample, Feed!ProbeInfo, Feed!DrainInfo, Feed!TypeOK
<1>7. CASE Feed!ProbeInfo(lost)
  <2>1. kind' = device /\ kind' \in Feed!Devices
    BY <1>3, <1>7, FeedFrames DEF Feed!ProbeInfo, Feed!LineOfBoard
  <2>2. /\ error' = IF kind' = "faulted" THEN "fault" ELSE None
        /\ alive' = (kind' = "sensor") /\ step' = "drain" /\ saw' = saw
    BY <1>7 DEF Feed!ProbeInfo
  <2>3. error' = None => alive'
    BY <2>1, <2>2, FeedAssumption DEF Feed!Devices
  <2>4. Feed!TypeOK'
    BY <1>3, <1>4, <1>6, <2>1, <2>2 DEF Feed!TypeOK
  <2> QED
    BY <1>3, <1>4, <1>5, <2>1, <2>2, <2>3, <2>4
       DEF Feed!ProbedUnknown, Feed!KindIsDevices, Feed!NoErrorMeansAlive, Feed!InfoKeepsComing
<1>8. CASE ~Feed!ProbeInfo(lost)
  <2>1. /\ UNCHANGED <<step, kind, error, alive>>
        /\ saw' \in BOOLEAN
    BY <1>1, <1>8 DEF Feed!ProbeSample, Feed!DrainInfo, Feed!DrainSample, Feed!TypeOK
  <2>2. Feed!TypeOK'
    BY <1>3, <1>4, <1>6, <2>1 DEF Feed!TypeOK
  <2> QED
    BY <1>3, <1>4, <1>5, <2>1, <2>2
       DEF Feed!ProbedUnknown, Feed!KindIsDevices, Feed!NoErrorMeansAlive, Feed!InfoKeepsComing
<1> QED
  BY <1>7, <1>8

\* The rest of the worker's tick.
LEMMA FeedTick ==
    ASSUME Feed!FeedInv,
           \/ Feed!Open \/ Feed!OpenFails \/ Feed!StillOpen
           \/ Feed!ProbeGivesUp \/ Feed!ProbeFails
           \/ Feed!DrainEnds \/ Feed!DrainFails
           \/ Feed!Check
    PROVE  Feed!FeedInv'
<1> USE DEF Feed!FeedInv, Feed!Working, Feed!board, Feed!drain, Feed!state,
        Feed!Open, Feed!OpenFails, Feed!StillOpen, Feed!ProbeGivesUp, Feed!ProbeFails,
        Feed!Drained, Feed!DrainEnds, Feed!DrainFails, Feed!Check
<1>1. UNCHANGED <<device, stream, until, since, line>>
  OBVIOUS
<1>2. /\ step' \in {"open", "probe", "drain", "check"}
      /\ bridge' \in {"closed", "open", "dead"}
      /\ kind' \in Feed!Devices \cup {None}
      /\ error' \in {None, "waiting", "open", "noinfo", "silent", "fault", "read"}
      /\ latest' \in Feed!Samples \cup {None} /\ taken' \in Feed!Samples \cup {None}
  BY DEF Feed!TypeOK
<1>3. drained' \in 0 .. DrainMax /\ strikes' \in 0 .. Strikes
  BY FeedAssumption DEF Feed!TypeOK, Feed!Least
<1>4. saw' \in BOOLEAN /\ alive' \in BOOLEAN
  BY DEF Feed!TypeOK
<1>5. Feed!TypeOK'
  BY <1>1, <1>2, <1>3, <1>4 DEF Feed!TypeOK
<1>6. Feed!LineOfBoard'
  BY <1>1 DEF Feed!LineOfBoard
<1>7. Feed!ProbedUnknown' /\ Feed!KindIsDevices'
  BY <1>1 DEF Feed!ProbedUnknown, Feed!KindIsDevices, Feed!LineOfBoard
<1>8. Feed!NoErrorMeansAlive'
  BY FeedAssumption DEF Feed!ProbedUnknown, Feed!NoErrorMeansAlive, Feed!TypeOK
<1>9. Feed!InfoKeepsComing'
  BY <1>1 DEF Feed!InfoKeepsComing
<1> QED
  BY <1>5, <1>6, <1>7, <1>8, <1>9

LEMMA FeedStep ==
    ASSUME Feed!FeedInv, [Feed!Next]_(Feed!vars)
    PROVE  Feed!FeedInv'
<1>1. CASE UNCHANGED Feed!vars
  BY <1>1 DEF Feed!FeedInv, Feed!vars, Feed!board, Feed!state, Feed!drain, Feed!TypeOK,
     Feed!LineOfBoard, Feed!ProbedUnknown, Feed!KindIsDevices, Feed!NoErrorMeansAlive,
     Feed!InfoKeepsComing
<1> QED
  BY <1>1, FeedBoard, FeedFirmware, FeedReads, FeedTick
     DEF Feed!Next, Feed!Board, Feed!Firmware, Feed!Host

(***************************************************************************)
(* All parts                                                               *)
(***************************************************************************)
\* The inductive invariants of the parts: those that have variables of their own rest
\* at their start while another one runs.
PartsInv ==
    /\ EepromInv
    /\ TypeOK /\ ScanInv
    /\ LinkTypeOK /\ Following
    /\ part = "bus" => Bus!BusInv
    /\ part = "settle" => Settle!WaitInv
    /\ part = "boot" => Boot!BootInv
    /\ part = "feed" => Feed!FeedInv

LEMMA PartsStart == PartsInit => PartsInv
<1> SUFFICES ASSUME PartsInit PROVE PartsInv
  OBVIOUS
<1>1. EepromInit /\ Init /\ LinkInit
  BY DEF PartsInit, EepromRests, ScansRest, LinkRests
<1>2. /\ part = "bus" => Bus!Init
      /\ part = "settle" => Settle!Init
      /\ part = "boot" => Boot!Init
      /\ part = "feed" => Feed!Init
  BY DEF PartsInit
<1> QED
  BY <1>1, <1>2, EepromInitInv, ScansInitType, ScanInvInit, LinkTypeInit, FollowingInit,
     BusStart, WaitStart, BootStart, FeedStart
     DEF PartsInv

\* A step of the parts is one of each, or leaves it alone.
LEMMA PartsSteps ==
    ASSUME [PartsNext]_partsVars
    PROVE  /\ part' = part
           /\ [EepromNext]_eepromVars /\ [Next]_vars /\ [LinkNext]_linkVars
           /\ part = "bus" => [Bus!Next]_(Bus!vars)
           /\ part = "settle" => [Settle!Next]_(Settle!vars)
           /\ part = "boot" => [Boot!Next]_(Boot!vars)
           /\ part = "feed" => [Feed!Next]_(Feed!vars)
<1> USE DEF Sharing
<1>1. CASE Eeproms \/ Scanning \/ Linking(LinkNext) \/ UNCHANGED partsVars
  <2>1. /\ part' = part
        /\ [EepromNext]_eepromVars /\ [Next]_vars /\ [LinkNext]_linkVars
        /\ UNCHANGED othersVars
    BY <1>1 DEF Eeproms, Scanning, Linking, partsVars
  <2> QED
    BY <2>1 DEF othersVars, Bus!vars, Bus!registers, Bus!counters, Settle!vars, Settle!code,
       Settle!history, Boot!vars, Feed!vars, Feed!board, Feed!state, Feed!drain
<1>2. CASE Driving \/ Settling(Settle!Next) \/ Booting \/ Feeding(Feed!Next)
  BY <1>2 DEF Driving, Settling, Booting, Feeding
<1> QED
  BY <1>1, <1>2 DEF PartsNext

LEMMA PartsStep == PartsInv /\ [PartsNext]_partsVars => PartsInv'
<1> SUFFICES ASSUME PartsInv, [PartsNext]_partsVars PROVE PartsInv'
  OBVIOUS
<1>1. /\ part' = part
      /\ [EepromNext]_eepromVars /\ [Next]_vars /\ [LinkNext]_linkVars
      /\ part = "bus" => [Bus!Next]_(Bus!vars)
      /\ part = "settle" => [Settle!Next]_(Settle!vars)
      /\ part = "boot" => [Boot!Next]_(Boot!vars)
      /\ part = "feed" => [Feed!Next]_(Feed!vars)
  BY PartsSteps
<1>2. EepromInv' /\ (TypeOK /\ ScanInv)' /\ (LinkTypeOK /\ Following)'
  BY <1>1, EepromNextInv, ScansTypeStep, ScanInvStep, TypeStep, FollowingStep DEF PartsInv
<1>3. part = "bus" => Bus!BusInv'
  BY <1>1, BusStep DEF PartsInv
<1>4. part = "settle" => Settle!WaitInv'
  BY <1>1, WaitStep DEF PartsInv
<1>5. part = "boot" => Boot!BootInv'
  BY <1>1, BootStep DEF PartsInv
<1>6. part = "feed" => Feed!FeedInv'
  BY <1>1, FeedStep DEF PartsInv
<1> QED
  BY <1>1, <1>2, <1>3, <1>4, <1>5, <1>6 DEF PartsInv

\* The inductive invariants of all parts hold, for every value of the constants.
THEOREM PartsInvariant == PartsSpec => []PartsInv
BY PartsStart, PartsStep, PTL DEF PartsSpec

\* Every part's variables stay within their types: no index leaves the servos, no
\* count its bound, no line its length.
THEOREM PartsTypeCorrect == PartsSpec => []PartsTypeOK
<1>1. PartsInv => PartsTypeOK
  BY DEF PartsInv, PartsTypeOK, EepromInv, Bus!BusInv, Settle!WaitInv, Boot!BootInv,
         Feed!FeedInv
<1> QED
  BY <1>1, PartsInvariant, PTL

\* What a wait for servos returns is what was seen (wait_for_group_stop,
\* wait_for_servos_to_settle, move_pose_to_target).
THEOREM WaitsTellTruth == PartsSpec => []WaitsTell
<1>1. PartsInv => WaitsTell
  BY WaitTells DEF PartsInv, WaitsTell
<1> QED
  BY <1>1, PartsInvariant, PTL

\* The fault code of the device info is what start-up met (SensorState::new).
THEOREM BootTellsTruth == PartsSpec => []BootTells
<1>1. PartsInv => BootTells
  BY DEF PartsInv, BootTells, Boot!BootInv
<1> QED
  BY <1>1, PartsInvariant, PTL

\* The IMU's state is that of the board that is connected (open_imu_bridge,
\* drain_imu_bridge).
THEOREM FeedTellsTruth == PartsSpec => []FeedTells
<1>1. PartsInv => FeedTells
  BY DEF PartsInv, FeedTells, Feed!FeedInv
<1> QED
  BY <1>1, PartsInvariant, PTL

\* A driver call that returns Ok did what it says, and raised limits only over goals
\* that are where the servos are (set_verified_torque_limit_on_current_position_for_ids,
\* enable_torque_on_id).
THEOREM CallsDoWhatTheySay == PartsSpec => OkMeansDone
<1>1. PartsInv => /\ part = "bus" => Bus!VerifiedMeansSet
                  /\ part = "bus" => Bus!AcknowledgedMeansSwitched
  BY DEF PartsInv, Bus!BusInv, Bus!LimitBehind, Bus!TorqueBehind, Bus!Behind,
         Bus!VerifiedMeansSet, Bus!AcknowledgedMeansSwitched
<1>2. PartsInv /\ [PartsNext]_partsVars => [part = "bus" => Bus!RaisedOnPlace]_partsVars
  BY PartsSteps, BusRaises DEF PartsInv
<1> QED
  BY <1>1, <1>2, PartsInvariant, PTL DEF PartsSpec, OkMeansDone

\* What the other theorems say of apply-eeprom, the scans and the line by themselves
\* holds where one of them runs and the others rest.
THEOREM PartsKeepTheirWord ==
    PartsSpec => /\ [](/\ OkMeansApplied /\ WritesUnlocked
                       /\ PushesAtLowLimit /\ OnlyMovedLegIsStrong /\ RaisedAtRest /\ OkMeansHeld
                       /\ CleanFrameDelivered)
                 /\ TorqueOnHere
<1>1. PartsInv => /\ OkMeansApplied /\ WritesUnlocked
                  /\ PushesAtLowLimit /\ OnlyMovedLegIsStrong /\ RaisedAtRest /\ OkMeansHeld
                  /\ CleanFrameDelivered
  <2>1. EepromInv => OkMeansApplied /\ WritesUnlocked
    BY DEF EepromInv
  <2>2. TypeOK /\ ScanInv => /\ PushesAtLowLimit /\ OnlyMovedLegIsStrong
                             /\ RaisedAtRest /\ OkMeansHeld
    BY DEF TypeOK, ScanInv, OthersHeld, OkMeansHeld, Held, Strong
  <2>3. Following => CleanFrameDelivered
    BY DEF Following, CleanFrameDelivered
  <2> QED
    BY <2>1, <2>2, <2>3 DEF PartsInv
<1>2. PartsInv /\ [PartsNext]_partsVars => [ComesOnHere]_vars
  BY PartsSteps, TorqueStep DEF PartsInv
<1> QED
  BY <1>1, <1>2, PartsInvariant, PTL DEF PartsSpec, TorqueOnHere

================================================================================
