--------------------------------- MODULE StsBus ---------------------------------
(***************************************************************************)
(* The Feetech STS bus driver: exchanges with servos over a half-duplex    *)
(* line, and the two register writes the rest of the system relies on, the *)
(* torque switch (acknowledged) and the verified torque limit (read back). *)
(*                                                                         *)
(* transmit_packet throws away the input that has arrived; a reply still   *)
(* on its way after the 50 ms timeout is not among it, and carries no      *)
(* number of the request it answers, only the servo and a length. So an    *)
(* exchange may take the reply to an earlier one. A position broadcast is  *)
(* answered by no servo.                                                   *)
(***************************************************************************)
EXTENDS Integers, FiniteSets

CONSTANTS
    Count,     \* the configured servos
    Limits,    \* the torque limits told apart
    Places,    \* the positions told apart
    Attempts,  \* VERIFIED_TORQUE_LIMIT_VERIFY_ATTEMPTS
    Readbacks, \* VERIFIED_TORQUE_LIMIT_READBACK_ATTEMPTS
    MaxLate    \* bound of the model on replies under way

VARIABLES
    torque,   \* TORQUE_ENABLE of each servo
    limit,    \* TORQUE_LIMIT of each servo
    goal,     \* GOAL_POSITION of each servo
    place,    \* PRESENT_POSITION of each servo
    late,     \* replies on their way that nobody waits for
    call,     \* the call in progress
    wanted,   \* the limit it is to set
    step,     \* what the call does next
    servo,    \* the servo it is at
    read,     \* the position the call read
    attempt, readback,
    required, \* write_confirmation_mode: Required, or Optional (arachno-calibrate)
    trusted,  \* history: did the call take a reply for one of its own that was not?
    heard     \* history: did the servo hear the broadcast of the call?

registers == <<torque, limit, goal>>
counters == <<attempt, readback>>
vars == <<registers, required, place, late, call, wanted, step, servo, read, counters, trusted, heard>>

\* The servos by their place in the configuration, which is the order of the calls.
Servos == 1 .. Count

\* What tells replies apart: the servo, and the length, which the kind of the
\* exchange decides (6 bytes, 8, or the 21 of the telemetry block).
Kinds == {"ack", "word", "telemetry"}
Reply == [servo : Servos, kind : Kinds, value : Limits \cup Places \cup {0}]

Calls == {"none", "enable", "disable", "limit"}
Steps == {"idle", "pose", "write", "verify", "probe", "switch", "ok", "failed"}

First == 1
Last(s) == s = Count
Following(s) == s + 1

TypeOK ==
    /\ torque \in [Servos -> BOOLEAN]
    /\ limit \in [Servos -> Limits]
    /\ goal \in [Servos -> Places] /\ place \in [Servos -> Places]
    /\ late \subseteq Reply
    /\ call \in Calls /\ wanted \in Limits
    /\ step \in Steps
    /\ servo \in Servos
    /\ read \in Places
    /\ attempt \in 1 .. Attempts /\ readback \in 1 .. Readbacks
    /\ required \in BOOLEAN /\ trusted \in BOOLEAN /\ heard \in BOOLEAN

Init ==
    /\ torque = [s \in Servos |-> FALSE]
    /\ limit \in [Servos -> Limits]
    /\ goal \in [Servos -> Places] /\ place = goal
    /\ late = {} /\ call = "none" /\ wanted \in Limits /\ step = "idle"
    /\ servo = First /\ read \in Places
    /\ attempt = 1 /\ readback = 1 /\ trusted = FALSE /\ heard = FALSE
    /\ required \in BOOLEAN

(***************************************************************************)
(* One exchange                                                            *)
(***************************************************************************)
\* transfer, write_register_with_confirmation: the servo takes the instruction
\* or not. If it does it replies, and any of the replies under way may be the
\* first to arrive: it is taken when servo and length fit (parse_status_packet),
\* else the exchange fails, as it does when none comes in time or the first is
\* damaged. Others stay under way, arrive and are thrown away, or are lost.
Replies(taken, reply) == late \cup (IF taken THEN {reply} ELSE {})

Under(way) == late' \in SUBSET way /\ Cardinality(late') <= MaxLate

Accept(taken, reply, accepted) ==
    /\ accepted \in Replies(taken, reply)
    /\ accepted.servo = reply.servo /\ accepted.kind = reply.kind
    /\ Under(Replies(taken, reply) \ {accepted})
    /\ trusted' = (trusted \/ ~taken \/ accepted # reply)

Timeout(taken, reply) ==
    /\ Under(Replies(taken, reply))
    /\ UNCHANGED trusted

\* receive_status_packet_optional: to calibrate, no acknowledgement is one too.
Unconfirmed(taken, reply) == ~required /\ Timeout(taken, reply)

(***************************************************************************)
(* The calls                                                               *)
(***************************************************************************)
Begin(op) ==
    /\ call = "none"
    /\ call' = op
    /\ servo' = First
    /\ attempt' = 1 /\ readback' = 1 /\ trusted' = FALSE /\ heard' = FALSE
    /\ UNCHANGED <<registers, required, place, read>>

\* enable_torque, enable_torque_on_ids
BeginTorque(on) ==
    /\ Begin(IF on THEN "enable" ELSE "disable")
    /\ step' = "switch"
    /\ UNCHANGED <<late, wanted>>

\* set_verified_torque_limit_on_current_position_for_ids: it sleeps a quarter of
\* a second first, by when every reply has arrived (and is thrown away).
BeginLimit(value) ==
    /\ Begin("limit")
    /\ wanted' = value
    /\ step' = "pose"
    /\ late' = {}

Fails ==
    /\ step' = "failed"
    /\ UNCHANGED <<servo, counters>>

\* The next servo, or the end of the call.
Proceeds(first) ==
    IF Last(servo) THEN step' = "ok" /\ UNCHANGED <<servo, counters>>
    ELSE /\ step' = first
         /\ servo' = Following(servo)
         /\ attempt' = 1 /\ readback' = 1

\* enable_torque_on_id
Switch(taken) ==
    LET reply == [servo |-> servo, kind |-> "ack", value |-> 0] IN
    /\ step = "switch"
    /\ torque' = IF taken THEN [torque EXCEPT ![servo] = (call = "enable")] ELSE torque
    /\ \/ \E accepted \in late \cup {reply} : Accept(taken, reply, accepted) /\ Proceeds("switch")
       \/ Unconfirmed(taken, reply) /\ Proceeds("switch")
       \/ Timeout(taken, reply) /\ Fails
    /\ UNCHANGED <<limit, goal, required, place, call, wanted, read, heard>>

\* Mutant: the goal is left where it is.
ReadPose(taken, hears) ==
    LET reply == [servo |-> servo, kind |-> "telemetry", value |-> place[servo]] IN
    /\ step = "pose"
    /\ hears => taken
    /\ \/ \E accepted \in late \cup {reply} :
            /\ Accept(taken, reply, accepted)
            /\ read' = accepted.value
            /\ heard' = hears
            /\ step' = "write"
            /\ UNCHANGED <<servo, counters>>
       \/ Timeout(taken, reply) /\ Fails /\ UNCHANGED <<read, heard>>
    /\ UNCHANGED <<registers, required, place, call, wanted>>

\* sync_current_pose, of the servo: its feedback is read, and broadcast as its
\* goal. Only the writing can fail, not the hearing.
SyncPose(taken, hears) ==
    LET reply == [servo |-> servo, kind |-> "telemetry", value |-> place[servo]] IN
    /\ step = "pose"
    /\ hears => taken
    /\ \/ \E accepted \in late \cup {reply} :
            /\ Accept(taken, reply, accepted)
            /\ read' = accepted.value
            /\ goal' = IF hears THEN [goal EXCEPT ![servo] = accepted.value] ELSE goal
            /\ heard' = hears
            /\ step' = "write"
            /\ UNCHANGED <<servo, counters>>
       \/ Timeout(taken, reply) /\ Fails /\ UNCHANGED <<goal, read, heard>>
    /\ UNCHANGED <<torque, limit, required, place, call, wanted>>

\* What a failed attempt does: another one, or the end.
Retry ==
    IF attempt < Attempts
    THEN /\ step' = "write" /\ attempt' = attempt + 1 /\ readback' = 1
         /\ UNCHANGED servo
    ELSE Fails

\* set_servo_torque_limit
WriteLimit(taken) ==
    LET reply == [servo |-> servo, kind |-> "ack", value |-> 0] IN
    /\ step = "write"
    /\ limit' = IF taken THEN [limit EXCEPT ![servo] = wanted] ELSE limit
    /\ \/ \E accepted \in late \cup {reply} :
            /\ Accept(taken, reply, accepted)
            /\ step' = "verify"
            /\ UNCHANGED <<servo, counters>>
       \/ Unconfirmed(taken, reply) /\ step' = "verify" /\ UNCHANGED <<servo, counters>>
       \/ Timeout(taken, reply) /\ Retry
    /\ UNCHANGED <<torque, goal, required, place, call, wanted, read, heard>>

\* Mutant: the acknowledgement is believed, nothing is compared.
BelieveLimit(taken) ==
    LET reply == [servo |-> servo, kind |-> "word", value |-> limit[servo]] IN
    /\ step = "verify"
    /\ \/ \E accepted \in late \cup {reply} :
            Accept(taken, reply, accepted) /\ Proceeds("pose")
       \/ Timeout(taken, reply) /\ step' = "probe" /\ UNCHANGED <<servo, counters>>
    /\ UNCHANGED <<registers, required, place, call, wanted, read, heard>>

\* read_servo_torque_limit, of set_verified_servo_torque_limit: another value is
\* written again, an error is read again.
VerifyLimit(taken) ==
    LET reply == [servo |-> servo, kind |-> "word", value |-> limit[servo]] IN
    /\ step = "verify"
    /\ \/ \E accepted \in late \cup {reply} :
            /\ Accept(taken, reply, accepted)
            /\ IF accepted.value = wanted THEN Proceeds("pose") ELSE Retry
       \/ Timeout(taken, reply) /\ step' = "probe" /\ UNCHANGED <<servo, counters>>
    /\ UNCHANGED <<registers, required, place, call, wanted, read, heard>>

\* The feedback that is read for the hint of the error message.
Probe(taken) ==
    LET reply == [servo |-> servo, kind |-> "telemetry", value |-> place[servo]] IN
    /\ step = "probe"
    /\ Under(Replies(taken, reply))
    /\ UNCHANGED trusted
    /\ IF readback < Readbacks
       THEN step' = "verify" /\ readback' = readback + 1 /\ UNCHANGED <<servo, attempt>>
       ELSE Retry
    /\ UNCHANGED <<registers, required, place, call, wanted, read, heard>>

Return ==
    /\ step \in {"ok", "failed"}
    /\ call' = "none"
    /\ step' = "idle"
    /\ UNCHANGED <<registers, required, place, late, wanted, servo, read, counters, trusted, heard>>

\* Between calls, commands move the servos to their goals or hands move them.
Move(s, to) ==
    /\ call = "none"
    /\ place' = [place EXCEPT ![s] = to]
    /\ UNCHANGED <<registers, required, late, call, wanted, step, servo, read, counters, trusted, heard>>

\* Another limit is set by other means: the servo is powered off and on.
PowerCycle(s, value) ==
    /\ call = "none"
    /\ limit' = [limit EXCEPT ![s] = value]
    /\ torque' = [torque EXCEPT ![s] = FALSE]
    /\ UNCHANGED <<goal, required, place, late, call, wanted, step, servo, read, counters, trusted, heard>>

Next ==
    \/ \E on \in BOOLEAN : BeginTorque(on)
    \/ \E value \in Limits : BeginLimit(value)
    \/ \E taken \in BOOLEAN :
         \/ Switch(taken) \/ WriteLimit(taken) \/ VerifyLimit(taken) \/ Probe(taken)
         \/ \E hears \in BOOLEAN : SyncPose(taken, hears)
    \/ Return
    \/ \E s \in Servos : \/ \E to \in Places : Move(s, to)
                         \/ \E value \in Limits : PowerCycle(s, value)

Spec == Init /\ [][Next]_vars

(***************************************************************************)
(* What makes it correct                                                   *)
(***************************************************************************)
\* A verified limit is in every servo when the call returns Ok, whatever replies
\* were lost, or came late and were taken for the reply to another exchange.
VerifiedMeansSet ==
    step = "ok" /\ call = "limit" => \A s \in Servos : limit[s] = wanted

\* Torque is what an Ok of enable_torque says where acknowledgements are required
\* and each was that of its own write (a late one would pass for it).
AcknowledgedMeansSwitched ==
    step = "ok" /\ call \in {"enable", "disable"} /\ required /\ ~trusted =>
        \A s \in Servos : torque[s] = (call = "enable")

\* A limit is only raised over a goal that is where the servo is, so nothing
\* jumps, as long as the servo heard the broadcast that nobody acknowledges.
RaisedOnPlace ==
    limit' # limit /\ call = "limit" /\ heard /\ ~trusted => goal[servo] = place[servo]

(***************************************************************************)
(* The inductive invariant the proofs rest on                              *)
(***************************************************************************)
StepOfCall ==
    /\ call = "none" <=> step = "idle"
    /\ step \in {"pose", "write", "verify", "probe"} => call = "limit"
    /\ step = "switch" => call \in {"enable", "disable"}

\* The servos the call is done with.
Behind == {s \in Servos : s < servo \/ step = "ok"}

\* Feedback under way tells a position,
LateFeedback == \A reply \in late : reply.kind = "telemetry" => reply.value \in Places

\* ... and the wanted limit only of a servo that has it: when the call began no reply
\* was under way, and the call sets no other limit.
LateWord ==
    call = "limit" =>
        \A reply \in late :
            reply.kind = "word" /\ reply.value = wanted => limit[reply.servo] = wanted

LimitBehind == call = "limit" => \A s \in Behind : limit[s] = wanted

TorqueBehind ==
    call \in {"enable", "disable"} /\ required /\ ~trusted =>
        \A s \in Behind : torque[s] = (call = "enable")

SyncedHere ==
    step \in {"write", "verify", "probe"} /\ heard /\ ~trusted => goal[servo] = place[servo]

BusInv ==
    /\ TypeOK /\ StepOfCall
    /\ LateFeedback /\ LateWord
    /\ LimitBehind /\ TorqueBehind /\ SyncedHere

================================================================================
