------------------------------- MODULE ArmControl -------------------------------
(***************************************************************************)
(* Control of the arm in arachno-brain: the arm's share of a control tick, *)
(* on a servo bus of its own, and the HTTP handlers of the arm's sliders.  *)
(*                                                                         *)
(* The worker comes to the arm only when the legs' share of the tick has   *)
(* run to its end. It remembers in arm_torque_enabled whether it switched  *)
(* the arm's torque on, and forgets it with every bus that fails, whatever *)
(* the servos do. A handler takes its locks one after the other, and the   *)
(* worker holds none while an arm utility talks to the servos.             *)
(***************************************************************************)
EXTENDS Poses, Integers, Sequences

CONSTANTS
    MaxQueue,   \* bound of the model on queued utilities
    NoServo     \* no servo

VARIABLES
    enabled,    \* arm_control.enabled: is the mode manual?
    halted,     \* is a motion fault latched?
    base,       \* arm_control.base_pose, the zero of the sliders
    target,     \* arm_control.target_pose
    queue,      \* arm_control.pending_actions, as the servos they are for
    step,       \* what the worker does next in its tick
    open,       \* is arm_bus open?
    failed,     \* reopen_arm_bus: is the bus dropped at the end of the arm's share?
    powered,    \* arm_torque_enabled
    held,       \* the servos whose torque really is on
    lapsed,     \* history: was a failure forgotten while servos were held?
    cache,      \* arm_servo_states, private to the worker
    polled,     \* history: did this tick poll the arm?
    shared,     \* the arm's servos in the published TelemetryState
    recent,     \* history: did the tick that published them poll the arm?
    job,        \* the servo of the utility that is running, or none
    seed,       \* the pose the running utility started from
    touched,    \* history: did a handler write since the utility started?
    request     \* the HTTP request in flight: its operation, and the pose it read

armVars == <<base, target, queue>>
linkVars == <<open, failed, powered, held, lapsed>>
pollVars == <<cache, polled>>
sharedVars == <<shared, recent>>
jobVars == <<job, seed, touched>>
workerVars == <<step, linkVars, pollVars, sharedVars, job, seed>>
vars == <<enabled, halted, armVars, step, linkVars, pollVars, sharedVars, jobVars, request>>

Reading == {"capture", "apply", "reset", "sync"}
Operations == Reading \cup {"torque"}
NoRequest == [op |-> "none", pose |-> NoPose]
Steps == {"mode", "legs", "link", "torque", "poll", "utility", "working", "send", "publish"}

TypeOK ==
    /\ {enabled, halted, open, failed, powered} \subseteq BOOLEAN
    /\ {lapsed, polled, recent, touched} \subseteq BOOLEAN
    /\ base \in Pose \cup {NoPose}
    /\ target \in Pose \cup {NoPose}
    /\ queue \in Seq(Servos)
    /\ step \in Steps
    /\ held \subseteq Servos
    /\ cache \in States
    /\ shared \in States
    /\ job \in Servos \cup {NoServo}
    /\ seed \in Pose \cup {NoPose}
    /\ request \in [op : Operations \cup {"none"}, pose : Pose \cup {NoPose}]

\* ArmControlState::for_mode. The servos may hold from an earlier session.
Init ==
    /\ enabled \in BOOLEAN /\ halted = FALSE
    /\ base = NoPose /\ target = NoPose /\ queue = <<>>
    /\ step = "mode"
    /\ open = FALSE /\ failed = FALSE /\ powered = FALSE
    /\ held \in {{}, Servos}
    /\ lapsed = (held # {})
    /\ cache = [s \in Servos |-> Offline] /\ polled = FALSE
    /\ shared = cache /\ recent = FALSE
    /\ job = NoServo /\ seed = NoPose /\ touched = FALSE
    /\ request = NoRequest

(***************************************************************************)
(* The worker                                                              *)
(***************************************************************************)
KeepMode ==
    /\ step = "mode"
    /\ step' = "legs"
    /\ UNCHANGED <<enabled, halted, armVars, linkVars, pollVars, sharedVars, jobVars, request>>

\* sync_arm_mode_state
ForMode(manual) ==
    /\ enabled' = manual
    /\ halted' = FALSE
    /\ base' = NoPose /\ target' = NoPose /\ queue' = <<>>

\* Mutant: the servos are not told that manual mode was left.
ForgetTorque(manual) ==
    /\ step = "mode"
    /\ ~(enabled /\ manual)
    /\ step' = "legs"
    /\ ForMode(manual)
    /\ powered' = FALSE
    /\ UNCHANGED <<open, failed, held, lapsed, pollVars, sharedVars, jobVars, request>>

\* A switch to another mode. (Only manual mode switches the torque on, so one that
\* is not manual always finds it switched off: the arm's share of the tick has a
\* branch for that, which is never taken.)
ChangeMode(manual) ==
    /\ step = "mode"
    /\ ~(enabled /\ manual)
    /\ step' = "legs"
    /\ ForMode(manual)
    /\ IF powered
       THEN powered' = FALSE /\ held' = {} /\ lapsed' = FALSE
       ELSE UNCHANGED <<powered, held, lapsed>>
    /\ UNCHANGED <<open, failed, pollVars, sharedVars, jobVars, request>>

\* ... whose torque-off fails after some servos were told: only logged, and never
\* tried again.
ChangeModeFails(told) ==
    /\ step = "mode"
    /\ enabled /\ powered
    /\ step' = "legs"
    /\ ForMode(FALSE)
    /\ powered' = FALSE
    /\ held' = held \ told
    /\ lapsed' = (held' # {})
    /\ UNCHANGED <<open, failed, pollVars, sharedVars, jobVars, request>>

Publish ==
    /\ shared' = cache
    /\ recent' = polled
    /\ polled' = FALSE
    /\ step' = "mode"

\* The legs' bus does not open, refuses torque or drops: the tick is over, and
\* the arm's telemetry is published as the last tick that came to it left it.
LegsEndTick ==
    /\ step = "legs"
    /\ halted' \in {halted, TRUE}
    /\ Publish
    /\ UNCHANGED <<enabled, armVars, linkVars, cache, jobVars, request>>

LegsPass ==
    /\ step = "legs"
    /\ halted' \in {halted, TRUE}
    /\ step' = "link"
    /\ UNCHANGED <<enabled, armVars, linkVars, pollVars, sharedVars, jobVars, request>>

Linked ==
    /\ step = "link" /\ open
    /\ step' = "torque"
    /\ UNCHANGED <<enabled, halted, armVars, linkVars, pollVars, sharedVars, jobVars, request>>

OpenArm ==
    /\ step = "link" /\ ~open
    /\ step' = "torque"
    /\ open' = TRUE
    /\ powered' = FALSE
    /\ UNCHANGED <<enabled, halted, armVars, failed, held, lapsed, pollVars, sharedVars,
                   jobVars, request>>

OpenArmFails ==
    /\ step = "link" /\ ~open
    /\ step' = "publish"
    /\ UNCHANGED <<enabled, halted, armVars, linkVars, pollVars, sharedVars, jobVars, request>>

TorqueStays ==
    /\ step = "torque"
    /\ ~enabled \/ powered
    /\ step' = "poll"
    /\ UNCHANGED <<enabled, halted, armVars, linkVars, pollVars, sharedVars, jobVars, request>>

EnableTorque ==
    /\ step = "torque"
    /\ enabled /\ ~powered
    /\ step' = "poll"
    /\ powered' = TRUE
    /\ held' = Servos
    /\ lapsed' = FALSE
    /\ UNCHANGED <<enabled, halted, armVars, open, failed, pollVars, sharedVars, jobVars, request>>

\* Some of the servos were told. The tick goes on with the bus it gives up.
EnableTorqueFails(told) ==
    /\ step = "torque"
    /\ enabled /\ ~powered
    /\ step' = "poll"
    /\ failed' = TRUE
    /\ held' = held \cup told
    /\ lapsed' = (held' # {})
    /\ UNCHANGED <<enabled, halted, armVars, open, powered, pollVars, sharedVars, jobVars, request>>

\* What every failure on the arm's bus does.
GiveUp ==
    /\ failed' = TRUE
    /\ powered' = FALSE
    /\ lapsed' = (held # {})
    /\ UNCHANGED <<open, held>>

PollBroken(got) ==
    /\ step = "poll"
    /\ ~Complete(got)
    /\ cache' = got /\ polled' = TRUE
    /\ GiveUp
    /\ step' = "publish"
    /\ UNCHANGED <<enabled, halted, armVars, sharedVars, jobVars, request>>

\* Without every servo, outside manual mode, or under a fault nothing is driven.
PollOnly(got) ==
    /\ step = "poll"
    /\ ~Complete(got) \/ ~enabled \/ halted
    /\ cache' = got /\ polled' = TRUE
    /\ step' = "publish"
    /\ UNCHANGED <<enabled, halted, armVars, linkVars, sharedVars, jobVars, request>>

\* Mutant: a latched fault does not keep the arm still.
PollFaulted(got) ==
    /\ step = "poll"
    /\ Complete(got) /\ enabled
    /\ cache' = got /\ polled' = TRUE
    /\ IF base # NoPose /\ target # NoPose
       THEN UNCHANGED <<base, target>>
       ELSE base' = got /\ target' = got
    /\ step' = "utility"
    /\ UNCHANGED <<enabled, halted, queue, linkVars, sharedVars, jobVars, request>>

\* ensure_arm_reference_pose
PollReady(got) ==
    /\ step = "poll"
    /\ Complete(got) /\ enabled /\ ~halted
    /\ cache' = got /\ polled' = TRUE
    /\ IF base # NoPose /\ target # NoPose
       THEN UNCHANGED <<base, target>>
       ELSE base' = got /\ target' = got
    /\ step' = "utility"
    /\ UNCHANGED <<enabled, halted, queue, linkVars, sharedVars, jobVars, request>>

NoUtility ==
    /\ step = "utility" /\ queue = <<>>
    /\ step' = "send"
    /\ UNCHANGED <<enabled, halted, armVars, linkVars, pollVars, sharedVars, jobVars, request>>

\* Mutant: the copy is taken from the zero pose.
StartFromBase ==
    /\ step = "utility" /\ queue # <<>>
    /\ step' = "working"
    /\ job' = Head(queue)
    /\ queue' = Tail(queue)
    /\ seed' = OrElse(base, target)
    /\ touched' = FALSE
    /\ UNCHANGED <<enabled, halted, base, target, linkVars, pollVars, sharedVars, request>>

\* process_pending_arm_action, under the lock: pop, and copy the pose.
StartUtility ==
    /\ step = "utility" /\ queue # <<>>
    /\ step' = "working"
    /\ job' = Head(queue)
    /\ queue' = Tail(queue)
    /\ seed' = OrElse(target, base)
    /\ touched' = FALSE
    /\ UNCHANGED <<enabled, halted, base, target, linkVars, pollVars, sharedVars, request>>

\* ... and under the lock again once the servo was read and limited: the whole
\* target is the copy with the live position.
FinishUtility(live) ==
    /\ step = "working"
    /\ step' = "send"
    /\ target' = [OrElse(seed, live) EXCEPT ![job] = live[job]]
    /\ base' = OrElse(base, target')
    /\ job' = NoServo /\ seed' = NoPose /\ touched' = FALSE
    /\ UNCHANGED <<enabled, halted, queue, linkVars, pollVars, sharedVars, request>>

\* The utility is gone from the queue, and so is the bus.
UtilityFails ==
    /\ step = "working"
    /\ step' = "send"
    /\ GiveUp
    /\ job' = NoServo /\ seed' = NoPose /\ touched' = FALSE
    /\ UNCHANGED <<enabled, halted, armVars, pollVars, sharedVars, request>>

Send ==
    /\ step = "send"
    /\ ~failed /\ target # NoPose
    /\ step' = "publish"
    /\ UNCHANGED <<enabled, halted, armVars, linkVars, pollVars, sharedVars, jobVars, request>>

SendFails ==
    /\ step = "send"
    /\ ~failed /\ target # NoPose
    /\ GiveUp
    /\ step' = "publish"
    /\ UNCHANGED <<enabled, halted, armVars, pollVars, sharedVars, jobVars, request>>

SkipSend ==
    /\ step = "send"
    /\ failed
    /\ step' = "publish"
    /\ UNCHANGED <<enabled, halted, armVars, linkVars, pollVars, sharedVars, jobVars, request>>

\* A bus that failed is closed; the legs' target is sent; the tick is published.
EndTick ==
    /\ step = "publish"
    /\ open' = (open /\ ~failed)
    /\ failed' = FALSE
    /\ halted' \in {halted, TRUE}
    /\ Publish
    /\ UNCHANGED <<enabled, armVars, powered, held, lapsed, cache, jobVars, request>>

Worker ==
    \/ KeepMode
    \/ \E manual \in BOOLEAN : ChangeMode(manual)
    \/ \E told \in SUBSET Servos : ChangeModeFails(told) \/ EnableTorqueFails(told)
    \/ LegsEndTick \/ LegsPass
    \/ Linked \/ OpenArm \/ OpenArmFails
    \/ TorqueStays \/ EnableTorque
    \/ \E got \in States : PollBroken(got) \/ PollOnly(got) \/ PollReady(got)
    \/ NoUtility \/ StartUtility \/ UtilityFails
    \/ \E live \in Pose : FinishUtility(live)
    \/ Send \/ SendFails \/ SkipSend
    \/ EndTick

(***************************************************************************)
(* The handlers                                                            *)
(***************************************************************************)
\* ensure_arm_enabled: the read lock is gone when the handler goes on.
CheckEnabled(op) ==
    /\ request = NoRequest
    /\ enabled
    /\ request' = [op |-> op, pose |-> NoPose]
    /\ UNCHANGED <<enabled, halted, armVars, workerVars, touched>>

\* Mutant: the pose is taken from the servos that have telemetry.
ReadSnapshotAnyway ==
    /\ request.op \in Reading
    /\ request.pose = NoPose
    /\ request' = [request EXCEPT !.pose = shared]
    /\ UNCHANGED <<enabled, halted, armVars, workerVars, touched>>

\* current_arm_pose_from_shared_snapshot: the published pose, or a refusal.
ReadSnapshot ==
    /\ request.op \in Reading
    /\ request.pose = NoPose
    /\ request' = IF Complete(shared) THEN [request EXCEPT !.pose = shared]
                                      ELSE NoRequest
    /\ UNCHANGED <<enabled, halted, armVars, workerVars, touched>>

\* A joint the profile does not know: nothing of the request is kept.
Refuse ==
    /\ request.op \in {"apply", "torque"}
    /\ request' = NoRequest
    /\ UNCHANGED <<enabled, halted, armVars, workerVars, touched>>

Answer(op) ==
    /\ request.op = op
    /\ request.pose # NoPose
    /\ request' = NoRequest
    /\ touched' = (job # NoServo)
    /\ UNCHANGED <<enabled, halted, queue, workerVars>>

\* api_arm_capture
Capture ==
    /\ Answer("capture")
    /\ base' = request.pose
    /\ target' = request.pose

\* api_arm_apply, and api_arm_jump with one joint: the joints that are named move
\* relative to the zero, within their reach.
Apply(joints, goals) ==
    /\ Answer("apply")
    /\ base' = OrElse(base, request.pose)
    /\ target' = [s \in Servos |-> IF s \in joints THEN goals[s] ELSE OrElse(target, base')[s]]

\* api_arm_reset
Reset ==
    /\ Answer("reset")
    /\ base' = OrElse(base, request.pose)
    /\ target' = base'

\* api_arm_sync_current
SyncCurrent ==
    /\ Answer("sync")
    /\ base' = OrElse(base, request.pose)
    /\ target' = request.pose

\* api_arm_torque_limit only queues.
QueueUtility(joint) ==
    /\ request.op = "torque"
    /\ Len(queue) < MaxQueue
    /\ queue' = Append(queue, joint)
    /\ request' = NoRequest
    /\ UNCHANGED <<enabled, halted, base, target, workerVars, touched>>

Handlers ==
    \/ \E op \in Operations : CheckEnabled(op)
    \/ ReadSnapshot
    \/ Refuse
    \/ Capture
    \/ \E joints \in SUBSET Servos, goals \in Pose : Apply(joints, goals)
    \/ Reset
    \/ SyncCurrent
    \/ \E joint \in Servos : QueueUtility(joint)

Next == Worker \/ Handlers

Spec == Init /\ [][Next]_vars

(***************************************************************************)
(* What makes it correct                                                   *)
(***************************************************************************)
\* The zero and the target of the sliders come and go together, whatever
\* handlers, utilities and mode switches came in between: no slider of the
\* dashboard shows a target that has no zero (arm_joint_values would call it 0).
ZeroAndTarget == (base # NoPose) <=> (target # NoPose)

\* Where the target is sent (sync_write_positions, which no servo answers), the
\* mode is manual, no fault is latched, every arm servo answered in this very
\* tick, and torque was switched on over this bus with nothing failing since.
SendsWhenReady ==
    step = "send" /\ ~failed
      => /\ target # NoPose
         /\ enabled /\ ~halted
         /\ open /\ powered
         /\ polled /\ Complete(cache)

\* What the worker remembers of the arm's torque is true: it never believes
\* servos held that are not, and never outside manual mode, where nobody would
\* release them. What it forgot a failure made it forget: without one, servos hold
\* only while it knows.
TorqueRemembered ==
    /\ powered => enabled /\ open /\ held = Servos
    /\ ~powered /\ ~lapsed => held = {}

\* A utility moves the target of its own servo and of no other, as long as no
\* handler answers while it runs (the code restores the copy of its start).
MovesItsServo ==
    job # NoServo /\ job' = NoServo /\ ~touched /\ target' # target
        => \A s \in Servos \ {job} : target'[s] = target[s]
UtilityMovesItsServo == [][MovesItsServo]_vars

\* What the handlers' refusal says: fresh feedback from all arm servos is
\* required before arm actions run. (A telemetry snapshot published by a tick
\* that never came to the arm repeats old feedback, and is taken for fresh.)
FreshFeedback ==
    [][request.pose = NoPose /\ request'.pose # NoPose => recent]_vars

================================================================================
