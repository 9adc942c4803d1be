----------------------------- MODULE ManualControl -----------------------------
(***************************************************************************)
(* Manual control in arachno-brain: the base and target poses and the      *)
(* utility queue of ManualControlState, shared between the control worker  *)
(* (which resets them, arms at them, runs the utilities and sends the      *)
(* target) and the HTTP handlers behind the dashboard's sliders.           *)
(*                                                                         *)
(* A handler takes its locks one after the other: it reads `enabled`, then *)
(* the published telemetry, then writes. The worker lets go of the lock    *)
(* while a utility talks to the servos, which takes a quarter of a second  *)
(* and more.                                                               *)
(***************************************************************************)
EXTENDS Poses, Integers, Sequences, FiniteSets

CONSTANTS
    Groups,     \* the servo groups the dashboard can select, none of them empty
    MaxQueue    \* bound of the model on queued utilities

VARIABLES
    enabled,    \* manual.enabled: is the mode manual?
    armed,      \* is manual motion armed?
    halted,     \* is a fault latched?
    base,       \* manual.base_pose, the zero of the sliders
    target,     \* manual.target_pose
    queue,      \* manual.pending_actions, as the groups they are for
    step,       \* what the worker does next in its tick
    cache,      \* servo_states, private to the worker
    shared,     \* the servos of the published TelemetryState
    job,        \* the group of the utility that is running, or none
    seed,       \* the pose the running utility started from
    request     \* the HTTP request in flight: its operation, and the pose it read

manualVars == <<base, target, queue>>
motionVars == <<enabled, armed, halted>>
workerVars == <<step, cache, shared, job, seed>>
vars == <<motionVars, manualVars, workerVars, request>>

Operations == {"capture", "apply", "reset", "utility"}
NoJob == {}
NoRequest == [op |-> "none", pose |-> NoPose]
Steps == {"mode", "poll", "arm", "utility", "working", "command"}

TypeOK ==
    /\ enabled \in BOOLEAN /\ armed \in BOOLEAN /\ halted \in BOOLEAN
    /\ base \in Pose \cup {NoPose}
    /\ target \in Pose \cup {NoPose}
    /\ queue \in Seq(Groups)
    /\ step \in Steps
    /\ cache \in States
    /\ shared \in States
    /\ job \in Groups \cup {NoJob}
    /\ seed \in Pose \cup {NoPose}
    /\ request \in [op : Operations \cup {"none"}, pose : Pose \cup {NoPose}]

Init ==
    /\ enabled \in BOOLEAN
    /\ armed = FALSE
    /\ halted = FALSE
    /\ base = NoPose
    /\ target = NoPose
    /\ queue = <<>>
    /\ step = "mode"
    /\ cache = [s \in Servos |-> Offline]
    /\ shared = cache
    /\ job = NoJob
    /\ seed = NoPose
    /\ request = NoRequest

(***************************************************************************)
(* The worker                                                              *)
(***************************************************************************)
KeepMode ==
    /\ step = "mode"
    /\ step' = "poll"
    /\ UNCHANGED <<motionVars, manualVars, cache, shared, job, seed, request>>

\* sync_manual_mode_state, on a switch to another mode.
ChangeMode(manual) ==
    /\ step = "mode"
    /\ ~(enabled /\ manual)
    /\ step' = "poll"
    /\ enabled' = manual
    /\ armed' = FALSE
    /\ halted' = FALSE
    /\ base' = NoPose
    /\ target' = NoPose
    /\ queue' = <<>>
    /\ UNCHANGED <<cache, shared, job, seed, request>>

\* Until manual motion is armed all servos are polled; then a window of them.
Poll(window, got) ==
    /\ step = "poll"
    /\ enabled /\ ~armed => window = Servos
    /\ cache' = Merge(cache, got, window)
    /\ step' = "arm"
    /\ UNCHANGED <<motionVars, manualVars, shared, job, seed, request>>

\* A bus that is lost ends the tick and halts motion, and once it is open again
\* motion is disarmed before anything else; one that does not open, or refuses
\* torque, only disarms. Each of these ends publishes the telemetry.
BusLost ==
    /\ step \in {"poll", "working", "command"}
    /\ step' = "mode"
    /\ job' = NoJob
    /\ seed' = NoPose
    /\ armed' = FALSE
    /\ halted' \in IF step = "poll" /\ ~armed THEN {halted, TRUE} ELSE {TRUE}
    /\ \E gone \in SUBSET Servos :
         /\ cache' = [s \in Servos |-> IF s \in gone THEN Offline ELSE cache[s]]
         /\ step # "poll" => gone = {}
    /\ shared' = cache'
    /\ UNCHANGED <<enabled, manualVars, request>>

MayArm == enabled /\ ~armed /\ Complete(cache)

\* Mutant: motion is armed without a reference pose for the sliders.
ArmWithoutReference ==
    /\ step = "arm"
    /\ MayArm
    /\ step' = "utility"
    /\ armed' = TRUE
    /\ UNCHANGED <<enabled, halted, manualVars, cache, shared, job, seed, request>>

\* ensure_manual_reference_pose, then MotionRuntime::arm.
Arm ==
    /\ step = "arm"
    /\ MayArm
    /\ step' = "utility"
    /\ armed' = TRUE
    /\ target' = OrElse(target, cache)
    /\ UNCHANGED <<enabled, halted, base, queue, cache, shared, job, seed, request>>

\* Nothing to arm, or the torque limit was not restored, or the safety check
\* that follows trips.
GoOn ==
    /\ step = "arm"
    /\ step' = "utility"
    /\ halted' \in {halted, TRUE}
    /\ UNCHANGED <<enabled, armed, manualVars, cache, shared, job, seed, request>>

UtilityDue == enabled /\ ~halted /\ queue # <<>>

NoUtility ==
    /\ step = "utility"
    /\ ~UtilityDue
    /\ step' = "command"
    /\ UNCHANGED <<motionVars, manualVars, cache, shared, job, seed, request>>

\* process_pending_manual_action, under the lock: pop, and copy the pose.
StartUtility ==
    /\ step = "utility"
    /\ UtilityDue
    /\ step' = "working"
    /\ job' = Head(queue)
    /\ queue' = Tail(queue)
    /\ seed' = OrElse(target, base)
    /\ UNCHANGED <<motionVars, base, target, cache, shared, request>>

\* ... and after the servos were read and limited, under the lock again: the
\* whole target is replaced by the copy, with the live positions of the group.
\* Without a copy all of it was read from the servos.
FinishUtility(live) ==
    /\ step = "working"
    /\ step' = "command"
    /\ target' = Merge(OrElse(seed, live), live, job)
    /\ job' = NoJob
    /\ seed' = NoPose
    /\ UNCHANGED <<motionVars, base, queue, cache, shared, request>>

\* MotionRuntime::commands reads the target and sends it; the tick ends by
\* publishing the telemetry.
EndTick ==
    /\ step = "command"
    /\ step' = "mode"
    /\ shared' = cache
    /\ UNCHANGED <<motionVars, manualVars, cache, job, seed, request>>

Worker ==
    \/ KeepMode
    \/ \E manual \in BOOLEAN : ChangeMode(manual)
    \/ \E window \in SUBSET Servos \ {{}} :
         \E got \in States : Poll(window, got)
    \/ BusLost
    \/ Arm
    \/ GoOn
    \/ NoUtility
    \/ StartUtility
    \/ \E live \in Pose : FinishUtility(live)
    \/ EndTick

(***************************************************************************)
(* The handlers                                                            *)
(***************************************************************************)
\* ensure_manual_enabled: the read lock is gone when the handler goes on.
CheckEnabled(op) ==
    /\ request = NoRequest
    /\ enabled
    /\ request' = [op |-> op, pose |-> NoPose]
    /\ UNCHANGED <<motionVars, manualVars, workerVars>>

\* Mutant: the pose is taken from the servos that have telemetry.
ReadSnapshotAnyway ==
    /\ request.op \in {"capture", "apply", "reset"}
    /\ request.pose = NoPose
    /\ request' = [request EXCEPT !.pose = shared]
    /\ UNCHANGED <<motionVars, manualVars, workerVars>>

\* current_pose_from_shared_snapshot: the pose of the published telemetry, or
\* the request is refused.
ReadSnapshot ==
    /\ request.op \in {"capture", "apply", "reset"}
    /\ request.pose = NoPose
    /\ request' = IF Complete(shared) THEN [request EXCEPT !.pose = shared]
                                      ELSE NoRequest
    /\ UNCHANGED <<motionVars, manualVars, workerVars>>

Ready(op) == request.op = op /\ request.pose # NoPose

\* api_manual_capture
Capture ==
    /\ Ready("capture")
    /\ base' = request.pose
    /\ target' = request.pose
    /\ request' = NoRequest
    /\ UNCHANGED <<motionVars, queue, workerVars>>

\* api_manual_apply: the sliders of a group move its servos of the target. What
\* api_manual_jump does differs in how the new positions are computed.
Apply(group, goals) ==
    /\ Ready("apply")
    /\ target' = Merge(OrElse(target, request.pose), goals, group)
    /\ request' = NoRequest
    /\ UNCHANGED <<motionVars, base, queue, workerVars>>

\* api_manual_reset without a group: back to the zero, or to the pose that was
\* read if there is none, which is the zero from now on.
Reset ==
    /\ Ready("reset")
    /\ base' = OrElse(base, request.pose)
    /\ target' = base'
    /\ request' = NoRequest
    /\ UNCHANGED <<motionVars, queue, workerVars>>

\* ... with a group: only its servos go back.
ResetGroup(group) ==
    /\ Ready("reset")
    /\ base' = OrElse(base, request.pose)
    /\ target' = Merge(OrElse(target, base'), base', group)
    /\ request' = NoRequest
    /\ UNCHANGED <<motionVars, queue, workerVars>>

\* ... with a group the brain does not know: refused, but the zero is set.
RefuseGroup ==
    /\ Ready("reset")
    /\ base' = OrElse(base, request.pose)
    /\ request' = NoRequest
    /\ UNCHANGED <<motionVars, target, queue, workerVars>>

\* api_manual_torque_limit and api_manual_sync_current only queue.
QueueUtility(group) ==
    /\ request.op = "utility"
    /\ Len(queue) < MaxQueue
    /\ queue' = Append(queue, group)
    /\ request' = NoRequest
    /\ UNCHANGED <<motionVars, base, target, workerVars>>

Handlers ==
    \/ \E op \in Operations : CheckEnabled(op)
    \/ ReadSnapshot
    \/ Capture
    \/ \E group \in Groups, goals \in Pose : Apply(group, goals)
    \/ Reset
    \/ \E group \in Groups : ResetGroup(group)
    \/ RefuseGroup
    \/ \E group \in Groups : QueueUtility(group)

Next == Worker \/ Handlers

Spec == Init /\ [][Next]_vars

(***************************************************************************)
(* What makes it correct                                                   *)
(***************************************************************************)
\* While manual motion is armed there is a target to send, whatever handlers,
\* utilities and lost buses came in between: MotionRuntime::commands never falls
\* back to the pose motion was armed at, which would undo every slider.
ArmedHasTarget == armed => enabled /\ target # NoPose

\* What README.md says of the utilities: they sync the selected group's target.
\* So the rest of the target is what it was when the utility's result arrives
\* (the code restores the copy taken at the start: a slider moved meanwhile jumps
\* back, although its request was answered with success).
UtilityKeepsOthers ==
    [][job # NoJob /\ step' = "command" /\ target # NoPose
         => \A s \in Servos \ job : target'[s] = target[s]]_vars

================================================================================
