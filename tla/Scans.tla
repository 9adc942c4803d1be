---------------------------------- MODULE Scans ----------------------------------
(***************************************************************************)
(* The two scans of arachno-calibrate on one robot: each is started by     *)
(* hand, any number of times and in any order, on what the one before it   *)
(* left in the servos, and may be killed between any two calls.            *)
(***************************************************************************)
EXTENDS WorkspaceScan

vars == <<registers, scanVars>>

TypeOK ==
    /\ RegistersTypeOK
    /\ at \in RangeSteps \cup WorkspaceSteps \cup {"idle"}
    /\ stage \in 1 .. Len(Stages) \cup Legs
    /\ at \in RangeSteps => stage \in 1 .. Len(Stages)
    /\ at \in WorkspaceSteps => stage \in Legs
    /\ failed \in BOOLEAN
    /\ result \in {"none", "ok", "error"}

Init ==
    /\ RegistersInit
    /\ at = "idle"
    /\ stage = 1
    /\ failed = FALSE
    /\ result = "none"

ScanKilled ==
    /\ at # "idle"
    /\ at' = "idle"
    /\ result' = "error"
    /\ UNCHANGED <<registers, stage, failed>>

Next ==
    \/ StartRanges
    \/ StartWorkspace
    \/ \E ok \in BOOLEAN : RangeCall(ok) \/ WorkspaceCall(ok)
    \/ ScanKilled

Spec == Init /\ [][Next]_vars

(***************************************************************************)
(* What makes the scans safe                                               *)
(***************************************************************************)
\* A servo is driven against an end of its travel only at the sensing limit,
\* whichever call failed and whatever an earlier scan left behind: no limit is
\* ever raised over a goal at the end (the sync inside
\* set_verified_torque_limit_on_current_position_for_ids).
PushesAtLowLimit ==
    \A s \in Servos : goal[s] = "end" => limit[s] = "low"

\* Torque comes on only at a servo whose goal is its own position: nothing jumps
\* when a scan starts or takes a group back after its sweeps.
ComesOnHere == \A s \in Servos : torque'[s] /\ ~torque[s] => goal'[s] = "here"
TorqueOnHere == [][ComesOnHere]_vars

\* While the workspace of a leg is sensed the other legs hold stance at the
\* sensing limit, although windows of earlier legs were opened and closed.
OnlyMovedLegIsStrong ==
    at \in WorkspaceSteps \ {"w-on", "w-limits"} =>
        \A s \in Servos : limit[s] # "low" => s \in MovedServos

\* Between the sweeps and until the group is held again its servos are either
\* without torque or at rest where they are: the limit is never high on a goal
\* the group still strives for.
RaisedAtRest ==
    at = "hold" => \A s \in Active : ~torque[s] /\ goal[s] = "here" /\ limit[s] = "high"

\* A range scan that reports success leaves every servo with torque and with the
\* moving limit, although the outcome of its final restore is not looked at.
OkMeansHeld ==
    at = "cleanup" /\ ~failed => \A s \in Servos : torque[s] /\ limit[s] = "high"

(***************************************************************************)
(* The inductive invariant the proofs rest on                              *)
(***************************************************************************)
Strong(ids) == \A s \in ids : limit[s] = "high"
Held(ids) == \A s \in ids : torque[s]

\* A probed servo was given the sensing limit.
ProbedIsWeak ==
    /\ at \in {"sweep up", "sweep down"} => \A s \in Active : limit[s] = "low"
    /\ at = "probe" => \A s \in ProbedServo : limit[s] = "low"

\* A group that is being raised was let go of.
RaisedWithoutTorque == at = "raise" => \A s \in Active : ~torque[s]

\* Outside its sensing a group is held at the moving limit.
OthersHeld ==
    /\ at \in {"lay-down", "read", "lower", "place", "report"} => Held(Servos) /\ Strong(Servos)
    /\ at \in {"sweep up", "sweep down", "release"} => Held(Servos) /\ Strong(Servos \ Active)
    /\ at \in {"raise", "hold"} => Held(Servos \ Active) /\ Strong(Servos \ Active)
    /\ at \in {"restore", "cleanup"} /\ ~failed => Held(Servos) /\ Strong(Servos)
    /\ at = "limits" => Held(Servos)

ScanInv ==
    /\ PushesAtLowLimit
    /\ ProbedIsWeak
    /\ RaisedWithoutTorque
    /\ RaisedAtRest
    /\ OthersHeld
    /\ OnlyMovedLegIsStrong

================================================================================
