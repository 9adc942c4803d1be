------------------------------ MODULE TiltedStand ------------------------------
(***************************************************************************)
(* The tilted stand of arachno-brain: the sliders' pitch and roll, their   *)
(* handlers, and the stance the worker commands: for each leg the height   *)
(* of its foot in the body's frame. The body tilts over feet that stay     *)
(* where they stood when the mode was armed; a leg whose foot would be out *)
(* of reach is left at that stance.                                        *)
(*                                                                         *)
(* A link that is lost disarms the motion, and the next feedback of all    *)
(* servos arms it again, in the same mode and with the sliders as they     *)
(* were, at the stance that is measured then.                              *)
(***************************************************************************)
EXTENDS Integers, FiniteSets

CONSTANTS
    Feet,      \* where feet stand: pairs of a place forward and one to the left
    Limit,     \* TILTED_STAND_PITCH_LIMIT_DEG, TILTED_STAND_ROLL_LIMIT_DEG
    Lowest, Highest, \* the heights a leg reaches
    StartPitch, StartRoll, \* --tilted-stand-pitch-deg, --tilted-stand-roll-deg
    Asked,     \* angles that requests ask for
    NoStance

Heights == Lowest .. Highest
Stances == [Feet -> Heights]

VARIABLES
    enabled,     \* TiltedStandState.enabled: is the mode tilted-stand?
    pitch, roll,
    request,     \* a request that was let in, and has not written yet
    base,        \* initial_pose
    stance,      \* the stance commanded last, which the robot takes
    stale,       \* history: did a request write that an earlier session let in?
    crossed      \* history: was the mode switched since the request was let in?

sliders == <<pitch, roll>>
vars == <<enabled, sliders, request, base, stance, stale, crossed>>

Requests == {"apply", "reset"}

Range(angle) == -angle .. angle

TypeOK ==
    /\ {enabled, stale, crossed} \subseteq BOOLEAN
    /\ pitch \in Range(Limit) /\ roll \in Range(Limit)
    /\ request \in Requests \cup {"none"}
    /\ base \in Stances \cup {NoStance}
    /\ stance \in Stances

Clamp(low, i, high) == IF i < low THEN low ELSE IF i > high THEN high ELSE i

\* clamp_tilted_stand_pitch_deg, clamp_tilted_stand_roll_deg
Clamped(angle) == Clamp(-Limit, angle, Limit)

(***************************************************************************)
(* The stance                                                              *)
(***************************************************************************)
\* How far the body rises over a foot; the feet stand around their centroid, and
\* a tangent is the angle.
Rise(foot, p, r) == foot[1] * p + foot[2] * r

Wanted(from, foot, p, r) == from[foot] - Rise(foot, p, r)

\* tilted_stand_pose, foot_to_angles_2d
Tilted(from, p, r) ==
    [foot \in Feet |-> IF Wanted(from, foot, p, r) \in Heights
                       THEN Wanted(from, foot, p, r) ELSE from[foot]]

Init ==
    /\ enabled \in BOOLEAN
    /\ pitch = Clamped(StartPitch) /\ roll = Clamped(StartRoll)
    /\ request = "none"
    /\ base = NoStance
    /\ stance \in {[foot \in Feet |-> 0], [foot \in Feet |-> Rise(foot, 1, 0)]}
    /\ stale = FALSE /\ crossed = FALSE

(***************************************************************************)
(* The worker                                                              *)
(***************************************************************************)
\* sync_tilted_stand_mode_state, with a new MotionRuntime.
ChangeMode(tilted) ==
    /\ enabled' = tilted
    /\ pitch' = Clamped(StartPitch) /\ roll' = Clamped(StartRoll)
    /\ base' = NoStance
    /\ stale' = FALSE
    /\ crossed' = (request # "none")
    /\ UNCHANGED <<request, stance>>

\* arm_motion_from_current_pose
Arm ==
    /\ enabled /\ base = NoStance
    /\ base' = stance
    /\ UNCHANGED <<enabled, sliders, request, stance, stale, crossed>>

\* Mutant: the tilt is added to the stance that was commanded last.
CommandOn ==
    /\ enabled /\ base # NoStance
    /\ stance' = Tilted(stance, pitch, roll)
    /\ UNCHANGED <<enabled, sliders, request, base, stale, crossed>>

\* MotionRuntime::commands reads the sliders under their lock.
Command ==
    /\ enabled /\ base # NoStance
    /\ stance' = Tilted(base, pitch, roll)
    /\ UNCHANGED <<enabled, sliders, request, base, stale, crossed>>

\* disarm
LinkLost ==
    /\ base # NoStance
    /\ base' = NoStance
    /\ UNCHANGED <<enabled, sliders, request, stance, stale, crossed>>

\* In another mode, and without torque, the robot comes to stand level.
Settle ==
    /\ ~enabled
    /\ stance' = [foot \in Feet |-> 0]
    /\ UNCHANGED <<enabled, sliders, request, base, stale, crossed>>

(***************************************************************************)
(* The handlers                                                            *)
(***************************************************************************)
\* ensure_tilted_stand_enabled: the read lock is gone before the write lock is
\* taken.
LetIn(op) ==
    /\ enabled /\ request = "none"
    /\ request' = op
    /\ crossed' = FALSE
    /\ UNCHANGED <<enabled, sliders, base, stance, stale>>

Wrote(op) ==
    /\ request = op
    /\ request' = "none"
    /\ stale' = (stale \/ crossed)
    /\ crossed' = FALSE
    /\ UNCHANGED <<enabled, base, stance>>

\* api_tilted_stand_apply
Apply(p, r) ==
    /\ Wrote("apply")
    /\ pitch' = Clamped(p) /\ roll' = Clamped(r)

\* api_tilted_stand_reset
Reset ==
    /\ Wrote("reset")
    /\ pitch' = 0 /\ roll' = 0

Next ==
    \/ \E tilted \in BOOLEAN : ChangeMode(tilted)
    \/ Arm \/ Command \/ LinkLost \/ Settle
    \/ \E op \in Requests : LetIn(op)
    \/ \E p, r \in Asked : Apply(p, r)
    \/ Reset

Spec == Init /\ [][Next]_vars

(***************************************************************************)
(* What makes it correct                                                   *)
(***************************************************************************)
\* However the sliders went, the tilt does not add up while the motion stays armed:
\* each leg stands as the sliders say over the captured stance, with the sliders
\* at level just there; or it stays, constrained, at that stance.
TiltsOrStays ==
    enabled /\ base # NoStance /\ stance' # stance =>
        \A foot \in Feet : stance'[foot] \in {base[foot], Wanted(base, foot, pitch, roll)}

\* Leaving the mode forgets the sliders: they are back where the program was
\* started with, unless a request that was let in before wrote afterwards.
SlidersStartOver ==
    ~enabled /\ ~stale => pitch = Clamped(StartPitch) /\ roll = Clamped(StartRoll)

(***************************************************************************)
(* The inductive invariant the proofs rest on                              *)
(***************************************************************************)
\* Outside the mode a request can only be one that the mode was left under.
LateIsCrossed == ~enabled /\ request # "none" => crossed

TiltInv == TypeOK /\ LateIsCrossed /\ SlidersStartOver

================================================================================
