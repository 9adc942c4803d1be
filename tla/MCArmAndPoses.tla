------------------------------ MODULE MCArmAndPoses ------------------------------
(***************************************************************************)
(* A bounded instance of ArmAndPoses for TLC: two arm servos and queued    *)
(* utilities, two configurations, ticks on time and late, one edit of the  *)
(* calibration, and three poses to start from: that of an earlier motion,  *)
(* and the start of a stand-up that was interrupted.                       *)
(***************************************************************************)
EXTENDS ArmAndPoses, TLC

CONSTANTS left, right, here, there

TwoServos == {left, right}
TwoPositions == {here, there}
Either == Permutations(TwoPositions) \cup Permutations(TwoServos)

OnTimeOrLate == {1, 5}

Configured ==
    {[standUp |-> 20, blend |-> 0, walk |-> 20],
     [standUp |-> 40, blend |-> 30, walk |-> NoWalk]}

Moved == {0, 3}

\* A pose in ticks from the middle of the range, 24, mirrored on the right.
Mirrored(coxa, femur, tibia) ==
    [leg \in {"left", "right"} \X {"front", "middle", "rear"} |->
        IF leg[1] = "left" THEN [coxa |-> 24 + coxa, femur |-> 24 + femur, tibia |-> 24 + tibia]
                           ELSE [coxa |-> 24 - coxa, femur |-> 24 - femur, tibia |-> 24 - tibia]]

\* Lying, standing, and lying with the femurs lifted as far as they go. (Written as
\* numbers so that TLC evaluates them once.)
SomeLives == {Mirrored(0, 20, -4), Mirrored(6, -4, 8), Mirrored(0, 24, -4)}

================================================================================
