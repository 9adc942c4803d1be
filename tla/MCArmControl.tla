------------------------------ MODULE MCArmControl ------------------------------
(***************************************************************************)
(* Bounded instances of ArmControl for TLC.                                *)
(***************************************************************************)
EXTENDS ArmControl

CONSTANTS left, right, here, there

TwoServos == {left, right}
TwoPositions == {here, there}

================================================================================
