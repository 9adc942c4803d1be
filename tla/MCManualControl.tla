---------------------------- MODULE MCManualControl ----------------------------
(***************************************************************************)
(* Bounded instances of ManualControl for TLC.                             *)
(***************************************************************************)
EXTENDS ManualControl, TLC

CONSTANTS left, right, here, there

TwoServos == {left, right}
TwoPositions == {here, there}
Singles == {{left}, {right}}
Either == Permutations(TwoPositions)

================================================================================
