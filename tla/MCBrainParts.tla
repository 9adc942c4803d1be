------------------------------ MODULE MCBrainParts ------------------------------
(***************************************************************************)
(* A bounded instance of BrainParts for TLC.                               *)
(***************************************************************************)
EXTENDS BrainParts, TLC

CONSTANTS left, right, here, there, first, second

TwoServos == {left, right}
TwoPositions == {here, there}
Singles == {{left}, {right}}
TwoSlots == {first, second}
Either == Permutations(TwoPositions) \cup Permutations(TwoServos) \cup Permutations(TwoSlots)

\* Feet at the corners of a square; a pitch that keeps all of them in reach, and a
\* pitch and a roll together that do not.
Square == {<<1, 1>>, <<1, -1>>, <<-1, 1>>, <<-1, -1>>}
Low == -2
SomeAngles == {-1, 0, 2}

================================================================================
