--------------------------- MODULE ControlWorkerGate ---------------------------
(***************************************************************************)
(* The control worker implements MotionGate: the gate is read off the      *)
(* fault latch and armed_at, "measured" off the origin of the hold pose.   *)
(***************************************************************************)
EXTENDS ControlWorker

GateOf ==
    CASE fault # NoFault -> "halted"
      [] fault = NoFault /\ armed -> "moving"
      [] OTHER -> "waiting"

Gate == INSTANCE MotionGate WITH
            gate <- GateOf,
            measured <- hold \in {"measured", "computed"}

\* Every behaviour of the worker, with its failing calls and its mode commands,
\* is one of MotionGate: in particular unfaulted motion is never sent back to
\* waiting, and the fallback pose is never sent after a pose was measured.
ImplementsMotionGate == Gate!GateSpec

================================================================================
