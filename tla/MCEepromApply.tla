----------------------------- MODULE MCEepromApply -----------------------------
(***************************************************************************)
(* Bounded instances of EepromApply for TLC.                               *)
(***************************************************************************)
EXTENDS EepromApply

================================================================================
