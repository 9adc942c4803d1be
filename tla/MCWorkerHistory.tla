---------------------------- MODULE MCWorkerHistory ----------------------------
(***************************************************************************)
(* Bounded instances of WorkerHistory for TLC.                             *)
(***************************************************************************)
EXTENDS WorkerHistory

Standing == {"stand"}
OkAndLow == {"ok", "low"}
OnlyLevel == {"level"}

================================================================================
