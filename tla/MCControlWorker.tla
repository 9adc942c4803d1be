---------------------------- MODULE MCControlWorker ----------------------------
(***************************************************************************)
(* Bounded instances of ControlWorker for TLC: the mode and reading sets   *)
(* the configurations choose from.                                         *)
(***************************************************************************)
EXTENDS ControlWorkerGate

ManualAndStand == {"manual", "stand"}
EveryMode == {"telemetry", "manual", "stand"}
MovingModes == {"stand", "walk"}
TelemetryAndStand == {"telemetry", "stand"}
OnlyOk == {"ok"}
OkAndHot == {"ok", "hot"}
EveryReading == {"ok", "low", "hot"}
OnlyLevel == {"level"}
LevelAndTilted == {"level", "tilted"}

================================================================================
