-------------------------------- MODULE MCDevices --------------------------------
(***************************************************************************)
(* Devices in one bounded instance for TLC.                                *)
(***************************************************************************)
EXTENDS Devices

\* Data that can pass for any part of a header.
AnyData == {0, 1, 2, 5, SYNC_0, SYNC_1}
AnyNoise == {0, 1, 2, 3, SYNC_0, SYNC_1}

================================================================================
