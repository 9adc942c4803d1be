----------------------------- MODULE MCImuLink -----------------------------
(* Small instances of ImuLink: payloads of 5, 3 and 2 bytes. *)
EXTENDS ImuLink

\* Data that never looks like the start of a frame.
PlainData == {0, 1, 2}
\* Alterations that turn no payload length into another valid one.
PlainNoise == {0, 4}
=============================================================================
