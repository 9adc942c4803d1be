-------------------------------- MODULE ImuFeed --------------------------------
(***************************************************************************)
(* Attitude samples on their way from the bridge firmware's stream to the  *)
(* attitude check of the control worker: frames on a line that is full     *)
(* when nobody reads, UsbImuBridge, which the worker opens, probes for the *)
(* firmware's info and drains once a tick, and the state it keeps of the   *)
(* IMU. The board is unplugged and plugged in, and the host may suspend it.*)
(*                                                                         *)
(* The sample that was drained last stays in the state until another one   *)
(* is: through silence, errors and reopenings the attitude is computed     *)
(* from it again every tick.                                               *)
(***************************************************************************)
EXTENDS Integers, Sequences, FiniteSets

CONSTANTS
    Interval,  \* DEVICE_INFO_ANNOUNCE_INTERVAL_SAMPLES
    DrainMax,  \* samples drained a tick at most (16)
    Strikes,   \* BODY_ATTITUDE_STRIKES_TO_TRIP
    MaxLost,   \* frames a chunk of 64 bytes has behind its first one
    MaxLine,   \* frames the line holds
    None

VARIABLES
    \* the bridge board
    device,    \* what the firmware found at boot: a sensor or a fault
    phase,     \* off, waiting for a host, saying hello, or streaming
    until,     \* samples_until_info
    line,      \* frames on their way
    \* the host
    step,      \* what the worker does next about the IMU in its tick
    bridge,    \* closed, open, or dead: its port is gone
    drained,   \* samples this tick drained
    taken,     \* the last of them
    saw,       \* saw_sample of the probe
    kind,      \* sensor_kind of the IMU state
    error,     \* last_error
    latest,    \* telemetry
    strikes,   \* body_attitude_strikes
    \* history
    since,     \* samples written since the last info
    alive      \* has this bridge brought a sample, or the info of a sensor?

board == <<device, phase, until, since>>
state == <<kind, error, latest>>
drain == <<drained, taken>>
vars == <<board, line, step, bridge, drain, saw, state, strikes, alive>>

\* A read fault of the sensor is sent as a sample of zeros.
Samples == {"level", "tilted", "fault"}
Devices == {"sensor", "faulted"}
Frames == [info : Devices] \cup [sample : Samples]
IsSample(frame) == "sample" \in DOMAIN frame

Least(i, j) == IF i < j THEN i ELSE j

TypeOK ==
    /\ device \in Devices
    /\ phase \in {"off", "waiting", "hello", "stream"}
    /\ until \in 0 .. Interval
    /\ line \in Seq(Frames) /\ Len(line) <= MaxLine
    /\ step \in {"open", "probe", "drain", "check"}
    /\ bridge \in {"closed", "open", "dead"}
    /\ drained \in 0 .. DrainMax /\ taken \in Samples \cup {None}
    /\ saw \in BOOLEAN
    /\ kind \in Devices \cup {None}
    /\ error \in {None, "waiting", "open", "noinfo", "silent", "fault", "read"}
    /\ latest \in Samples \cup {None}
    /\ strikes \in 0 .. Strikes
    /\ since \in Nat
    /\ alive \in BOOLEAN

Init ==
    /\ device \in Devices /\ phase = "off" /\ until = 0 /\ since = 0
    /\ line = <<>>
    /\ step = "open" /\ bridge = "closed"
    /\ drained = 0 /\ taken = None /\ saw = FALSE
    /\ kind = None /\ error = "waiting" /\ latest = None
    /\ strikes = 0 /\ alive = FALSE

(***************************************************************************)
(* The board                                                               *)
(***************************************************************************)
host == <<step, drain, saw, state, strikes, alive>>

\* Its power comes over the plug; the firmware boots (ImuBoot).
PlugIn(found) ==
    /\ phase = "off"
    /\ phase' = "waiting"
    /\ device' = found
    /\ until' = 0 /\ since' = 0
    /\ UNCHANGED <<line, bridge, host>>

\* What is on the line is gone, and so is the port that was opened.
LineDown ==
    /\ line' = <<>>
    /\ bridge' = IF bridge = "closed" THEN "closed" ELSE "dead"

Unplug ==
    /\ phase # "off"
    /\ phase' = "off"
    /\ LineDown
    /\ UNCHANGED <<device, until, since, host>>

\* A packet that cannot be written ends stream_samples; main waits again.
Disconnect ==
    /\ phase \in {"hello", "stream"}
    /\ phase' = "waiting"
    /\ LineDown
    /\ UNCHANGED <<device, until, since, host>>

\* wait_connection returns once the host has configured the device, whether or not
\* its port is open: what is written before waits on the line.
Connect ==
    /\ phase = "waiting"
    /\ phase' = "hello"
    /\ UNCHANGED <<device, until, since, line, bridge, host>>

Write(frame) ==
    /\ Len(line) < MaxLine
    /\ line' = Append(line, frame)

\* stream_samples: one info at first,
Hello ==
    /\ phase = "hello"
    /\ Write([info |-> device])
    /\ phase' = "stream"
    /\ until' = 0 /\ since' = 0
    /\ UNCHANGED <<device, bridge, host>>

\* ... and one again whenever the count is at zero,
Announce ==
    /\ phase = "stream" /\ until = 0
    /\ Write([info |-> device])
    /\ until' = Interval /\ since' = 0
    /\ UNCHANGED <<device, phase, bridge, host>>

\* ... and samples; those of a faulted board are fault samples.
Stream(sample) ==
    /\ phase = "stream" /\ until > 0
    /\ device = "faulted" => sample = "fault"
    /\ Write([sample |-> sample])
    /\ until' = until - 1
    /\ since' = since + 1
    /\ UNCHANGED <<device, phase, bridge, host>>

Board ==
    \/ \E found \in Devices : PlugIn(found)
    \/ Unplug \/ Disconnect

Firmware ==
    \/ Connect \/ Hello \/ Announce
    \/ \E sample \in Samples : Stream(sample)

(***************************************************************************)
(* The host                                                                *)
(***************************************************************************)
Working == <<board, strikes>>

\* open_imu_bridge
Open ==
    /\ step = "open" /\ bridge = "closed"
    /\ phase # "off"
    /\ bridge' = "open"
    /\ step' = "probe"
    /\ saw' = FALSE /\ alive' = FALSE
    /\ UNCHANGED <<Working, line, drain, state>>

OpenFails ==
    /\ step = "open" /\ bridge = "closed"
    /\ error' = "open"
    /\ step' = "check"
    /\ UNCHANGED <<Working, line, bridge, drain, saw, kind, latest, alive>>

StillOpen ==
    /\ step = "open" /\ bridge # "closed"
    /\ step' = "drain"
    /\ UNCHANGED <<Working, line, bridge, drain, saw, state, alive>>

\* next_frame: what follows the frame in the chunk that was read is lost.
Take(lost) ==
    /\ bridge = "open"
    /\ lost < Len(line)
    /\ line' = SubSeq(line, 2 + lost, Len(line))

ProbeSample(lost) ==
    /\ step = "probe" /\ line # <<>> /\ IsSample(Head(line))
    /\ Take(lost)
    /\ saw' = TRUE
    /\ UNCHANGED <<Working, step, bridge, drain, state, alive>>

ProbeInfo(lost) ==
    /\ step = "probe" /\ line # <<>> /\ ~IsSample(Head(line))
    /\ Take(lost)
    /\ kind' = Head(line).info
    /\ error' = IF kind' = "faulted" THEN "fault" ELSE None
    /\ alive' = (kind' = "sensor")
    /\ step' = "drain"
    /\ UNCHANGED <<Working, bridge, drain, saw, latest>>

\* The time for it is up.
ProbeGivesUp ==
    /\ step = "probe" /\ bridge = "open"
    /\ error' = IF saw THEN "noinfo" ELSE "silent"
    /\ step' = "drain"
    /\ UNCHANGED <<Working, line, bridge, drain, saw, kind, latest, alive>>

ProbeFails ==
    /\ step = "probe" /\ bridge = "dead"
    /\ error' = "open"
    /\ bridge' = "closed"
    /\ step' = "check"
    /\ UNCHANGED <<Working, line, drain, saw, kind, latest, alive>>

DrainInfo(lost) ==
    /\ step = "drain" /\ line # <<>> /\ ~IsSample(Head(line))
    /\ drained < DrainMax
    /\ Take(lost)
    /\ UNCHANGED <<Working, step, bridge, drain, saw, state, alive>>

DrainSample(lost) ==
    /\ step = "drain" /\ line # <<>> /\ IsSample(Head(line))
    /\ drained < DrainMax
    /\ Take(lost)
    /\ drained' = drained + 1
    /\ taken' = Head(line).sample
    /\ UNCHANGED <<Working, step, bridge, saw, state, alive>>

\* Enough samples, a line that is silent, or a chunk without a whole frame.
Drained ==
    /\ step = "drain" /\ bridge = "open"
    /\ step' = "check"
    /\ drained' = 0 /\ taken' = None

\* drain_imu_bridge: the last sample of the tick is kept, and is word of an IMU
\* that works, a fault sample too.
DrainEnds ==
    /\ Drained
    /\ latest' = IF taken # None THEN taken ELSE latest
    /\ error' = IF taken # None THEN None ELSE error
    /\ alive' = (alive \/ taken # None)
    /\ UNCHANGED <<Working, line, bridge, saw, kind>>

\* Mutant: the sensor that was there stays named.
DrainFailsKeepsKind ==
    /\ step = "drain" /\ bridge = "dead"
    /\ step' = "check" /\ drained' = 0 /\ taken' = None
    /\ bridge' = "closed"
    /\ error' = "read"
    /\ UNCHANGED <<Working, line, saw, kind, latest, alive>>

\* A read that fails drops the samples of this tick with the bridge.
DrainFails ==
    /\ step = "drain" /\ bridge = "dead"
    /\ step' = "check" /\ drained' = 0 /\ taken' = None
    /\ bridge' = "closed"
    /\ error' = "read"
    /\ kind' = None
    /\ UNCHANGED <<Working, line, saw, latest, alive>>

\* body_attitude_fault_reason, in a mode that minds: only a tilt in which gravity
\* is felt is a strike, and that of zeros is none. A trip ends the ticks' motion
\* and is counted no further.
Check ==
    /\ step = "check"
    /\ step' = "open"
    /\ strikes' = IF latest = "tilted" THEN Least(strikes + 1, Strikes) ELSE 0
    /\ UNCHANGED <<board, line, bridge, drain, saw, state, alive>>

Reads ==
    \/ \E lost \in 0 .. MaxLost :
         ProbeSample(lost) \/ ProbeInfo(lost) \/ DrainInfo(lost) \/ DrainSample(lost)

Host ==
    \/ Open \/ OpenFails \/ StillOpen
    \/ Reads
    \/ ProbeGivesUp \/ ProbeFails
    \/ DrainEnds \/ DrainFails
    \/ Check

Next == Board \/ Firmware \/ Host

Spec == Init /\ [][Next]_vars

\* The worker's loop goes on, and each of its reads and probes has a time-out.
FairSpec == Spec /\ WF_vars(Host) /\ WF_vars(ProbeGivesUp)

(***************************************************************************)
(* What makes it correct                                                   *)
(***************************************************************************)
\* The kind that is shown is the one of the board that is connected, as it
\* booted last, however often boards were unplugged and exchanged.
KindIsDevices ==
    /\ bridge = "closed" => kind = None
    /\ bridge = "open" /\ kind # None => kind = device

\* An IMU without an error has spoken on this very bridge: with a sample, or with
\* the info of a sensor that works. (The sample that is used may be older.)
NoErrorMeansAlive == error = None => bridge # "closed" /\ alive

\* The host can learn what board it is at any time: there is an info among any
\* Interval + 1 frames of the stream.
InfoKeepsComing == phase = "stream" => since + until <= Interval

(***************************************************************************)
(* The inductive invariant the proofs rest on                              *)
(***************************************************************************)
\* The line carries infos of this board only, and nothing when the board is off.
LineOfBoard ==
    /\ \A i \in 1 .. Len(line) : ~IsSample(line[i]) => line[i].info = device
    /\ phase = "off" => line = <<>> /\ bridge # "open"

\* A bridge is probed before a kind is known, and drained while it is there.
ProbedUnknown ==
    /\ step = "probe" => kind = None /\ bridge # "closed"
    /\ step = "drain" => bridge # "closed"

FeedInv ==
    /\ TypeOK
    /\ LineOfBoard /\ ProbedUnknown
    /\ KindIsDevices /\ NoErrorMeansAlive /\ InfoKeepsComing

\* The worker's tick gets past the IMU, however fast the firmware streams.
PollEnds == []<>(step = "check")

================================================================================
