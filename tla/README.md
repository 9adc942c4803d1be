# Verification of arachno-pilot

TLA+ modules for the parts of arachno-pilot that decide when the robot moves,
where to, and with what strength: the control worker of `arachno-brain` with
the poses it computes, the manual, arm and tilted-stand state it shares with
the HTTP handlers and the sliders of the page, the calibration store, the
EEPROM and calibration scans of `arachno-calibrate`, the servo bus driver, and
the IMU bridge from its start-up to the worker. TLC checks small instances of
them; TLAPS proves safety properties for every number of servos, legs and
entries and every value of the limits.

All paths below are relative to `src/`. `brain` is
`apps/arachno-brain/src/main.rs`, `calibrate` is
`apps/arachno-calibrate/src/main.rs`, `sts` is
`crates/arachno-feetech-sts/src/lib.rs`.

## 1. The system

```
 browser --HTTP--> handlers --+          +-- control worker --STS bus--> 18 leg servos
                              |  RwLocks |        |       \--STS bus--> arm servos
                              +-- state -+        +--USB serial-- RP2040 IMU bridge
                                 (pending_mode, manual, arm, telemetry, ...)

 operator --CLI--> arachno-calibrate --STS bus--> the same servos (brain not running)
```

| component | state it keeps | operations | hard about it | correct if |
|---|---|---|---|---|
| control worker (`spawn_control_worker`, `MotionRuntime`) | open bus, torque flag, armed pose, fault, strike counts, telemetry cache and cursor | one tick: mode, IMU, bus, torque, poll, arm, safety, manual, command | every step may fail and end the tick; handlers run between steps; decisions rest on cached samples | it drives only when checked, at the limits and goals it set; the first fault stays; it gets going again |
| manual control (`ManualControlState`) | enabled, base and target pose, queued utilities | worker: reset, arm, serve; handlers: capture, apply, reset, queue | check-then-act over several locks; the lock is released during bus transfers | armed motion has a target; a handler's target is kept |
| arm control (`ArmControlState`, the end of the tick) | a bus of its own, torque flag, zero and target pose, queue | the same, for single servos | comes last in the tick, so its telemetry may be old; a torque flag that is forgotten with the bus | never sends without a target; what it switched on it switches off |
| tilted stand (`TiltedStandState`) | pitch, roll, the stance it was armed at | apply, reset, arm, command | a request let in before a mode switch; arming again with the sliders as they were | the tilt is that of the sliders and does not add up |
| pose programs and gaits (`MotionRuntime::commands`) | armed pose and time, mode, calibration | lie, sit, settle, staged stand-up, tripod gaits | phases with floors and seams, ticks that come late, edits while it runs | no leap, no foot dragged, a tripod always planted |
| dashboard page (`dashboard_page.rs`) | sliders, pending edit, timer, requests under way | edit, live apply, refresh, buttons | every await; answers out of order; snapshots that are old | sliders and target agree |
| semantic calibration store | samples in memory and on disk | load, capture, clear, save, reload | the save may fail, or die part-way; others edit the file | acknowledged edits survive |
| trajectory recorder | file, pending frame | record, sleep | forces a full poll | only the poll is modelled |
| STS bus driver (`sts`) | port, servo ids | read, write, broadcast, verified limit, EEPROM lock | timeouts, late replies, unacknowledged broadcasts, writes that stop part-way | a call that succeeds reached every servo |
| `apply-eeprom` | the lock and the entries of each servo | unlock, write, verify, relock | every call may fail; the process may be killed | success means applied and locked |
| `sense-ranges`, `sense-workspace` | torque, limit and goal registers, tracked pose | lower, sweep, release, raise, hold, place; torque windows | `?` decides what is still restored; the next scan starts on what the last left | pushes only at the sensing limit; torque comes on only at rest |
| IMU frame protocol (`crates/arachno-imu-proto`) | parser buffer, expected length | push, reset, decode | altered and lost bytes, data that looks like a header | clean frames come out; it never sticks |
| IMU host bridge, firmware | port, last sample, kind, error; sensor, sequence number | start-up, stream, probe, drain | sensors that answer late or as another; frames lost behind a frame; boards that come and go | the info tells what was met; the state is that of this board |
| configuration (`crates/arachno-core`), messages, camera, `arachno-fw-info`, `arachno-probe`, simulator, Python tools | none, or none that matters to motion | parsing, printing, offline numerics | - | - |

They interact through shared state only: a handler writes `pending_mode` or
queues an action and the worker picks it up at a fixed step of its tick; the
worker publishes telemetry that handlers read later. Nothing acknowledges a
command. `arachno-calibrate` is another process, with the bus to itself, but it
starts on whatever registers the last program left in the servos.

## 2. Modules

| module | models | checked by | proved in |
|---|---|---|---|
| `ControlWorker` | the worker's tick, the handlers it races with, the servos' registers | `worker_safety`, `worker_gate`, `worker_liveness`, `worker_fallback` | `ControlWorkerProofs` |
| `MotionGate` | what the worker promises of motion: wait, move, halt | through `worker_gate` | |
| `ControlWorkerGate` | the refinement mapping from the worker to the gate | `worker_gate` | `ControlWorkerProofs` |
| `WorkerHistory` | the worker with a history of the samples it really read | `history_samples` | `WorkerHistoryProofs` |
| `ManualControl` | `ManualControlState`, its handlers lock by lock, the worker's side | `brain_parts`, `manual_utility` | `BrainPartsProofs` |
| `CalibrationStore` | the calibration in memory and in its file, through failures, kills and restarts | `brain_parts` | `BrainPartsProofs` |
| `Dashboard` | a panel of the page: sliders, live apply, requests, refreshes | `brain_parts` | `BrainPartsProofs` |
| `TiltedStand` | the tilted stand's sliders, handlers and stance | `brain_parts` | `BrainPartsProofs` |
| `ArmControl` | the arm's share of the tick, its bus and its handlers | `arm_and_poses`, `arm_stale` | `ArmAndPosesProofs` |
| `PosePrograms` | every pose a mode computes, over time | `arm_and_poses` | `ArmAndPosesProofs` |
| `EepromApply` | `apply_eeprom` and `write_and_verify_eeprom_entry` | `devices`, `eeprom_relock` | `EepromApplyProofs` |
| `ScanServos` | three registers of each leg servo and the bus calls the scans make | through `devices` | |
| `RangeScan` | `sense_ranges`, extends `ScanServos` | through `devices` | |
| `WorkspaceScan` | `sense_workspace` and its torque windows, extends `RangeScan` | through `devices` | |
| `Scans` | both scans on one robot, killed at any point | `devices` | `ScansProofs` |
| `SettleWait` | the three loops that wait for servos, poll by poll | `devices` | `DevicesProofs` |
| `StsBus` | the driver's exchanges with lost and late replies, and the calls made of them | `devices` | `DevicesProofs` |
| `ImuLink` | encoder, line, `FrameParser`, `next_frame` | `devices`, `imu_resync` | `ImuLinkProofs` |
| `ImuBoot` | the firmware's search for a sensor, and the fault it reports | `devices` | `DevicesProofs` |
| `ImuFeed` | the firmware's stream, the probe and the drain of the host, boards that come and go | `devices` | `DevicesProofs` |

`Poses`, `CalibrationEntries`, `EepromPlan` and `ImuFrames` hold the constants,
the assumptions and the data of one module each, so that other modules can be
combined with it.

`BrainParts`, `ArmAndPoses` and `Devices` put programs that do not interact in one
specification: `part` is chosen at the start and says which of them runs, the others
stay at their start, so the behaviours are those of the parts, one by one, with
nothing left out. (Where programs do interact they are one module: the worker
with its handlers, a panel with its brain, both scans on one robot, the feed
with its board.) The combining modules leave every constant open, and so do the
theorems about them; the `MC*` modules only give the configurations their finite
sets. Some parts are EXTENDed: their top-level operators carry the part's name
(`EepromSpec`, `LinkTypeOK`, `storeVars`, ...) where two of them would collide.
The others are INSTANCEd over variables they share, and their theorems are about
the combined specification (`Page!`, `Tilt!`, `Motion!`, `Bus!`, `Settle!`,
`Boot!`, `Feed!`), so that the property that is checked is the very one that is
proved.

Operators that a comment calls a mutant (`TripFaultUnlessLink`, `SetLimitAlone`,
...) stand before the definition they could replace; `PROJECT.json` lists for
every property one such change of the code that breaks it.

### ControlWorker

`pc` is the step of the tick; every action is one step with all the calls it
makes, on success or on failure. An action that ends with `pc' = "mode"` before
the end is one of the worker's `continue`s. The mapping of state:
`busOpen` is `bus.is_some()`, `torque` the local `torque_enabled`, `armed`
stands for `armed_at` and `initial_pose`, `fault` for the reason's class, `hold`
for where `hold_pose` came from, `cache` for `servo_states`. The servos'
registers are `hwTorque`, `hwLimit` and `hwSynced`; the last one says whether
`GOAL_POSITION` holds a goal written in this torque session. A write over the
servos that fails reached a prefix of them (`Prefixes`). A torque limit may be
configured or not (`LimitConfigured`); without one nothing is written to the servos
when motion is armed. A servo's feedback is
one of "ok", "low" (voltage), "hot", or none; an attitude sample is level or
tilted, and a tilt the accelerometer check explains counts as level. The gait's
and the stand-up's poses are one value, "computed": they are floating-point
geometry and no safety step looks at them.

### ManualControl

A handler is three steps, as the code takes three locks: `CheckEnabled`,
`ReadSnapshot`, then the write. The worker's utilities are two steps,
`StartUtility` and `FinishUtility`, because the lock is released for the bus
transfers between them; handlers run in that gap.

### ArmControl

`step` runs through the arm's share: link, torque, poll, utility, send,
publish. A tick whose legs' share ends early publishes without it ("legs"), with
the `cache` of an earlier tick. `powered` is `arm_torque_enabled`; `held` are the
servos whose torque really is on, and `lapsed` remembers that a failure made the
worker forget them: every failing call forgets the flag whatever the servos do.
Handlers are as in `ManualControl`, lock by lock.

### CalibrationStore

`file` is what a start would read, `memory` the store behind its lock, and each
handler edits the memory and then saves. `fs::write` truncates first, so a kill
inside it leaves the head of the file. That may be refused by the next start, or it may
still parse, to fewer entries, and is taken (`Heads`). Someone else may edit the file
between; `reload` takes what is there.

### Dashboard

One panel; the scripts of manual, arm and tilted stand are three copies of one
design, and `panel` says which it is where they differ: which buttons it has
(`ButtonsOf`), whether its controls wait for feedback (`Usable`), what makes a
refresh force its sliders (`Comes`, `Forces`), the group selection of the manual
panel, and the arm's `armTorqueSyncPending` (`syncing`). A step is the script from
one await to the next. `flows` are the requests under way, each at its stage (post,
answer or refused, get), and the brain handles them in any order; an answer may be
lost. `pending` and `timer` are the script's flags. A fetch returns whatever
telemetry a tick may have published (`Published`), older or newer than what the page
did last. What handlers and utilities do to the poses is in `ManualControl`,
`ArmControl` and `TiltedStand`; here the target just moves (`OthersMove`). The brain's
configuration, an arm or none among it, stays while the page is open.

### TiltedStand

Angles are levels, and a stance is the height of each foot: the plane that
`tilted_stand_pose` tilts is kept, its trigonometry is not. A handler is two
steps (let in, written), a mode switch may come between.

### PosePrograms

Time is in fortieths of a second. A pose is in servo ticks, and an angle is in
ten-thousandths of one until a servo's sign and zero are put to it and it is rounded and
clamped (`TicksNear`), so that the phases, their floors, `smoothstep`, the rounding and
clamping at the range's end are those of the code; sines are parabolas with the same
zeros. A blend starts at any measured pose (`Lives`). A tick may come late, the motion may be disarmed,
tripped, switched, or recalibrated at any time.

### EepromApply

One action per call of `apply_eeprom`, each with its failing twin, in the order
of the loops; `Killed` may end the process anywhere.

### StsBus

An exchange is one step: the servo takes the instruction or not, and the driver takes
its reply, a reply to an earlier exchange that has the same servo and length,
or none. Replies that miss their time-out stay under way (`late`). On it stand
`enable_torque` and its opposite, and `set_verified_torque_limit_on_current_position_for_ids`
with its rounds of write and readback, exchange by exchange, with write
confirmation required or optional. `trusted` remembers that a stale reply was
believed: a verified limit holds even then, for the torque switch and the goal
under a raised limit nothing is claimed.

### SettleWait

A step is a sweep over the servos; readings are what the loops tell apart.
`quiet`, `longest` and `seen` are counted beside the code.

### ImuBoot, ImuFeed

`ImuBoot` has a step per probe and per bring-up over both transports. `ImuFeed`
has the line as a queue of frames; `Take(lost)` drops what `next_frame` drops. The
drain of a tick may end while frames are under way, as `next_frame` returns without one
when a chunk completes none, and the firmware may write before the host has opened the
port. The sample that was drained last stays until another comes.

### ImuLink

Bytes are integers, and `push` is the parser's branch structure byte by byte.
The CRC is modelled by what it detects: a frame decodes exactly if its bytes
arrived in order and unaltered. `HandOver` models that `next_frame` drops the
rest of a chunk after a frame.

### ScanServos, RangeScan, WorkspaceScan, Scans

`at` is the call a scan makes next. `Call`, `CallOrReturn` and `CallOrRestore`
are the three ways the code treats an error: go on to the other branch, return
before there is anything to restore, or keep the closure's result while the
cleanup is done. Every bus call takes effect on a prefix of its servos when it
fails. Waiting for motion to stop and for poses to settle is reduced to its
outcome here; `SettleWait` has their polls. `goal` separates the end of the range
from where a servo was, since that is what decides whether a limit may be
raised. A broadcast that was sent is taken to reach every servo: SYNC_WRITE is
not acknowledged. What the driver can and cannot know of that is in `StsBus`.

## 3. Runs

| run | instance | distinct states | shows |
|---|---|---|---|
| `worker_safety` | 2 servos, all kinds of mode, all readings, windowed and full polls | 1.4 M | the worker's safety properties, the fault latch |
| `worker_gate` | as above with a queued manual utility and tilted samples, readings "ok" | 2.2 M | limits and goals of automatic motion with a configured limit, no drive at the attitude limit, the refinement of `MotionGate` |
| `worker_liveness` | telemetry and stand, "ok" and "hot" | 51 k | commands are honoured; the worker arms or halts |
| `history_samples` | stand, "ok" and "low", 3 strikes, round of 2 ticks | 356 k | arming is fresh; one sag does not trip |
| `brain_parts` | manual: 2 servos, 2 positions, each servo a group, 1 queued utility; store: 2 joints, 1 reference, 2 ticks; page: all three panels, 2 groups, 2 slider positions, 2 requests at once; tilt: 4 feet | 618 k | motion has a target; acknowledged edits survive; sliders and robot agree |
| `arm_and_poses` | arm: 2 servos, 2 positions, 1 queued utility; poses: all modes, 2 configurations, 2 calibrations, 3 poses to start from, ticks of 1 or 5, 48 time units | 1.4 M | the arm's torque is remembered; no leap, no dragged foot, a planted tripod |
| `devices` | EEPROM: 3 servos, 2 entries; scans: 2 legs (6 servos); link: payloads of 5, 3 and 2 bytes over all header bytes, 1 fault, chunks of 4; bus: 2 servos, 1 late reply; waits: 2 servos, 5 sweeps; feed: a line of 3 frames | 614 k | each device program does what its result says; nothing hangs |
| `worker_fallback` | 2 servos | violated | see section 6 |
| `manual_utility` | 2 servos | violated | see section 6 |
| `arm_stale` | 2 servos | violated | see section 6 |
| `eeprom_relock` | 3 servos | violated | see section 6 |
| `imu_resync` | the same payload lengths over plain data, altered bytes only | violated | see section 6 |

Properties of parts that belong together are one formula in the combining module:

* `SlidersAndTargetAgree`: an edit that waits has a timer; the target comes to
  rest where the slider was left; a refresh that belongs to no button moves the
  sliders only when the panel comes on, or to end the arm's torque sync this page
  asked for.
* `TiltFollowsSliders`: a command is the armed stance under the sliders' tilt,
  leg by leg; after the mode was left the sliders start over.
* `GaitCarries`: at each moment one tripod has its feet down; sideward gaits push
  neither way forward, to within the one tick to which a servo's target is rounded.
* `LeapsOnlyWhere`: between two commands no joint is sent farther than the time
  between them allows, with three exceptions: an edit of the calibration, the
  end of `--walk-seconds`, and a gait configured without a start-up blend.
* `OkMeansDone`: a verified limit is in every servo, and was raised over a goal
  where the servo is; acknowledged torque is switched.
* `WaitsTell`, `BootTells`, `FeedTells`: what a wait, the device info and the IMU
  state say is what was seen.
* `NothingHangs`: waits end, start-up gets to the stream, no prefix of a frame
  holds the parser, the tick gets past the IMU.

The bounds, and why they are enough:

* **Two servos.** The code treats servos alike and in order; what can differ
  between them is that one answers and the other does not, that a write reached
  one and not the other, that the window holds one and not the other. Two show
  each of these. The proofs hold for any number.
* **Strike limits 2 or 3, window 1.** What matters is that a count is below, at
  and past the limit, and that a round of the window (`NumServos / Stride`
  ticks) is shorter than the strikes, as shipped (18 by 6 against 6):
  `RoundAssumption` of `WorkerHistory` says just that, also where the stride does not
  divide the number of servos.
* **Two moving modes.** "stand" and "walk" differ only in the pose they compute,
  so runs with "manual", "stand" and "telemetry" have every behaviour of a mode;
  `worker_fallback` uses stand and walk.
* **`LimitConfigured`.** TRUE in `worker_safety`, `worker_gate` and `worker_liveness`,
  where a restore that stops part-way matters; FALSE in `history_samples` and
  `worker_fallback`. The proofs hold for both.
* **`MaxQueue`.** The code's queues are unbounded. One queued utility meets every
  step of the tick; more only repeat the step.
* **Three servos, two entries** give a first, a middle and a last one.
* **Payloads of 5, 3 and 2 bytes** keep the order of the code's 26, 12 and 8, and
  hold a whole header inside the data. `MaxFaults = 1` gives one altered or lost
  byte or reopen at any place; the parser's state has no more memory than a frame.
* **Two legs** give the scan a leg that moves and one that holds; six servos give
  every joint group and proper prefixes of it.
* **Two requests of the page at once**, with one of them a live apply, a button or
  a refresh, are the least that overtake each other. One slider: the others of a
  panel are sent with it. Two groups: the one that is selected and another, so that a
  request may be under way for the group that was left.
* **`MaxTime`, `Late`.** 48 units see every phase of the stand-up, a whole cycle of
  the gait after it settled, and the end of the walk; ticks of 1 see every moment,
  ticks of 5 step over the shortest phase. The state is a function of the
  time, so interleaving adds nothing to longer runs.
* **`MaxLate = 1`, 2 attempts, 2 readbacks** give the driver a reply too late in each
  exchange, and a first, a last and a failing round.
* **Symmetry** on servos and positions (the page's groups and slider positions are the
  same values) and on the page's slots in `brain_parts`, `arm_and_poses` and
  `manual_utility`: no definition orders them, and no liveness is checked there.

Only `devices` switches the deadlock check off: apply-eeprom, the scans, the
waits and the start-up end.

## 4. Fairness

* `WF(Worker)`: the worker is an endless loop of calls that all time out, so it
  takes its next step. Handlers have no fairness.
* `DevicesAnswer` (`SF` of opening the bus, enabling torque, a poll every servo
  answers, arming): the assumption that a device asked again and again answers some
  time. `ArmsOrHalts` is about what the worker does if they do; it can promise
  nothing if they never do. Strong fairness is needed because every failure takes
  the worker back to its first step, and with it disables the call.
* `ImuLink`: weak fairness of sending and delivering: the firmware never stops
  streaming and the worker polls the bridge in every tick.
* `SettleWait`: `WF(Sweep)`: the loops sleep and read, and each read times out.
* `ImuBoot`: `WF(Next)`: the firmware runs nothing else before it streams, and
  each bus transfer returns.
* `ImuFeed`: `WF` of the host's steps, which are those of the worker's loop, and
  of the probe's time-out, which the host's clock brings about whatever arrives.
  The board has no fairness.

`Devices!PartsSpec` states the last four for its parts.

## 5. Proofs

| module | about | starts from |
|---|---|---|
| `ControlWorkerProofs` | `ControlWorker`, `ControlWorkerGate` | the assumptions of `ControlWorker` |
| `WorkerHistoryProofs` | `WorkerHistory` | those, and `RoundAssumption` |
| `BrainPartsProofs` | `ManualControl`, `CalibrationStore`, `Dashboard`, `TiltedStand` | `NoPoseAssumption`, `OfflineAssumption`, those of `CalibrationEntries`, `StandAssumption` |
| `ArmAndPosesProofs` | `ArmControl`, `PosePrograms` | those of `Poses`, `MotionAssumption` |
| `EepromApplyProofs` | `EepromApply` | `ServosAssumption`, `EntriesAssumption` |
| `ScansProofs` | `ScanServos`, `RangeScan`, `WorkspaceScan`, `Scans` | `LegsAssumption`, `SkipAssumption` |
| `ImuLinkProofs` | `ImuLink` | those of `ImuFrames` |
| `DevicesProofs` | `SettleWait`, `StsBus`, `ImuBoot`, `ImuFeed`, and the three above in `Devices` | `BusAssumption`, `WaitAssumption`, `FeedAssumption`, and those of the three |

The assumptions are those named with the constants of each module and nothing else;
they say what a constant is, or what the code enforces of it (a servo at least, one
attempt at least, values that are not the value for none). The one that says more is
`RoundAssumption`, about two numbers of the shipped configuration. Every invariant and
every action property a passing run checks is proved but one (`LeapsOnlyWhere`, below).

Each proof begins with the type invariant of its component. The invariants that are
proved inductive stand at the end of the modules they are about. In the three
combined specifications `PartsInvariant` has those of all their parts, and
`PartsKeepTheirWord` states there, for every behaviour of `PartsSpec`, the
properties of the EXTENDed parts, just as the runs check them.

* **Worker.** `TypeCorrect` first. The safety properties are not inductive by
  themselves: that the safety check of this tick passed has to be carried from
  the step "safety" to the step "command" (`CommandChecked`), that a tick past
  "bus" has the bus and past "torque" the torque it needs (`StepReady`), and that
  motion is only ever armed at a measured pose (`ArmedAtPose`). `SafetyInv` is
  their conjunction; each step preserves it, and `ArmedOnLiveBus`,
  `TorqueFlagHonest`, `LimitsRestored`, `GoalsSynced`, `DriveChecked` and
  `StrikesBelowLimit` follow. `FaultLatched` is the action property
  `FirstFaultStays`.
* **Refinement.** `WorkerImplementsGate`: with `gate` computed from `armed` and
  `fault`, every step of the worker is a step of `MotionGate` or a stutter. It
  needs `SafetyInv` for the steps that hold and drive.
* **Samples.** `ArmsFromFreshPose`: before motion is armed the telemetry of a tick is
  what was read in it (`FreshPoll`), since the budget is the whole bus until then.
  `OneSagTripsNothing`: how often a low sample was judged is bounded by how far the
  cursor went since it passed that servo (`Passed`, `SagCounted`): a tick takes it
  `Stride` servos on at least, so it is back before the strikes are full. The proof
  is over the cursor modulo the number of servos, for every stride.
* **Manual control.** `ArmedMotionHasTarget`: arming sets the target under the same
  lock that sets the base, and no handler takes a target away, whichever pose it read
  before and at whichever of its checks it is refused.
* **Page.** `SlidersAgree`, for any number of requests at once, groups and values. That
  the target comes to rest at the slider needs that a request under way carries what
  its handler will read (`FlowsCarry`), and that while the slider is the user's alone
  every post under way is that of its own value (`PostsSlider`). That refreshes leave the
  sliders to the user (`PanelKeeps`) is a matter of who may force them: the arm's torque
  sync does so at most once for each request of this page, since the refresh that ends it
  clears the flag.
* **Tilted stand.** `TiltIsTheSliders`, for any feet and limits: the sliders start over
  unless a request let in before crossed the change of mode (`LateIsCrossed`); the
  stance is the tilt of the armed one or the armed one itself.
* **Arm.** `SentWhenReady`, `TorqueIsRemembered`, `OneServoMoves`, with
  `ZeroWithTarget` (a zero comes with a target). What is wanted at "send" was
  decided at "torque" and "poll" (`ReadyTick` carries it through the tick), what is
  remembered of the torque is true because every failure forgets it (`TorqueInv`),
  and a utility moves one servo because the copy it began with is the target until
  a handler answers (`CopyInv`).
* **Poses.** For every duration, lateness, edit of the calibration and measured pose:
  `PartsTypeCorrect` (every target is in its servo's range; what is blended stays
  between what it is blended of: `RatioBounds`, `SmoothRange`, `PartWay`),
  `CoxaeTurnLast` (the stages of a stand-up follow each other whatever its length,
  `StandUpStages`) and `GaitsCarry` (`WalkShape`: where in its cycle each leg is, and
  `SidewardPush`: what rounding and clamping leave of the difference of two coxae).
  They rest on `HeldIsCommanded`: the pose that is held is the one the motion was armed
  at or what is commanded at this moment.
* **Calibration store.** `FileIsAcknowledged`: the file says what was acknowledged
  last, until a save damages it or others edit it. `MemoryIsAcknowledged`: so does
  the memory, until a save fails after the edit. `RestartBringsBack` is the action property
  `RestartKeeps`.
* **EEPROM.** `SuccessMeansApplied`, `EntriesWrittenUnlocked`, from `Progress`
  (`LoopsProgress`), which says how much is done at each place of the two loops.
* **IMU link.** `ParserInBounds` (type correctness: the stored bytes fit the
  buffer, and the expected length is that of a frame) and `CleanFramesDelivered`,
  from `Following` (`ParserFollows`): while a clean frame arrives the parser has
  stored what was sent.
* **Scans.** `ScanInvariant` for any number of legs. `PushesAtLowLimit` alone is not
  inductive: a sweep relies on the limit lowered before it (`ProbedIsWeak`), the
  hold on the goal synced and the torque taken off before it (`RaisedAtRest`,
  `RaisedWithoutTorque`), and the result on the other groups being held
  (`OthersHeld`). `NeverPushesHard`, `StanceStaysWeak`, `RaisesAtRest`,
  `SuccessIsHeld` and `TorqueComesOnHere` follow.
* **Bus driver.** `CallsDoWhatTheySay` for any number of servos, attempts, readbacks and
  late replies. A verified limit stands on `LateWord`: of the replies under way none
  tells the wanted limit of a servo that does not have it, because a call starts with a
  clean line and sets no other limit; so even a stale reply that is believed is true.
  `LimitBehind`, `TorqueBehind` and `SyncedHere` carry what was done from servo to servo.
* **Waits.** `WaitsTellTruth` for any servos, confirmations and time-outs: each loop's
  counters against what was seen (`GroupCounts`, `SettleCounts`, `CloseCounts`), and the
  result against the counters (`Concluded`).
* **Start-up and feed.** `BootTellsTruth`, from what the best code of the probes so far
  leaves out (`CodesTell`). `FeedTellsTruth`: the line holds infos of this board only, and
  nothing when it is off (`LineOfBoard`); a bridge is probed only while its kind is
  unknown (`ProbedUnknown`).

What the proofs found wrong in the model, and TLC then showed on a small instance:

* `RoundAssumption` was too weak (`NumServos < Stride * VoltageLimit`). With 3 servos, a
  stride of 2 and 2 strikes a single sag trips: a stride that does not divide the number
  of servos makes the round longer than their quotient. The shipped numbers satisfy the
  assumption as it is now.
* That a sideward gait pushes exactly neither way held by the numbers of the instance:
  with another blend the two coxae of a pair are rounded apart. The model rounded
  earlier than the code does, too; it now rounds where `servo_ticks_for_semantic_angle_deg` does,
  and the property allows the tick.

Only model-checked: the liveness properties (`ModeHonoured`, `ArmsOrHalts`,
`NothingHangs`), since liveness under fairness and ENABLED are beyond the
prover; `LeapsOnlyWhere`, whose rate is that of the configured durations and of the
poses a run starts from: from an arbitrary pose, or in a shorter stand-up, the code
does go faster, so a theorem needs a bound that depends on both; and the violations, of
which a counterexample is the proof. What recursive definitions compute for every input
cannot be proved with the provers at hand; no module declares a RECURSIVE operator.

## 6. Where the code and its documents disagree

* **`worker_fallback`.** A fault that trips before motion was ever armed, a hot
  servo for example, makes `MotionRuntime::commands` hold its `fallback_pose`, a
  named pose that nobody measured (brain:1464), while `docs/roadmap.md:27` says
  the moves ramp from the measured pose. The gate promises only what the code
  does: a halted robot is held at a measured pose unless none was measured.
* **`manual_utility`.** `process_pending_manual_action` reads the target, drops
  the lock for its bus transfers and writes the whole pose back (brain:3743). A
  slider moved meanwhile jumps back, in groups the utility was not for.
* **`arm_stale`.** A handler of the arm reads the published telemetry, and the
  error it gives otherwise promises "fresh feedback" (brain:3466). A tick that
  ends in the legs' share publishes the arm's states of an earlier tick
  (`FreshFeedback` fails): a slider's zero may be where the arm was.
* **`eeprom_relock`.** The `?` of an unlock returns from `apply_eeprom` at once;
  if the servo took the unlock and only the answer or its verification failed, it
  stays unlocked, and so do the servos unlocked before it (calibrate:284), while
  `README.md:55` has the lock restored. The run shows the first servo's own unlock.
* **`imu_resync`.** A header with an unknown kind makes `push` return without a
  reset (imu-proto:218); the next, intact frame is swallowed. The comment at
  `crates/arachno-imu-host/src/lib.rs:77` says the parser resyncs on it.

More, seen while modelling and not given a run of their own:

* Torque is enabled before any goal was written in the session, against the advice
  of the comment above `enable_torque` in `sts`. If a torque limit is configured the goals
  are written before motion is armed (`GoalsSynced`). If none is, motion is armed with
  neither a goal nor a limit written (brain:3381): automatic motion may run at the mix
  of limits a manual utility left, and `LimitsRestored` and `GoalsSynced` claim nothing.
* `api_manual_reset` takes its zero before it looks up the group (brain:4920): a request
  for an unknown group is refused and has set the zero all the same, without a target.
* The arm's torque sync forces the page's sliders on the first refresh whose summary
  tells of an arm utility, which may be one that was queued before; an edit made
  meanwhile is set back (`apps/arachno-brain/src/dashboard_page.rs:3181`).
* Attitude strikes are counted per tick over a cached sample, although the fault
  text says consecutive samples (brain:1658). A sample of zeros, which the firmware
  sends when a read of its sensor fails, is level and resets them.
* A handler that passed its check of the mode may write after the mode was left
  (manual, arm and tilted stand).
* The tilt adds up over a reconnect: motion is armed again at the tilted stance,
  in the same mode (brain:2022), and the sliders are applied to it once more,
  against the note of the page (`apps/arachno-brain/src/dashboard_page.rs:1513`).
  `TiltFollowsSliders` claims what holds: it does not while the motion stays armed.
* The arm's torque flag is forgotten with every failure of its bus, so outside manual
  mode the branch that switches the torque off (brain:2208) is not reached and the
  arm stays held. `TorqueRemembered` claims what holds: unless a failure came
  between.

## 7. Not modelled

* The recorder's file and the trajectory log: formats, and a file that is only
  written. Their effect on the tick (a full poll) is in `ControlWorker`.
* Of `sts`, the bytes of a packet, ping and the register table: a reply is for the
  right or the wrong exchange.
* Of `arachno-calibrate`, `check-poses` and `suggest-poses`, which only read, and
  the numeric fit of a workspace.
* Of the page, the calibration panel and everything that only shows.
* Floating point: kinematics, attitude estimation, unit conversions. Where a
  property is about where a joint goes (`PosePrograms`, `TiltedStand`) integers
  with the same phases, signs and clamps stand for it.
* `SpiderController` and the simulated HAL (a straight line of calls over servos
  that never fail), `arachno-probe`, `arachno-fw-info`, camera, messages, parsing of
  the configuration, the Python tools: no state that matters to motion.

## 8. Plan

Done, in the order of importance: the worker and its gate; manual control;
EEPROM; the IMU link; the scans; the arm; the driver; the waits; the store; the
stand-up, gaits and tilted stand; the page; the IMU's start-up and feed. What could
still be added:

1. A theorem that `StsBus` implements the call of the scans: seen from
   `ScanServos!SetLimit` a verified limit is one step that reaches some of the servos,
   and all of them on success (`Bus!VerifiedMeansSet` is the latter half).
2. The bound of `LeapsOnlyWhere` as a function of the durations and the starting pose,
   proved for all of them.
3. The calibration panel of the page, a fourth copy of the panel's design with a
   selection of joint and reference in place of sliders.
