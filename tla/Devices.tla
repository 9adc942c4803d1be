--------------------------------- MODULE Devices ---------------------------------
(***************************************************************************)
(* The programs and the firmware at the robot's serial lines, each by      *)
(* itself: `part` says which of them runs, the others stay at their start, *)
(* so the behaviours are exactly those of the parts, one by one. (One      *)
(* module for all makes one run and one set of theorems of them.)          *)
(*                                                                         *)
(* apply-eeprom, the scans and the IMU's line have their own variables and *)
(* names here. The other parts never run together and share the variables  *)
(* that are declared below, so that TLC's states stay small: they have the *)
(* names of ImuFeed, and each part says after WITH which one it uses.      *)
(***************************************************************************)
EXTENDS EepromApply, Scans, ImuLink

CONSTANTS
    BusServos, BusLimits, BusPlaces, \* Count, Limits and Places of the bus driver
    Attempts, Readbacks, MaxLate,    \* StsBus
    WaitedFor,                       \* Servos of the waits
    Confirm, WaitTimeout,            \* SettleWait
    Interval, DrainMax, Strikes, MaxLost, MaxLine, None \* ImuFeed

\* A configuration without servos is refused, and one attempt is always made.
ASSUME BusAssumption ==
    /\ BusServos \in Nat \ {0}
    /\ Attempts \in Nat \ {0} /\ Readbacks \in Nat \ {0}

\* confirm_stopped_samples is at least 1 (`.max(1)`); a wait is for some servo.
ASSUME WaitAssumption == WaitedFor # {} /\ Confirm \in Nat \ {0} /\ WaitTimeout \in Nat

ASSUME FeedAssumption ==
    /\ Interval \in Nat /\ DrainMax \in Nat /\ Strikes \in Nat
    /\ MaxLost \in Nat /\ MaxLine \in Nat
    /\ None \notin {"waiting", "open", "noinfo", "silent", "fault", "read"}

VARIABLES part, device, stream, until, line, step, bridge, drained, taken, saw, kind, error,
          latest, strikes, since, alive

othersVars == <<device, stream, until, line, step, bridge, drained, taken, saw, kind, error,
                latest, strikes, since, alive>>
partsVars == <<part, eepromVars, vars, linkVars, othersVars>>

\* The driver of the servo bus.
Bus == INSTANCE StsBus WITH
    Count <- BusServos, Limits <- BusLimits, Places <- BusPlaces,
    torque <- device, limit <- stream, goal <- until, place <- latest, late <- line,
    call <- kind, wanted <- bridge, servo <- drained, read <- taken, attempt <- strikes,
    readback <- since, required <- saw, trusted <- error, heard <- alive

\* The waits of arachno-calibrate.
Settle == INSTANCE SettleWait WITH
    Servos <- WaitedFor, Timeout <- WaitTimeout,
    loop <- step, started <- bridge, counts <- line, settled <- taken, cycles <- until,
    sweeps <- drained, outcome <- kind, quiet <- device, longest <- since, seen <- latest

\* The IMU's board, and the brain's end of its line.
Boot == INSTANCE ImuBoot WITH
    stage <- step, at <- until, found <- alive, best <- kind, spiFault <- error,
    result <- latest, met <- line

Feed == INSTANCE ImuFeed WITH phase <- stream

(***************************************************************************)
(* One of them runs                                                        *)
(***************************************************************************)
SettleUnused == <<stream, saw, error, strikes, alive>>
BootUnused == <<device, stream, bridge, drained, taken, saw, strikes, since>>

Idle == "idle"

EepromRests == EepromInit /\ \A s \in Ids : written[s] = {}
ScansRest == Init /\ \A s \in Servos : ~torque[s]
LinkRests == LinkInit /\ frame.kind = ImuSample
OthersRest ==
    /\ device = Idle /\ stream = Idle /\ until = Idle /\ line = Idle /\ step = Idle
    /\ bridge = Idle /\ drained = Idle /\ taken = Idle /\ saw = Idle /\ kind = Idle
    /\ error = Idle /\ latest = Idle /\ strikes = Idle /\ since = Idle /\ alive = Idle

PartsInit ==
    \/ part = "eeprom" /\ EepromInit /\ ScansRest /\ LinkRests /\ OthersRest
    \/ part = "scans" /\ Init /\ EepromRests /\ LinkRests /\ OthersRest
    \/ part = "link" /\ LinkInit /\ EepromRests /\ ScansRest /\ OthersRest
    \/ /\ EepromRests /\ ScansRest /\ LinkRests
       /\ \/ part = "bus" /\ Bus!Init
          \/ /\ part = "settle" /\ Settle!Init
             /\ stream = Idle /\ saw = Idle /\ error = Idle /\ strikes = Idle /\ alive = Idle
          \/ /\ part = "boot" /\ Boot!Init
             /\ device = Idle /\ stream = Idle /\ bridge = Idle /\ drained = Idle
             /\ taken = Idle /\ saw = Idle /\ strikes = Idle /\ since = Idle
          \/ part = "feed" /\ Feed!Init

\* A step of one of those that share their variables.
Sharing(name, Step) ==
    /\ part = name /\ Step
    /\ UNCHANGED <<part, eepromVars, vars, linkVars>>

Eeproms == part = "eeprom" /\ EepromNext /\ UNCHANGED <<part, vars, linkVars, othersVars>>
Scanning == part = "scans" /\ Next /\ UNCHANGED <<part, eepromVars, linkVars, othersVars>>
Linking(Step) == part = "link" /\ Step /\ UNCHANGED <<part, eepromVars, vars, othersVars>>
Driving == Sharing("bus", Bus!Next)
Settling(Step) == Sharing("settle", Step) /\ UNCHANGED SettleUnused
Booting == Sharing("boot", Boot!Next) /\ UNCHANGED BootUnused
Feeding(Step) == Sharing("feed", Step)

PartsNext ==
    \/ Eeproms
    \/ Scanning
    \/ Linking(LinkNext)
    \/ Driving
    \/ Settling(Settle!Next)
    \/ Booting
    \/ Feeding(Feed!Next)

\* The fairness of each part, as its module has it.
PartsSpec ==
    /\ PartsInit /\ [][PartsNext]_partsVars
    /\ WF_partsVars(Settling(Settle!Sweep))
    /\ WF_partsVars(Booting)
    /\ WF_partsVars(Linking((\E f \in Frames : Begin(f)) \/ Deliver))
    /\ WF_partsVars(Feeding(Feed!Host))
    /\ WF_partsVars(Feeding(Feed!ProbeGivesUp))

(***************************************************************************)
(* What makes them correct, with what the modules of apply-eeprom, of the  *)
(* scans and of the line say of themselves                                 *)
(***************************************************************************)
\* Each variable of the part that runs takes only values of its type.
PartsTypeOK ==
    /\ EepromTypeOK
    /\ TypeOK
    /\ LinkTypeOK
    /\ part = "bus" => Bus!TypeOK
    /\ part = "settle" => Settle!TypeOK
    /\ part = "boot" => Boot!TypeOK
    /\ part = "feed" => Feed!TypeOK

\* The driver's calls did what their Ok says, whatever replies were lost or came
\* late: a verified limit is in every servo and was raised over a goal that is
\* where the servo is, and acknowledged torque is switched.
OkMeansDone ==
    /\ [](part = "bus" => Bus!VerifiedMeansSet)
    /\ [](part = "bus" => Bus!AcknowledgedMeansSwitched)
    /\ [][part = "bus" => Bus!RaisedOnPlace]_partsVars

\* A wait says what it saw: what settled was quiet long enough, and no wait runs out
\* when what it waited for is there.
WaitsTell ==
    part = "settle" => Settle!SettledMeansQuiet /\ Settle!TimeoutMeansUnrest

\* The device info tells what start-up met: "no response" means that nothing
\* unexpected responded, and no fault that a sensor was initialised.
BootTells ==
    part = "boot" => Boot!SilenceMeansSilence /\ Boot!NoFaultMeansSensor

\* The IMU's state is that of the board that is connected: its kind is the board's,
\* it is free of errors only if the board has spoken on this connection, and there
\* is an info among any few frames.
FeedTells ==
    part = "feed" => Feed!KindIsDevices /\ Feed!NoErrorMeansAlive /\ Feed!InfoKeepsComing

\* Nothing waits for ever: a wait for servos ends, start-up gets to the stream, no
\* prefix of a frame holds the parser, and the worker's tick gets past the IMU.
NothingHangs ==
    /\ part = "settle" => Settle!WaitEnds
    /\ part = "boot" => Boot!BootEnds
    /\ part = "feed" => Feed!PollEnds
    /\ ParserLetsGo

================================================================================
