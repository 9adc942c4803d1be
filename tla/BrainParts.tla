------------------------------- MODULE BrainParts -------------------------------
(***************************************************************************)
(* Manual control, the calibration store, a panel of the dashboard's page  *)
(* and the tilted stand: parts of arachno-brain around its control loop,   *)
(* each a program of its own, in one specification. `part` says which of   *)
(* them runs, the others stay at their start: the behaviours are exactly   *)
(* those of the parts, one by one.                                         *)
(*                                                                         *)
(* Manual control and the store have their own variables and names here.   *)
(* The page and the tilted stand never run together and share the          *)
(* variables that are declared below, so that TLC's states stay small.     *)
(***************************************************************************)
EXTENDS ManualControl, CalibrationStore

CONSTANTS
    PanelGroups, PanelValues, Slots, NoState,               \* the page's (Dashboard)
    Feet, Limit, Lowest, Highest, StartPitch, StartRoll,    \* the tilted stand's
    Asked, NoStance

VARIABLES part, aim, panel, group, slider, shown, seen, initialized, syncing,
          live, pending, timer, flows, clean

pageOnly == <<panel, seen, syncing, pending, timer>>
pageVars == <<aim, group, slider, shown, initialized, live, flows, clean, pageOnly>>
partsVars == <<part, vars, storeVars, pageVars>>

\* A panel of the dashboard's page.
Page == INSTANCE Dashboard WITH
    Groups <- PanelGroups, Values <- PanelValues, target <- aim

Tilt == INSTANCE TiltedStand WITH
    enabled <- live, pitch <- slider, roll <- shown, request <- flows, base <- group,
    stance <- aim, stale <- initialized, crossed <- clean

\* The feet stand in integer units around their centroid, and the body reaches as
\* far as its level and its pitched start need.
ASSUME StandAssumption ==
    /\ Feet \subseteq Int \X Int
    /\ Limit \in Nat /\ Lowest \in Int /\ Highest \in Int
    /\ 0 \in Lowest .. Highest /\ \A foot \in Feet : foot[1] \in Lowest .. Highest
    /\ StartPitch \in Int /\ StartRoll \in Int /\ Asked \subseteq Int

(***************************************************************************)
(* One of them runs                                                        *)
(***************************************************************************)
Idle == "idle"

ManualRests == Init /\ ~enabled
StoreRests == StoreInit /\ file = Empty
PageOnlyRests ==
    panel = Idle /\ seen = Idle /\ syncing = Idle /\ pending = Idle /\ timer = Idle
PageRests ==
    /\ aim = Idle /\ group = Idle /\ slider = Idle /\ shown = Idle
    /\ initialized = Idle /\ live = Idle /\ flows = Idle /\ clean = Idle
    /\ PageOnlyRests

PartsInit ==
    \/ part = "manual" /\ Init /\ StoreRests /\ PageRests
    \/ part = "store" /\ StoreInit /\ ManualRests /\ PageRests
    \/ part = "page" /\ Page!Init /\ ManualRests /\ StoreRests
    \/ part = "tilt" /\ Tilt!Init /\ PageOnlyRests /\ ManualRests /\ StoreRests

PartsNext ==
    /\ UNCHANGED part
    /\ \/ part = "manual" /\ Next /\ UNCHANGED <<storeVars, pageVars>>
       \/ part = "store" /\ StoreNext /\ UNCHANGED <<vars, pageVars>>
       \/ part = "page" /\ Page!Next /\ UNCHANGED <<vars, storeVars>>
       \/ part = "tilt" /\ Tilt!Next /\ UNCHANGED <<vars, storeVars, pageOnly>>

PartsSpec == PartsInit /\ [][PartsNext]_partsVars

(***************************************************************************)
(* What makes them correct, with what the modules of manual control and of *)
(* the store say of themselves                                             *)
(***************************************************************************)
\* Each variable of the part that runs takes only values of its type.
PartsTypeOK ==
    /\ TypeOK
    /\ StoreTypeOK
    /\ part = "page" => Page!TypeOK
    /\ part = "tilt" => Tilt!TypeOK

\* The sliders of a panel and the robot's target agree: an edit that waits to be
\* sent has a timer, the target comes to rest where the slider is left, and
\* refreshes leave the sliders to the user.
SlidersAndTargetAgree ==
    /\ [](part = "page" => Page!PendingHasTimer)
    /\ [](part = "page" => Page!RestsAtSlider)
    /\ [][part = "page" => Page!KeepsSliders]_partsVars

\* The tilted stand tilts by its sliders: the tilt does not add up while the motion
\* stays armed, and the sliders start over once the mode is left.
TiltFollowsSliders ==
    /\ [](part = "tilt" => Tilt!SlidersStartOver)
    /\ [][part = "tilt" => Tilt!TiltsOrStays]_partsVars

================================================================================
