------------------------------- MODULE Dashboard -------------------------------
(***************************************************************************)
(* A panel of the dashboard's page (manual, arm or tilted stand; their     *)
(* scripts are three copies of one design, with differences) and the part  *)
(* of the brain its sliders are for: the target.                           *)
(*                                                                         *)
(* The script runs to its next await. A live edit starts a timer; when it  *)
(* fires the sliders are posted, then the state is fetched and shown, like *)
(* after every button and twice a second. Requests of one page overtake    *)
(* each other. What a fetch brings is whatever a worker tick published,    *)
(* older or newer than the answer to the request before it: any telemetry. *)
(* What the brain's handlers and utilities do is the subject of            *)
(* ManualControl, ArmControl and TiltedStand.                              *)
(***************************************************************************)
EXTENDS Integers, FiniteSets

CONSTANTS
    Groups,   \* what a slider can be for: groups of servos, or just one
    Values,   \* the slider positions told apart
    Slots,    \* bound of the model: the requests of the page under way at once
    NoState   \* no value

VARIABLES
    target,      \* in the brain: the position of each group
    \* in the page
    panel,       \* which of the panels this is
    group,       \* the group that is selected
    slider,
    shown,       \* the positions fetched last, if there were any
    seen,        \* the panel's level in the last fetch
    initialized, \* were the sliders ever set from a fetch?
    syncing,     \* armTorqueSyncPending
    live,        \* the live-apply box
    pending, timer,
    flows,       \* the requests under way
    clean        \* history: did nothing but one post at a time move the slider's target?

controls == <<panel, group, slider, shown, seen, initialized, syncing>>
liveVars == <<live, pending, timer>>
vars == <<target, controls, liveVars, flows, clean>>

Panels == {"manual", "arm", "tilt"}
\* Besides live posts and polls: apply; what moves the target at once (jump, reset,
\* capture, the arm's sync); and what queues a utility: the torque limit of one
\* manual slider and the manual sync; the torque limits of the manual group and of
\* the arm.
Buttons == {"apply", "jump", "utility", "limit"}
Kinds == Buttons \cup {"live", "poll"}
ButtonsOf(p) ==
    CASE p = "manual" -> Buttons
      [] p = "arm"    -> Buttons \ {"utility"}
      [] OTHER        -> {"apply", "jump"}

\* Is the mode of the panel on, and has it the feedback it waits for?
Levels == {"off", "waiting", "ready"}
\* Of the arm's summary: does it tell of a utility that is done, or that failed?
Summaries == {"other", "done", "failed"}
Telemetry == [values : [Groups -> Values] \cup {NoState}, level : Levels, summary : Summaries]

\* The positions of the legs are published only when all of them are known.
Published ==
    {state \in Telemetry :
        /\ state.values = NoState => panel = "manual" /\ state.level # "ready"
        /\ panel = "manual" /\ state.level = "waiting" => state.values = NoState
        /\ panel # "arm" => state.summary = "other"}

Stages == {"post", "answer", "refused", "get", "none"}
Idle == [kind |-> "poll", stage |-> "none", group |-> NoState, value |-> NoState]
Flow == [kind : Kinds, stage : Stages, group : Groups \cup {NoState},
         value : Values \cup {NoState}]

TypeOK ==
    /\ target \in [Groups -> Values]
    /\ panel \in Panels
    /\ group \in Groups /\ slider \in Values
    /\ shown \in [Groups -> Values] \cup {NoState}
    /\ seen \in Levels
    /\ {initialized, syncing, live, pending, timer, clean} \subseteq BOOLEAN
    /\ syncing => panel = "arm"
    /\ flows \in [Slots -> Flow]

Init ==
    /\ target \in [Groups -> Values]
    /\ panel \in Panels
    /\ group \in Groups /\ slider \in Values
    /\ shown = NoState
    /\ seen = "off" /\ initialized = FALSE /\ syncing = FALSE
    /\ live \in BOOLEAN /\ pending = FALSE /\ timer = FALSE
    /\ flows = [i \in Slots |-> Idle]
    /\ clean = FALSE

(***************************************************************************)
(* The page: the sliders                                                   *)
(***************************************************************************)
Writing(i) == flows[i].stage = "post" /\ flows[i].kind # "poll"

\* set*ControlsEnabled: only the arm's controls wait for the feedback.
Usable == seen = "ready" \/ (seen = "waiting" /\ panel # "arm")

\* Mutant: an edit during a live request is left to that request.
ScheduleIdle ==
    IF live /\ \A i \in Slots : flows[i].kind # "live"
    THEN pending' = TRUE /\ timer' = TRUE ELSE UNCHANGED <<pending, timer>>

\* scheduleLive*Apply
Schedule ==
    IF live THEN pending' = TRUE /\ timer' = TRUE ELSE UNCHANGED <<pending, timer>>

\* The input event of a slider or of its number field.
Edit(value) ==
    /\ Usable
    /\ slider' = value
    /\ Schedule
    /\ clean' = (live /\ \A i \in Slots : ~Writing(i))
    /\ UNCHANGED <<target, panel, group, shown, seen, initialized, syncing, live, flows>>

SwitchLive ==
    /\ Usable
    /\ live' = ~live
    /\ UNCHANGED <<target, controls, pending, timer, flows, clean>>

\* set*FromState, set*FromGroupValue: without positions nothing is set.
SetSliders(g, values, force) ==
    LET sets == (force \/ ~initialized) /\ values # NoState IN
    /\ slider' = IF sets THEN values[g] ELSE slider
    /\ initialized' = (initialized \/ sets)

\* The change event of the group selection: the sliders are forced to what was
\* fetched last. A timer that runs will post them for the new group.
SelectGroup(g) ==
    /\ Usable /\ panel = "manual" /\ g # group
    /\ group' = g
    /\ SetSliders(g, shown, TRUE)
    /\ clean' = FALSE
    /\ UNCHANGED <<target, panel, shown, seen, syncing, liveVars, flows>>

(***************************************************************************)
(* The page: requests                                                      *)
(***************************************************************************)
Free(i) == flows[i] = Idle

Send(i, kind, stage) ==
    /\ Free(i)
    /\ flows' = [flows EXCEPT ![i] =
                   [kind |-> kind, stage |-> stage,
                    group |-> IF kind = "poll" THEN NoState ELSE group,
                    value |-> IF kind \in {"live", "apply"} THEN slider ELSE NoState]]

\* The timer of scheduleLive*Apply: it is forgotten, and the edit with it, before
\* the request is sent, so the next edit starts a timer of its own.
Fire(i) ==
    /\ timer
    /\ timer' = FALSE
    /\ pending' = FALSE
    /\ Send(i, "live", "post")
    /\ clean' = (clean /\ \A j \in Slots : ~Writing(j))
    /\ UNCHANGED <<target, controls, live>>

\* The buttons: apply*, applyManualAxisJump and the like, to their first await.
Click(i, kind) ==
    /\ Usable
    /\ kind \in ButtonsOf(panel)
    /\ Send(i, kind, "post")
    /\ clean' = FALSE
    /\ UNCHANGED <<target, controls, liveVars>>

\* setInterval(refresh, 500)
Poll(i) ==
    /\ Send(i, "poll", "get")
    /\ UNCHANGED <<target, controls, liveVars, clean>>

Advance(i, stage) ==
    flows' = [flows EXCEPT ![i] = [kind |-> flows[i].kind, stage |-> stage,
                                   group |-> NoState, value |-> NoState]]

\* The brain's handler refuses the request, or has done it before the answer: a
\* utility is only queued.
Handle(i, value) ==
    LET flow == flows[i] IN
    /\ flow.stage = "post"
    /\ \/ /\ Advance(i, "refused")
          /\ clean' = FALSE
          /\ UNCHANGED target
       \/ /\ Advance(i, "answer")
          /\ target' = IF flow.kind \in {"utility", "limit"} THEN target
                       ELSE [target EXCEPT ![flow.group] =
                               IF flow.kind = "jump" THEN value ELSE flow.value]
          /\ UNCHANGED clean
    /\ UNCHANGED <<controls, liveVars>>

\* postJson returns, and refresh fetches the state. The arm's torque limit leaves a
\* flag for whichever refresh first shows the utility done.
Answered(i) ==
    /\ flows[i].stage = "answer"
    /\ Advance(i, "get")
    /\ syncing' = (syncing \/ (panel = "arm" /\ flows[i].kind = "limit"))
    /\ UNCHANGED <<target, panel, group, slider, shown, seen, initialized, liveVars, clean>>

Done(i) == flows' = [flows EXCEPT ![i] = Idle]

\* A live apply looks for edits made while it was awaited.
ScheduleAgain(kind) ==
    IF kind = "live" /\ pending THEN Schedule ELSE UNCHANGED <<pending, timer>>

\* postJson throws, also when the answer to what was done is lost. The edit is not
\* sent again.
Refused(i) ==
    /\ flows[i].stage \in {"refused", "answer"}
    /\ Done(i)
    /\ ScheduleAgain(flows[i].kind)
    /\ UNCHANGED <<target, controls, live, clean>>

\* After their refresh these force the sliders to what was fetched; apply and the
\* other torque limits do not.
Forces(kind) == kind \in {"jump", "utility"}

\* becameReady, and becameEnabled, which the arm's panel does not look at. (An arm
\* that becameConfigured is the first one shown: the brain's configuration stays.)
Comes(level) ==
    \/ level = "ready" /\ seen # "ready"
    \/ level # "off" /\ seen = "off" /\ panel # "arm"

\* completedTorqueSync, or a utility that failed or was dropped with its mode.
SyncEnds(state) == state.summary \in {"done", "failed"} \/ state.level = "off"

\* The fetched state is shown. It sets the sliders the first time, when the panel
\* becomes enabled or ready, when an arm's torque limit that this page asked for is
\* shown as done, and if a button's own request asks for it.
Update(i, state) ==
    /\ flows[i].stage = "get"
    /\ shown' = state.values
    /\ seen' = state.level
    /\ SetSliders(group, state.values, \/ Forces(flows[i].kind)
                                       \/ Comes(state.level)
                                       \/ syncing /\ state.summary = "done")
    /\ clean' = (clean /\ slider' = slider)
    /\ syncing' = (syncing /\ ~SyncEnds(state))
    /\ Done(i)
    /\ ScheduleAgain(flows[i].kind)
    /\ UNCHANGED <<target, panel, group, live>>

\* A fetch that fails is swallowed by refresh: a button's request forces the
\* sliders to what was fetched some time before.
UpdateFailed(i) ==
    /\ flows[i].stage = "get"
    /\ IF Forces(flows[i].kind) THEN SetSliders(group, shown, TRUE)
                                ELSE UNCHANGED <<slider, initialized>>
    /\ clean' = (clean /\ slider' = slider)
    /\ Done(i)
    /\ ScheduleAgain(flows[i].kind)
    /\ UNCHANGED <<target, panel, group, shown, seen, syncing, live>>

(***************************************************************************)
(* The brain                                                               *)
(***************************************************************************)
\* The worker runs a utility, the mode is left or entered, or another page posts:
\* the target is another.
OthersMove ==
    /\ target' \in [Groups -> Values]
    /\ clean' = FALSE
    /\ UNCHANGED <<controls, liveVars, flows>>

Next ==
    \/ \E value \in Values : Edit(value)
    \/ SwitchLive
    \/ \E g \in Groups : SelectGroup(g)
    \/ \E i \in Slots :
         \/ Fire(i)
         \/ \E kind \in Buttons : Click(i, kind)
         \/ Poll(i)
         \/ \E value \in Values : Handle(i, value)
         \/ Answered(i)
         \/ Refused(i)
         \/ \E state \in Published : Update(i, state)
         \/ UpdateFailed(i)
    \/ OthersMove

Spec == Init /\ [][Next]_vars

(***************************************************************************)
(* What makes it correct                                                   *)
(***************************************************************************)
\* An edit that waits to be sent has a timer that will send it, whatever was
\* awaited, refused or switched meanwhile (the flags are two, kept by hand).
PendingHasTimer == pending <=> timer

\* A slider of a live panel is left where the robot's target is: once its last
\* edit was posted, unless that post overlapped another one (which may reach the
\* brain later), was refused, or a button, a utility or the mode moved either.
RestsAtSlider ==
    clean /\ ~timer /\ (\A i \in Slots : ~Writing(i)) => target[group] = slider

\* The refreshes leave the sliders to the user: after the first, and while the
\* panel does not come on, one that belongs to no button's request moves them
\* only to end the arm's torque sync this page asked for, however late its fetch
\* is answered and whatever telemetry it brings; each such request does so once at most.
KeepsSliders ==
    initialized /\ group' = group /\ slider' # slider
        => \/ flows' = flows
           \/ \E i \in Slots : ~Free(i) /\ Forces(flows[i].kind) /\ flows'[i] = Idle
           \/ seen' # seen /\ seen' # "off"
           \/ syncing /\ ~syncing'

(***************************************************************************)
(* The inductive invariant the proofs rest on                              *)
(***************************************************************************)
\* A request carries what its handler reads of it.
FlowsCarry ==
    \A i \in Slots : flows[i].stage = "post" =>
        /\ flows[i].kind # "poll" /\ flows[i].group \in Groups
        /\ flows[i].kind \in {"live", "apply"} => flows[i].value \in Values

\* What a clean slider's post will move is that slider's target, to where it is.
PostsSlider ==
    clean => \A i \in Slots : Writing(i) =>
        flows[i].kind = "live" /\ flows[i].group = group /\ flows[i].value = slider

PanelInv == TypeOK /\ PendingHasTimer /\ FlowsCarry /\ PostsSlider /\ RestsAtSlider

================================================================================
