----------------------------- MODULE BrainPartsProofs -----------------------------
(***************************************************************************)
(* Theorems about the parts of arachno-brain around its control loop, for  *)
(* any servos, joints, groups, feet, slots and positions.                  *)
(***************************************************************************)
EXTENDS BrainParts, SequenceTheorems, TLAPS

(***************************************************************************)
(* Manual control                                                          *)
(***************************************************************************)
ManualInv == TypeOK /\ ArmedHasTarget

LEMMA CompleteIsPose ==
    ASSUME NEW states \in [Servos -> Positions \cup {Offline}], Complete(states)
    PROVE  states \in Pose /\ states # NoPose
BY NoPoseAssumption, OfflineAssumption DEF Complete, Pose

LEMMA MergeIsPose ==
    ASSUME NEW f \in Pose, NEW g \in Pose, NEW some
    PROVE  Merge(f, g, some) \in Pose /\ Merge(f, g, some) # NoPose
BY NoPoseAssumption DEF Merge, Pose

LEMMA OrElseIsPose ==
    ASSUME NEW pose \in Pose \cup {NoPose}, NEW other \in Pose
    PROVE  OrElse(pose, other) \in Pose /\ OrElse(pose, other) # NoPose
BY NoPoseAssumption DEF OrElse

LEMMA QueueKeepsType ==
    ASSUME queue \in Seq(Groups)
    PROVE  /\ <<>> \in Seq(Groups)
           /\ queue # <<>> => Head(queue) \in Groups /\ Tail(queue) \in Seq(Groups)
           /\ \A some \in Groups : Append(queue, some) \in Seq(Groups)
OBVIOUS

LEMMA ManualInitInv == Init => ManualInv
<1> SUFFICES ASSUME Init PROVE ManualInv
  OBVIOUS
<1>1. queue \in Seq(Groups)
  BY DEF Init
<1>2. request \in [op : Operations \cup {"none"}, pose : Pose \cup {NoPose}]
  BY DEF Init, NoRequest
<1>3. QED
  BY <1>1, <1>2 DEF Init, ManualInv, TypeOK, ArmedHasTarget, Steps, NoJob, States

LEMMA ManualWorkerInv == ManualInv /\ Worker => ManualInv'
<1> SUFFICES ASSUME ManualInv, Worker PROVE ManualInv'
  OBVIOUS
<1> USE DEF ManualInv, TypeOK, ArmedHasTarget, motionVars, manualVars, Steps, States
<1>1. CASE KeepMode
  BY <1>1 DEF KeepMode
<1>2. ASSUME NEW manual \in BOOLEAN, ChangeMode(manual) PROVE ManualInv'
  BY <1>2, QueueKeepsType DEF ChangeMode
<1>3. ASSUME NEW window \in SUBSET Servos \ {{}},
             NEW got \in [Servos -> Positions \cup {Offline}], Poll(window, got)
      PROVE  ManualInv'
  <2>1. cache' \in [Servos -> Positions \cup {Offline}]
    BY <1>3 DEF Poll, Merge
  <2>2. QED
    BY <1>3, <2>1 DEF Poll
<1>4. CASE BusLost
  <2>1. cache' \in [Servos -> Positions \cup {Offline}] /\ shared' = cache'
    BY <1>4 DEF BusLost
  <2>2. QED
    BY <1>4, <2>1 DEF BusLost, NoJob
<1>5. CASE Arm
  <2>1. target' \in Pose /\ target' # NoPose
    BY <1>5, CompleteIsPose, OrElseIsPose DEF Arm, MayArm
  <2>2. QED
    BY <1>5, <2>1 DEF Arm, MayArm
<1>6. CASE GoOn
  BY <1>6 DEF GoOn
<1>7. CASE NoUtility
  BY <1>7 DEF NoUtility
<1>8. CASE StartUtility
  <2>1. seed' \in Pose \cup {NoPose}
    BY <1>8 DEF StartUtility, OrElse
  <2>2. job' \in Groups /\ queue' \in Seq(Groups)
    BY <1>8, QueueKeepsType DEF StartUtility, UtilityDue
  <2>3. QED
    BY <1>8, <2>1, <2>2 DEF StartUtility
<1>9. ASSUME NEW read \in Pose, FinishUtility(read) PROVE ManualInv'
  <2>1. target' \in Pose /\ target' # NoPose
    BY <1>9, OrElseIsPose, MergeIsPose DEF FinishUtility
  <2>2. QED
    BY <1>9, <2>1 DEF FinishUtility, NoJob
<1>10. CASE EndTick
  BY <1>10 DEF EndTick
<1>11. QED
  BY <1>1, <1>2, <1>3, <1>4, <1>5, <1>6, <1>7, <1>8, <1>9, <1>10 DEF Worker

LEMMA ManualHandlersInv == ManualInv /\ Handlers => ManualInv'
<1> SUFFICES ASSUME ManualInv, Handlers PROVE ManualInv'
  OBVIOUS
<1> USE DEF ManualInv, TypeOK, ArmedHasTarget, motionVars, manualVars,
            workerVars, NoRequest, States
<1>1. ASSUME NEW op \in Operations, CheckEnabled(op) PROVE ManualInv'
  BY <1>1 DEF CheckEnabled
<1>2. CASE ReadSnapshot
  <2>1. request'.pose \in Pose \cup {NoPose} /\ request'.op \in Operations \cup {"none"}
    BY <1>2, CompleteIsPose DEF ReadSnapshot
  <2>2. request' \in [op : Operations \cup {"none"}, pose : Pose \cup {NoPose}]
    BY <1>2, <2>1 DEF ReadSnapshot
  <2>3. QED
    BY <1>2, <2>2 DEF ReadSnapshot
<1>3. CASE Capture
  BY <1>3, NoPoseAssumption DEF Capture, Ready
<1>4. ASSUME NEW some \in Groups, NEW goals \in Pose, Apply(some, goals) PROVE ManualInv'
  <2>1. target' \in Pose /\ target' # NoPose
    BY <1>4, OrElseIsPose, MergeIsPose DEF Apply, Ready
  <2>2. QED
    BY <1>4, <2>1 DEF Apply
<1>5. CASE Reset
  <2>1. base' \in Pose /\ target' = base' /\ base' # NoPose
    BY <1>5, OrElseIsPose DEF Reset, Ready
  <2>2. QED
    BY <1>5, <2>1 DEF Reset
<1>6. ASSUME NEW some \in Groups, ResetGroup(some) PROVE ManualInv'
  <2>1. base' \in Pose
    BY <1>6, OrElseIsPose DEF ResetGroup, Ready
  <2>2. target' \in Pose /\ target' # NoPose
    BY <1>6, <2>1, OrElseIsPose, MergeIsPose DEF ResetGroup
  <2>3. QED
    BY <1>6, <2>1, <2>2 DEF ResetGroup
<1>7. CASE RefuseGroup
  BY <1>7, OrElseIsPose DEF RefuseGroup, Ready
<1>8. ASSUME NEW some \in Groups, QueueUtility(some) PROVE ManualInv'
  BY <1>8, QueueKeepsType DEF QueueUtility
<1>9. QED
  BY <1>1, <1>2, <1>3, <1>4, <1>5, <1>6, <1>7, <1>8 DEF Handlers

LEMMA ManualNextInv == ManualInv /\ [Next]_vars => ManualInv'
<1>1. ManualInv /\ UNCHANGED vars => ManualInv'
  BY DEF ManualInv, TypeOK, ArmedHasTarget, vars, motionVars, manualVars,
         workerVars
<1>2. QED
  BY <1>1, ManualWorkerInv, ManualHandlersInv DEF Next

\* Whatever handlers and worker do to each other, poses stay poses of all servos, or
\* None, and only known groups are queued (ManualControlState).
THEOREM ManualTypeCorrect == Spec => []TypeOK
<1>1. ManualInv => TypeOK
  BY DEF ManualInv
<1>2. QED
  BY <1>1, ManualInitInv, ManualNextInv, PTL DEF Spec

\* Armed manual motion always has a target of its own.
THEOREM ArmedMotionHasTarget == Spec => []ArmedHasTarget
<1>1. ManualInv => ArmedHasTarget
  BY DEF ManualInv
<1>2. QED
  BY <1>1, ManualInitInv, ManualNextInv, PTL DEF Spec

(***************************************************************************)
(* The calibration store: the invariant is inductive as it stands, torn    *)
(* and unsaved record what each failure did to the file and to the memory. *)
(***************************************************************************)
StoreInv == StoreTypeOK /\ FileHolds /\ MemoryHolds

LEMMA EmptyIsEntries == Empty \in Entries /\ [j \in Joints |-> Blank] \in Entries
BY DEF Empty, Blank, Entries, Entry

\* A file that parses says entries, and so does the memory.
LEMMA Readable == ASSUME StoreTypeOK, file # Unreadable PROVE file \in Entries
BY DEF StoreTypeOK

LEMMA EntryOfType ==
    ASSUME NEW given \in Entries, NEW j \in Joints
    PROVE  EntryOf(given, j) \in Entry
BY DEF EntryOf, Blank, Entries, Entry

LEMMA CapturedType ==
    ASSUME NEW given \in Entries, NEW joints \in SUBSET Joints, NEW ref \in References,
           NEW pose \in [Joints -> Ticks]
    PROVE  Captured(given, joints, ref, pose) \in Entries
<1>1. ASSUME NEW j \in Joints
      PROVE  [EntryOf(given, j) EXCEPT ![ref] = pose[j]] \in Entry
  BY EntryOfType DEF Entry
<1>2. ASSUME NEW j \in Joints
      PROVE  given[j] \in Entry \cup {NoEntry}
  BY DEF Entries
<1>3. QED
  BY <1>1, <1>2 DEF Captured, Entries

LEMMA ClearedType ==
    ASSUME NEW given \in Entries, NEW joints \in SUBSET Joints
    PROVE  Cleared(given, joints) \in Entries
BY DEF Cleared, Entries

LEMMA EditsType == ASSUME NEW given \in Entries PROVE Edits(given) \subseteq Entries
BY CapturedType, ClearedType DEF Edits

LEMMA CutEntryType ==
    ASSUME NEW entry \in Entry, NEW ref \in References, NEW digits \in Ticks \cup {NoTicks}
    PROVE  CutEntry(entry, ref, digits) \in Entry
BY DEF CutEntry, Entry

\* The head of a file is a file: it parses to entries, or not at all.
LEMMA HeadsType ==
    ASSUME NEW new \in Entries
    PROVE  Heads(new) \subseteq Entries \cup {Unreadable}
<1>1. \A last \in Joints : CutBefore(new, last) \in Entries
  BY DEF CutBefore, Entries
<1>2. ASSUME NEW last \in Joints, NEW ref \in References, NEW digits \in Ticks \cup {NoTicks}
      PROVE  CutIn(new, last, ref, digits) \in Entries
  <2>1. ASSUME NEW j \in Joints, new[j] # NoEntry
        PROVE  CutEntry(new[j], ref, digits) \in Entry
    BY <2>1, CutEntryType DEF Entries
  <2>2. \A j \in Joints : new[j] \in Entry \cup {NoEntry}
    BY DEF Entries
  <2>3. QED
    BY <2>1, <2>2 DEF CutIn, Entries
<1>3. QED
  BY <1>1, <1>2 DEF Heads

LEMMA StoreInitInv == StoreInit => StoreInv
BY EmptyIsEntries DEF StoreInit, StoreInv, StoreTypeOK, FileHolds, MemoryHolds, Phases

LEMMA StoreNextInv == StoreInv /\ [StoreNext]_storeVars => StoreInv'
<1> SUFFICES ASSUME StoreInv, [StoreNext]_storeVars PROVE StoreInv'
  OBVIOUS
<1> USE DEF StoreInv, StoreTypeOK, FileHolds, MemoryHolds, Phases
<1>1. CASE UNCHANGED storeVars \/ ReloadFails
  BY <1>1 DEF storeVars, ReloadFails
<1>2. CASE Start
  BY <1>2, EmptyIsEntries DEF Start
<1>3. CASE ConfigLoaded \/ EepromValidated \/ StartFails \/ LoadFails
  BY <1>3 DEF ConfigLoaded, EepromValidated, StartFails, LoadFails, Step
<1>4. CASE Load
  BY <1>4, Readable DEF Load
<1>5. CASE Stop
  BY <1>5 DEF Stop
<1>6. CASE EditedOutside
  BY <1>6, EmptyIsEntries DEF EditedOutside
<1>7. ASSUME NEW new \in Edits(entries), EditSaved(new) PROVE StoreInv'
  BY <1>7, EditsType DEF EditSaved
<1>8. ASSUME NEW new \in Edits(entries), NEW left \in Heads(new) \cup {file},
             EditNotSaved(new, left) \/ CrashInSave(left)
      PROVE  StoreInv'
  <2>1. new \in Entries
    BY EditsType
  <2>2. left \in Entries \cup {Unreadable}
    BY <2>1, HeadsType
  <2>3. CASE EditNotSaved(new, left)
    BY <2>1, <2>2, <2>3 DEF EditNotSaved
  <2>4. CASE CrashInSave(left)
    BY <2>2, <2>4 DEF CrashInSave
  <2>5. QED
    BY <1>8, <2>3, <2>4
<1>9. CASE Reload
  BY <1>9, Readable DEF Reload
<1>10. QED
  BY <1>1, <1>2, <1>3, <1>4, <1>5, <1>6, <1>7, <1>8, <1>9 DEF StoreNext

LEMMA RestartStep == StoreInv /\ [StoreNext]_storeVars => [KeptByRestart]_storeVars
<1> SUFFICES ASSUME StoreInv, StoreNext, phase # "up", phase' = "up" PROVE KeptByRestart
  BY DEF KeptByRestart
<1>1. Load
  BY DEF StoreNext, Start, ConfigLoaded, EepromValidated, StartFails, LoadFails, Step, Stop,
         EditedOutside, EditSaved, EditNotSaved, CrashInSave, Reload, ReloadFails
<1>2. QED
  BY <1>1 DEF Load, KeptByRestart, StoreInv, FileHolds

LEMMA StoreInvHolds == StoreSpec => []StoreInv
BY StoreInitInv, StoreNextInv, PTL DEF StoreSpec

(***************************************************************************)
(* The theorems                                                            *)
(***************************************************************************)
\* Whatever head of a file a failed save leaves behind, it parses to entries or
\* not at all, and the memory holds entries (SemanticCalibrationState).
THEOREM StoreTypeCorrect == StoreSpec => []StoreTypeOK
<1>1. StoreInv => StoreTypeOK
  BY DEF StoreInv
<1>2. QED
  BY <1>1, StoreInvHolds, PTL

\* The file says what was acknowledged last until a save fails or dies, or others
\* edit it (SemanticCalibrationState::save, and every edit under its write lock).
THEOREM FileIsAcknowledged == StoreSpec => []FileHolds
<1>1. StoreInv => FileHolds
  BY DEF StoreInv
<1>2. QED
  BY <1>1, StoreInvHolds, PTL

\* The memory is what was acknowledged last until a save fails after its edit; a
\* reload that cannot read the file changes nothing (SemanticCalibrationState::reload).
THEOREM MemoryIsAcknowledged == StoreSpec => []MemoryHolds
<1>1. StoreInv => MemoryHolds
  BY DEF StoreInv
<1>2. QED
  BY <1>1, StoreInvHolds, PTL

\* A restart brings back what was acknowledged unless a save was cut short, and
\* takes no file that does not parse (SemanticCalibrationState::load in main).
THEOREM RestartBringsBack == StoreSpec => RestartKeeps
BY RestartStep, StoreInvHolds, PTL DEF StoreSpec, RestartKeeps

(***************************************************************************)
(* A panel of the page                                                     *)
(***************************************************************************)
LEMMA PanelFlags ==
    Page!TypeOK <=> /\ aim \in [PanelGroups -> PanelValues] /\ panel \in Page!Panels
                    /\ group \in PanelGroups /\ slider \in PanelValues
                    /\ shown \in [PanelGroups -> PanelValues] \cup {NoState}
                    /\ seen \in Page!Levels /\ initialized \in BOOLEAN /\ syncing \in BOOLEAN
                    /\ (syncing => panel = "arm")
                    /\ live \in BOOLEAN /\ pending \in BOOLEAN /\ timer \in BOOLEAN
                    /\ clean \in BOOLEAN /\ flows \in [Slots -> Page!Flow]
BY DEF Page!TypeOK

\* An edit starts a timer, or leaves the one that runs.
LEMMA PanelSchedules ==
    ASSUME Page!TypeOK, Page!PendingHasTimer, Page!Schedule \/ UNCHANGED <<pending, timer>>
    PROVE  Page!PendingHasTimer' /\ pending' \in BOOLEAN /\ timer' \in BOOLEAN /\ (timer => timer')
<1>1. pending \in BOOLEAN /\ timer \in BOOLEAN /\ (pending <=> timer)
  BY PanelFlags DEF Page!PendingHasTimer
<1>2. (pending' = TRUE /\ timer' = TRUE) \/ (pending' = pending /\ timer' = timer)
  BY DEF Page!Schedule
<1>3. CASE pending' = TRUE /\ timer' = TRUE
  BY <1>3 DEF Page!PendingHasTimer
<1>4. CASE pending' = pending /\ timer' = timer
  BY <1>1, <1>4 DEF Page!PendingHasTimer
<1>5. QED
  BY <1>2, <1>3, <1>4

\* What new sliders are: those that were fetched, or the old ones.
LEMMA PanelSets ==
    ASSUME Page!TypeOK, NEW g \in PanelGroups, NEW force \in BOOLEAN,
           NEW values \in [PanelGroups -> PanelValues] \cup {NoState},
           Page!SetSliders(g, values, force)
    PROVE  /\ slider' \in PanelValues /\ initialized' \in BOOLEAN
           /\ slider' # slider /\ initialized => force
<1>1. slider \in PanelValues /\ initialized \in BOOLEAN
  BY PanelFlags
<1>2. CASE (force \/ ~initialized) /\ values # NoState
  BY <1>1, <1>2 DEF Page!SetSliders
<1>3. CASE ~((force \/ ~initialized) /\ values # NoState)
  BY <1>1, <1>3 DEF Page!SetSliders
<1>4. QED
  BY <1>2, <1>3

\* What a new request carries.
LEMMA PanelSends ==
    ASSUME Page!PanelInv, NEW i \in Slots, NEW kind \in Page!Kinds, NEW stage \in {"post", "get"},
           stage = "post" <=> kind # "poll", Page!Send(i, kind, stage)
    PROVE  /\ flows' \in [Slots -> Page!Flow] /\ Page!FlowsCarry'
           /\ \A j \in Slots : j # i => flows'[j] = flows[j]
           /\ flows'[i].kind = kind /\ flows'[i].stage = stage
           /\ kind = "live" => flows'[i].group = group /\ flows'[i].value = slider
<1> DEFINE flow == [kind |-> kind, stage |-> stage,
                    group |-> IF kind = "poll" THEN NoState ELSE group,
                    value |-> IF kind \in {"live", "apply"} THEN slider ELSE NoState]
<1>1. group \in PanelGroups /\ slider \in PanelValues /\ flows \in [Slots -> Page!Flow]
  BY PanelFlags DEF Page!PanelInv
<1>2. flow \in Page!Flow
  BY <1>1 DEF Page!Flow, Page!Stages
<1>3. flows' = [flows EXCEPT ![i] = flow]
  BY DEF Page!Send
<1> HIDE DEF flow
<1>4. flows' \in [Slots -> Page!Flow] /\ flows'[i] = flow
        /\ \A j \in Slots : j # i => flows'[j] = flows[j]
  BY <1>1, <1>2, <1>3
<1>5. Page!FlowsCarry'
  BY <1>1, <1>4 DEF flow, Page!PanelInv, Page!FlowsCarry
<1>6. QED
  BY <1>4, <1>5 DEF flow

\* A request that goes on after its post carries nothing any more.
LEMMA PanelAdvances ==
    ASSUME Page!PanelInv, NEW i \in Slots, NEW stage \in {"answer", "refused", "get"},
           Page!Advance(i, stage)
    PROVE  /\ flows' \in [Slots -> Page!Flow] /\ Page!FlowsCarry'
           /\ \A j \in Slots : j # i => flows'[j] = flows[j]
           /\ flows'[i].stage = stage
<1> DEFINE flow == [kind |-> flows[i].kind, stage |-> stage, group |-> NoState,
                    value |-> NoState]
<1>1. flows \in [Slots -> Page!Flow]
  BY PanelFlags DEF Page!PanelInv
<1>2. flow \in Page!Flow /\ flow.stage = stage
  BY <1>1 DEF Page!Flow, Page!Stages
<1>3. flows' = [flows EXCEPT ![i] = flow]
  BY DEF Page!Advance
<1> HIDE DEF flow
<1>4. /\ flows' \in [Slots -> Page!Flow] /\ flows'[i].stage = stage
      /\ \A j \in Slots : j # i => flows'[j] = flows[j]
  BY <1>1, <1>2, <1>3
<1>5. Page!FlowsCarry'
  BY <1>4 DEF Page!PanelInv, Page!FlowsCarry
<1>6. QED
  BY <1>4, <1>5

LEMMA PanelIsDone ==
    ASSUME Page!PanelInv, NEW i \in Slots, Page!Done(i)
    PROVE  /\ flows' \in [Slots -> Page!Flow] /\ Page!FlowsCarry'
           /\ \A j \in Slots : j # i => flows'[j] = flows[j]
           /\ flows'[i].stage = "none" /\ flows'[i] = Page!Idle
<1>1. flows \in [Slots -> Page!Flow] /\ Page!Idle \in Page!Flow /\ Page!Idle.stage = "none"
  BY PanelFlags DEF Page!PanelInv, Page!Idle, Page!Flow, Page!Kinds, Page!Stages
<1>2. /\ flows' \in [Slots -> Page!Flow] /\ flows'[i] = Page!Idle
      /\ \A j \in Slots : j # i => flows'[j] = flows[j]
  BY <1>1 DEF Page!Done
<1>3. Page!FlowsCarry'
  BY <1>1, <1>2 DEF Page!PanelInv, Page!FlowsCarry
<1>4. QED
  BY <1>1, <1>2, <1>3

\* A step that starts and ends no post, and moves neither a clean slider nor its target.
LEMMA PanelRests ==
    ASSUME Page!PanelInv, Page!TypeOK', Page!PendingHasTimer', Page!FlowsCarry',
           clean' => clean /\ slider' = slider, UNCHANGED <<aim, group>>, timer => timer',
           \A j \in Slots : Page!Writing(j)' => Page!Writing(j) /\ flows'[j] = flows[j],
           \A j \in Slots : Page!Writing(j) => Page!Writing(j)'
    PROVE  Page!PanelInv'
<1>1. Page!PostsSlider'
  BY DEF Page!PanelInv, Page!PostsSlider
<1>2. Page!RestsAtSlider'
  BY DEF Page!PanelInv, Page!RestsAtSlider
<1>3. QED
  BY <1>1, <1>2 DEF Page!PanelInv

LEMMA PanelNotClean ==
    ASSUME Page!TypeOK', Page!PendingHasTimer', Page!FlowsCarry', ~clean'
    PROVE  Page!PanelInv'
BY DEF Page!PanelInv, Page!PostsSlider, Page!RestsAtSlider

LEMMA PanelStart == Page!Init => Page!PanelInv
<1> SUFFICES ASSUME Page!Init PROVE Page!PanelInv
  OBVIOUS
<1>1. Page!Idle \in Page!Flow /\ Page!Idle.stage = "none"
  BY DEF Page!Idle, Page!Flow, Page!Kinds, Page!Stages
<1>2. clean = FALSE /\ pending = FALSE /\ timer = FALSE /\ flows = [i \in Slots |-> Page!Idle]
  BY DEF Page!Init
<1>3. Page!TypeOK
  BY <1>1, PanelFlags DEF Page!Init, Page!Levels
<1>4. Page!FlowsCarry
  BY <1>1, <1>2 DEF Page!FlowsCarry
<1>5. QED
  BY <1>2, <1>3, <1>4 DEF Page!PanelInv, Page!PendingHasTimer, Page!PostsSlider, Page!RestsAtSlider

\* The slider, its group and the live-apply box.
LEMMA PanelEdits ==
    ASSUME Page!PanelInv, NEW value \in PanelValues, Page!Edit(value)
    PROVE  Page!PanelInv'
<1>1. Page!TypeOK /\ Page!PendingHasTimer /\ Page!FlowsCarry
  BY DEF Page!PanelInv
<1>2. Page!PendingHasTimer' /\ pending' \in BOOLEAN /\ timer' \in BOOLEAN
  BY <1>1, PanelSchedules DEF Page!Edit
<1>3. UNCHANGED <<aim, panel, group, shown, seen, initialized, syncing, live, flows>>
        /\ slider' = value /\ clean' = (live /\ \A i \in Slots : ~Page!Writing(i))
  BY DEF Page!Edit
<1>4. Page!TypeOK' /\ Page!FlowsCarry'
  BY <1>1, <1>2, <1>3, PanelFlags DEF Page!TypeOK, Page!FlowsCarry
<1>5. CASE ~clean'
  BY <1>2, <1>4, <1>5, PanelNotClean
<1>6. CASE clean'
  <2>1. live /\ \A i \in Slots : ~Page!Writing(i)'
    BY <1>3, <1>6 DEF Page!Writing
  <2>2. timer' = TRUE
    BY <2>1 DEF Page!Edit, Page!Schedule
  <2>3. QED
    BY <1>2, <1>4, <2>1, <2>2 DEF Page!PanelInv, Page!PostsSlider, Page!RestsAtSlider
<1>7. QED
  BY <1>5, <1>6

LEMMA PanelSwitchesLive ==
    ASSUME Page!PanelInv, Page!SwitchLive
    PROVE  Page!PanelInv'
<1>1. UNCHANGED <<aim, panel, group, slider, shown, seen, initialized, syncing, pending, timer,
                  flows, clean>> /\ live' \in BOOLEAN
  BY DEF Page!SwitchLive, Page!controls
<1>2. Page!TypeOK'
  BY <1>1, PanelFlags DEF Page!PanelInv, Page!TypeOK
<1>3. QED
  BY <1>1, <1>2, PanelRests DEF Page!PanelInv, Page!PendingHasTimer, Page!FlowsCarry, Page!Writing

LEMMA PanelSelects ==
    ASSUME Page!PanelInv, NEW g \in PanelGroups, Page!SelectGroup(g)
    PROVE  Page!PanelInv'
<1>1. /\ UNCHANGED <<aim, panel, shown, seen, syncing, live, pending, timer, flows>>
      /\ group' = g /\ Page!SetSliders(g, shown, TRUE) /\ clean' = FALSE
  BY DEF Page!SelectGroup, Page!liveVars
<1>2. slider' \in PanelValues /\ initialized' \in BOOLEAN
  BY <1>1, PanelFlags, PanelSets DEF Page!PanelInv
<1>3. Page!TypeOK'
  BY <1>1, <1>2, PanelFlags DEF Page!PanelInv, Page!TypeOK
<1>4. QED
  BY <1>1, <1>3, PanelNotClean DEF Page!PanelInv, Page!PendingHasTimer, Page!FlowsCarry

LEMMA PanelFires ==
    ASSUME Page!PanelInv, NEW i \in Slots, Page!Fire(i)
    PROVE  Page!PanelInv'
<1>1. /\ UNCHANGED <<aim, panel, group, slider, shown, seen, initialized, syncing, live>>
      /\ pending' = FALSE /\ timer' = FALSE /\ Page!Send(i, "live", "post")
      /\ clean' = (clean /\ \A j \in Slots : ~Page!Writing(j))
  BY DEF Page!Fire, Page!controls
<1>2. /\ flows' \in [Slots -> Page!Flow] /\ Page!FlowsCarry'
      /\ \A j \in Slots : j # i => flows'[j] = flows[j]
      /\ flows'[i].kind = "live" /\ flows'[i].stage = "post"
      /\ flows'[i].group = group /\ flows'[i].value = slider
  BY <1>1, PanelSends DEF Page!Kinds
<1>3. clean' \in BOOLEAN
  BY <1>1
<1>4. Page!TypeOK' /\ Page!PendingHasTimer'
  BY <1>1, <1>2, <1>3, PanelFlags DEF Page!PanelInv, Page!TypeOK, Page!PendingHasTimer
<1>5. CASE ~clean'
  BY <1>2, <1>4, <1>5, PanelNotClean
<1>6. CASE clean'
  <2>1. \A j \in Slots : j # i => ~Page!Writing(j)'
    BY <1>1, <1>2, <1>6 DEF Page!Writing
  <2>2. Page!PostsSlider'
    BY <1>1, <1>2, <2>1 DEF Page!PostsSlider
  <2>3. Page!Writing(i)'
    BY <1>2 DEF Page!Writing
  <2>4. QED
    BY <1>2, <1>4, <2>2, <2>3 DEF Page!PanelInv, Page!RestsAtSlider
<1>7. QED
  BY <1>5, <1>6

LEMMA PanelClicks ==
    ASSUME Page!PanelInv, NEW i \in Slots, NEW kind \in Page!Buttons, Page!Click(i, kind)
    PROVE  Page!PanelInv'
<1>1. /\ UNCHANGED <<aim, panel, group, slider, shown, seen, initialized, syncing, live, pending,
                     timer>>
      /\ Page!Send(i, kind, "post") /\ clean' = FALSE
  BY DEF Page!Click, Page!controls, Page!liveVars
<1>2. flows' \in [Slots -> Page!Flow] /\ Page!FlowsCarry'
  BY <1>1, PanelSends DEF Page!Kinds, Page!Buttons
<1>3. Page!TypeOK' /\ Page!PendingHasTimer'
  BY <1>1, <1>2, PanelFlags DEF Page!PanelInv, Page!TypeOK, Page!PendingHasTimer
<1>4. QED
  BY <1>1, <1>2, <1>3, PanelNotClean

LEMMA PanelPolls ==
    ASSUME Page!PanelInv, NEW i \in Slots, Page!Poll(i)
    PROVE  Page!PanelInv'
<1>1. /\ UNCHANGED <<aim, panel, group, slider, shown, seen, initialized, syncing, live, pending,
                     timer, clean>>
      /\ Page!Send(i, "poll", "get") /\ flows[i] = Page!Idle
  BY DEF Page!Poll, Page!Send, Page!Free, Page!controls, Page!liveVars
<1>2. /\ flows' \in [Slots -> Page!Flow] /\ Page!FlowsCarry'
      /\ \A j \in Slots : j # i => flows'[j] = flows[j]
      /\ flows'[i].stage = "get"
  BY <1>1, PanelSends DEF Page!Kinds
<1>3. Page!TypeOK' /\ Page!PendingHasTimer'
  BY <1>1, <1>2, PanelFlags DEF Page!PanelInv, Page!TypeOK, Page!PendingHasTimer
<1>4. \A j \in Slots : Page!Writing(j)' <=> Page!Writing(j)
  BY <1>1, <1>2 DEF Page!Writing, Page!Idle
<1>5. \A j \in Slots : Page!Writing(j)' => flows'[j] = flows[j]
  BY <1>2 DEF Page!Writing
<1>6. QED
  BY <1>1, <1>2, <1>3, <1>4, <1>5, PanelRests

\* The handler of a post moves the target of its own group; a post of a clean slider
\* moves it to where the slider is.
LEMMA PanelHandles ==
    ASSUME Page!PanelInv, NEW i \in Slots, NEW value \in PanelValues, Page!Handle(i, value)
    PROVE  Page!PanelInv'
<1>1. /\ UNCHANGED <<panel, group, slider, shown, seen, initialized, syncing, live, pending, timer>>
      /\ flows[i].stage = "post" /\ flows[i] \in Page!Flow
      /\ Page!TypeOK /\ Page!PendingHasTimer /\ Page!FlowsCarry
  BY PanelFlags DEF Page!Handle, Page!controls, Page!liveVars, Page!PanelInv
<1>2. flows[i].kind # "poll" /\ flows[i].group \in PanelGroups
        /\ (flows[i].kind \in {"live", "apply"} => flows[i].value \in PanelValues)
  BY <1>1 DEF Page!FlowsCarry
<1>3. CASE Page!Advance(i, "refused") /\ clean' = FALSE /\ UNCHANGED aim
  <2>1. flows' \in [Slots -> Page!Flow] /\ Page!FlowsCarry'
    BY <1>3, PanelAdvances
  <2>2. Page!TypeOK' /\ Page!PendingHasTimer'
    BY <1>1, <1>3, <2>1, PanelFlags DEF Page!TypeOK, Page!PendingHasTimer
  <2>3. QED
    BY <1>3, <2>1, <2>2, PanelNotClean
<1>4. CASE /\ Page!Advance(i, "answer") /\ clean' = clean
           /\ aim' = IF flows[i].kind \in {"utility", "limit"} THEN aim
                     ELSE [aim EXCEPT ![flows[i].group] =
                             IF flows[i].kind = "jump" THEN value ELSE flows[i].value]
  <2>1. /\ flows' \in [Slots -> Page!Flow] /\ Page!FlowsCarry'
        /\ \A j \in Slots : j # i => flows'[j] = flows[j]
        /\ flows'[i].stage = "answer"
    BY <1>4, PanelAdvances
  <2>2. flows[i].kind \in {"live", "apply", "jump", "utility", "limit"}
    BY <1>1, <1>2 DEF Page!Flow, Page!Kinds, Page!Buttons
  <2>3. aim' \in [PanelGroups -> PanelValues]
    BY <1>1, <1>2, <1>4, <2>2, PanelFlags
  <2>4. Page!TypeOK' /\ Page!PendingHasTimer'
    BY <1>1, <1>4, <2>1, <2>3, PanelFlags DEF Page!TypeOK, Page!PendingHasTimer
  <2>5. \A j \in Slots : Page!Writing(j)' => Page!Writing(j) /\ flows'[j] = flows[j]
    BY <2>1 DEF Page!Writing
  <2>6. Page!PostsSlider'
    BY <1>1, <1>4, <2>5 DEF Page!PanelInv, Page!PostsSlider
  <2>7. ASSUME clean PROVE aim'[group] = slider
    <3>1. Page!Writing(i)
      BY <1>1, <1>2 DEF Page!Writing
    <3>2. flows[i].kind = "live" /\ flows[i].group = group /\ flows[i].value = slider
      BY <2>7, <3>1 DEF Page!PanelInv, Page!PostsSlider
    <3>3. QED
      BY <1>1, <1>4, <3>2, PanelFlags
  <2>8. Page!RestsAtSlider'
    BY <1>1, <1>4, <2>7 DEF Page!RestsAtSlider
  <2>9. QED
    BY <2>1, <2>4, <2>6, <2>8 DEF Page!PanelInv
<1>5. QED
  BY <1>3, <1>4 DEF Page!Handle

\* The answer leaves no post behind, and the arm's flag only on its panel.
LEMMA PanelAnswers ==
    ASSUME Page!PanelInv, NEW i \in Slots, Page!Answered(i)
    PROVE  Page!PanelInv'
<1>1. /\ UNCHANGED <<aim, panel, group, slider, shown, seen, initialized, live, pending, timer,
                     clean>>
      /\ Page!Advance(i, "get") /\ flows[i].stage = "answer"
      /\ syncing' = (syncing \/ (panel = "arm" /\ flows[i].kind = "limit"))
  BY DEF Page!Answered, Page!liveVars
<1>2. /\ flows' \in [Slots -> Page!Flow] /\ Page!FlowsCarry'
      /\ \A j \in Slots : j # i => flows'[j] = flows[j]
      /\ flows'[i].stage = "get"
  BY <1>1, PanelAdvances
<1>3. syncing' \in BOOLEAN /\ (syncing' => panel = "arm")
  BY <1>1, PanelFlags DEF Page!PanelInv
<1>4. Page!TypeOK' /\ Page!PendingHasTimer'
  BY <1>1, <1>2, <1>3, PanelFlags DEF Page!PanelInv, Page!TypeOK, Page!PendingHasTimer
<1>5. \A j \in Slots : Page!Writing(j)' <=> Page!Writing(j)
  BY <1>1, <1>2 DEF Page!Writing
<1>6. \A j \in Slots : Page!Writing(j)' => flows'[j] = flows[j]
  BY <1>1, <1>2 DEF Page!Writing
<1>7. QED
  BY <1>1, <1>2, <1>4, <1>5, <1>6, PanelRests

\* What the end of a request leaves of the panel, whatever it fetched.
LEMMA PanelShows ==
    ASSUME Page!PanelInv, NEW i \in Slots,
           Page!Refused(i) \/ (\E state \in Page!Published : Page!Update(i, state))
             \/ Page!UpdateFailed(i)
    PROVE  /\ slider' \in PanelValues /\ initialized' \in BOOLEAN /\ clean' \in BOOLEAN
           /\ clean' => clean /\ slider' = slider
           /\ shown' \in [PanelGroups -> PanelValues] \cup {NoState}
           /\ seen' \in Page!Levels /\ syncing' \in BOOLEAN /\ (syncing' => syncing)
<1>1. Page!TypeOK
  BY DEF Page!PanelInv
<1>2. CASE Page!Refused(i)
  BY <1>1, <1>2, PanelFlags DEF Page!Refused, Page!controls
<1>3. ASSUME NEW state \in Page!Published, Page!Update(i, state)
      PROVE  /\ slider' \in PanelValues /\ initialized' \in BOOLEAN /\ clean' \in BOOLEAN
             /\ clean' => clean /\ slider' = slider
             /\ shown' \in [PanelGroups -> PanelValues] \cup {NoState}
             /\ seen' \in Page!Levels /\ syncing' \in BOOLEAN /\ (syncing' => syncing)
  <2>1. /\ state.values \in [PanelGroups -> PanelValues] \cup {NoState}
        /\ state.level \in Page!Levels
    BY DEF Page!Published, Page!Telemetry
  <2>2. PICK force \in BOOLEAN : Page!SetSliders(group, state.values, force)
    BY <1>3 DEF Page!Update
  <2>3. slider' \in PanelValues /\ initialized' \in BOOLEAN
    BY <1>1, <2>1, <2>2, PanelFlags, PanelSets
  <2>4. clean' = (clean /\ slider' = slider) /\ syncing' = (syncing /\ ~Page!SyncEnds(state))
    BY <1>3 DEF Page!Update
  <2>5. shown' = state.values /\ seen' = state.level
    BY <1>3 DEF Page!Update
  <2>6. QED
    BY <2>1, <2>3, <2>4, <2>5
<1>4. CASE Page!UpdateFailed(i)
  <2>1. UNCHANGED <<shown, seen, syncing>> /\ clean' = (clean /\ slider' = slider)
    BY <1>4 DEF Page!UpdateFailed
  <2>2. slider' \in PanelValues /\ initialized' \in BOOLEAN
    <3>1. CASE UNCHANGED <<slider, initialized>>
      BY <1>1, <3>1, PanelFlags
    <3>2. CASE Page!SetSliders(group, shown, TRUE)
      BY <1>1, <3>2, PanelFlags, PanelSets
    <3>3. QED
      BY <1>4, <3>1, <3>2 DEF Page!UpdateFailed
  <2>3. QED
    BY <1>1, <2>1, <2>2, PanelFlags
<1>5. QED
  BY <1>2, <1>3, <1>4

\* What follows the await of a request.
LEMMA PanelResumes ==
    ASSUME Page!PanelInv, NEW i \in Slots,
           Page!Refused(i) \/ (\E state \in Page!Published : Page!Update(i, state))
             \/ Page!UpdateFailed(i)
    PROVE  Page!PanelInv'
<1>1. /\ UNCHANGED <<aim, panel, group, live>> /\ Page!Done(i)
      /\ Page!Schedule \/ UNCHANGED <<pending, timer>>
      /\ flows[i].stage \in {"refused", "answer", "get"}
  BY DEF Page!Refused, Page!Update, Page!UpdateFailed, Page!ScheduleAgain, Page!controls
<1>2. Page!TypeOK /\ Page!PendingHasTimer /\ Page!FlowsCarry
  BY DEF Page!PanelInv
<1>3. Page!PendingHasTimer' /\ pending' \in BOOLEAN /\ timer' \in BOOLEAN /\ (timer => timer')
  BY <1>1, <1>2, PanelSchedules
<1>4. /\ flows' \in [Slots -> Page!Flow] /\ Page!FlowsCarry'
      /\ \A j \in Slots : j # i => flows'[j] = flows[j]
      /\ flows'[i].stage = "none"
  BY <1>1, PanelIsDone
<1>5. Page!TypeOK'
  BY <1>1, <1>2, <1>3, <1>4, PanelShows, PanelFlags DEF Page!TypeOK
<1>6. \A j \in Slots : Page!Writing(j)' <=> Page!Writing(j)
  BY <1>1, <1>4 DEF Page!Writing
<1>7. \A j \in Slots : Page!Writing(j)' => flows'[j] = flows[j]
  BY <1>4 DEF Page!Writing
<1>8. clean' => clean /\ slider' = slider
  BY PanelShows
<1>9. QED
  BY <1>1, <1>3, <1>4, <1>5, <1>6, <1>7, <1>8, PanelRests

\* What the worker and other pages do meanwhile.
LEMMA PanelOthers ==
    ASSUME Page!PanelInv, Page!OthersMove
    PROVE  Page!PanelInv'
<1>1. /\ UNCHANGED <<panel, group, slider, shown, seen, initialized, syncing, live, pending, timer,
                     flows>>
      /\ aim' \in [PanelGroups -> PanelValues] /\ clean' = FALSE
  BY DEF Page!OthersMove, Page!controls, Page!liveVars
<1>2. Page!TypeOK'
  BY <1>1, PanelFlags DEF Page!PanelInv, Page!TypeOK
<1>3. QED
  BY <1>1, <1>2, PanelNotClean DEF Page!PanelInv, Page!PendingHasTimer, Page!FlowsCarry

LEMMA PanelStep ==
    ASSUME Page!PanelInv, Page!Next
    PROVE  Page!PanelInv'
BY PanelEdits, PanelSwitchesLive, PanelSelects, PanelFires, PanelClicks, PanelPolls, PanelHandles,
   PanelAnswers, PanelResumes, PanelOthers
   DEF Page!Next

\* A slider moves by the user's hand, by the request of a button, when the panel
\* comes on, or when the arm's torque sync ends.
LEMMA PanelKeeps ==
    ASSUME Page!PanelInv, Page!Next
    PROVE  Page!KeepsSliders
<1> SUFFICES ASSUME initialized, group' = group, slider' # slider, flows' # flows
             PROVE  \/ \E i \in Slots : /\ ~Page!Free(i) /\ Page!Forces(flows[i].kind)
                                        /\ flows'[i] = Page!Idle
                    \/ seen' # seen /\ seen' # "off"
                    \/ syncing /\ ~syncing'
  BY DEF Page!KeepsSliders
<1>1. PICK i \in Slots :
        (\E state \in Page!Published : Page!Update(i, state)) \/ Page!UpdateFailed(i)
  BY DEF Page!Next, Page!Edit, Page!SwitchLive, Page!SelectGroup, Page!Fire, Page!Click, Page!Poll,
         Page!Handle, Page!Answered, Page!Refused, Page!OthersMove, Page!controls
<1>2. flows'[i] = Page!Idle /\ ~Page!Free(i)
  BY <1>1, PanelIsDone DEF Page!Update, Page!UpdateFailed, Page!Free, Page!Idle
<1>3. ASSUME NEW state \in Page!Published, Page!Update(i, state)
      PROVE  \/ Page!Forces(flows[i].kind)
             \/ seen' # seen /\ seen' # "off"
             \/ syncing /\ ~syncing'
  <2>1. CASE Page!Comes(state.level)
    BY <1>3, <2>1 DEF Page!Update, Page!Comes
  <2>2. CASE syncing /\ state.summary = "done"
    BY <1>3, <2>2 DEF Page!Update, Page!SyncEnds
  <2>3. CASE ~(Page!Comes(state.level) \/ (syncing /\ state.summary = "done"))
    BY <1>3, <2>3 DEF Page!Update, Page!SetSliders
  <2>4. QED
    BY <2>1, <2>2, <2>3
<1>4. CASE Page!UpdateFailed(i)
  BY <1>2, <1>4 DEF Page!UpdateFailed
<1>5. QED
  BY <1>1, <1>2, <1>3, <1>4

(***************************************************************************)
(* The tilted stand                                                        *)
(***************************************************************************)
LEMMA TiltConstants ==
    /\ Limit \in Nat /\ StartPitch \in Int /\ StartRoll \in Int /\ Asked \subseteq Int
    /\ Lowest \in Int /\ Highest \in Int /\ 0 \in Lowest .. Highest
    /\ \A foot \in Feet : foot[1] \in Int /\ foot[2] \in Int /\ foot[1] \in Lowest .. Highest
BY StandAssumption

LEMMA ClampedRange == ASSUME NEW angle \in Int PROVE Tilt!Clamped(angle) \in Tilt!Range(Limit)
BY TiltConstants DEF Tilt!Clamped, Tilt!Clamp, Tilt!Range

LEMMA LevelRange == 0 \in Tilt!Range(Limit)
BY TiltConstants DEF Tilt!Range

\* No leg is sent where it does not reach.
LEMMA TiltedReached ==
    ASSUME NEW from \in Tilt!Stances, NEW p, NEW r
    PROVE  Tilt!Tilted(from, p, r) \in Tilt!Stances
BY DEF Tilt!Tilted, Tilt!Stances

LEMMA TiltStart == Tilt!Init => Tilt!TiltInv
<1> SUFFICES ASSUME Tilt!Init PROVE Tilt!TiltInv
  OBVIOUS
<1>1. slider \in Tilt!Range(Limit) /\ shown \in Tilt!Range(Limit)
  BY ClampedRange, TiltConstants DEF Tilt!Init
<1>2. aim \in Tilt!Stances
  <2>1. [foot \in Feet |-> 0] \in Tilt!Stances
    BY TiltConstants DEF Tilt!Stances, Tilt!Heights
  <2>2. \A foot \in Feet : Tilt!Rise(foot, 1, 0) = foot[1]
    BY TiltConstants DEF Tilt!Rise
  <2>3. [foot \in Feet |-> Tilt!Rise(foot, 1, 0)] \in Tilt!Stances
    BY <2>2, TiltConstants DEF Tilt!Stances, Tilt!Heights
  <2>4. QED
    BY <2>1, <2>3 DEF Tilt!Init
<1>3. Tilt!TypeOK
  BY <1>1, <1>2 DEF Tilt!Init, Tilt!TypeOK
<1>4. QED
  BY <1>3 DEF Tilt!TiltInv, Tilt!LateIsCrossed, Tilt!SlidersStartOver, Tilt!Init

LEMMA TiltStep ==
    ASSUME Tilt!TiltInv, Tilt!Next
    PROVE  Tilt!TiltInv'
<1> USE DEF Tilt!TiltInv, Tilt!TypeOK, Tilt!LateIsCrossed, Tilt!SlidersStartOver, Tilt!sliders,
            Tilt!Requests
<1>1. ASSUME NEW tilted \in BOOLEAN, Tilt!ChangeMode(tilted) PROVE Tilt!TiltInv'
  BY <1>1, ClampedRange, TiltConstants DEF Tilt!ChangeMode
<1>2. CASE Tilt!Arm
  BY <1>2 DEF Tilt!Arm
<1>3. CASE Tilt!Command
  BY <1>3, TiltedReached DEF Tilt!Command
<1>4. CASE Tilt!LinkLost
  BY <1>4 DEF Tilt!LinkLost
<1>5. CASE Tilt!Settle
  <2>1. [foot \in Feet |-> 0] \in Tilt!Stances
    BY TiltConstants DEF Tilt!Stances, Tilt!Heights
  <2>2. QED
    BY <1>5, <2>1 DEF Tilt!Settle
<1>6. ASSUME NEW op \in Tilt!Requests, Tilt!LetIn(op) PROVE Tilt!TiltInv'
  BY <1>6 DEF Tilt!LetIn
<1>7. ASSUME NEW op \in Tilt!Requests, Tilt!Wrote(op),
             slider' \in Tilt!Range(Limit), shown' \in Tilt!Range(Limit)
      PROVE  Tilt!TiltInv'
  <2>1. UNCHANGED <<live, group, aim>> /\ flows' = "none" /\ flows # "none" /\ clean' = FALSE
    BY <1>7 DEF Tilt!Wrote
  <2>2. initialized' \in BOOLEAN /\ (initialized' <=> initialized \/ clean)
    BY <1>7 DEF Tilt!Wrote
  <2>3. Tilt!TypeOK'
    BY <1>7, <2>1, <2>2
  <2>4. ~live => initialized'
    BY <2>1, <2>2
  <2>5. QED
    BY <2>1, <2>3, <2>4
<1>8. ASSUME NEW p \in Asked, NEW r \in Asked, Tilt!Apply(p, r) PROVE Tilt!TiltInv'
  BY <1>7, <1>8, ClampedRange, TiltConstants DEF Tilt!Apply
<1>9. CASE Tilt!Reset
  BY <1>7, <1>9, LevelRange DEF Tilt!Reset
<1>10. QED
  BY <1>1, <1>2, <1>3, <1>4, <1>5, <1>6, <1>8, <1>9 DEF Tilt!Next

\* The stance that is commanded is the sliders' over the one motion was armed at.
LEMMA TiltTilts ==
    ASSUME Tilt!TiltInv, Tilt!Next
    PROVE  Tilt!TiltsOrStays
<1> SUFFICES ASSUME live, group # NoStance, aim' # aim, NEW foot \in Feet
             PROVE  aim'[foot] \in {group[foot], Tilt!Wanted(group, foot, slider, shown)}
  BY DEF Tilt!TiltsOrStays
<1>1. Tilt!Command
  BY DEF Tilt!Next, Tilt!ChangeMode, Tilt!Arm, Tilt!LinkLost, Tilt!Settle, Tilt!LetIn, Tilt!Apply,
         Tilt!Reset, Tilt!Wrote
<1>2. QED
  BY <1>1 DEF Tilt!Command, Tilt!Tilted

(***************************************************************************)
(* One of them runs                                                        *)
(***************************************************************************)
PartsInv ==
    /\ ManualInv
    /\ StoreInv
    /\ part = "page" => Page!PanelInv
    /\ part = "tilt" => Tilt!TiltInv

LEMMA PartsStart == PartsInit => PartsInv
BY ManualInitInv, StoreInitInv, PanelStart, TiltStart
   DEF PartsInit, PartsInv, ManualRests, StoreRests

LEMMA PanelStutters == Page!PanelInv /\ UNCHANGED pageVars => Page!PanelInv'
BY DEF Page!PanelInv, Page!TypeOK, Page!PendingHasTimer, Page!FlowsCarry, Page!PostsSlider,
       Page!RestsAtSlider, Page!Writing, pageVars, pageOnly

LEMMA TiltStutters == Tilt!TiltInv /\ UNCHANGED pageVars => Tilt!TiltInv'
BY DEF Tilt!TiltInv, Tilt!TypeOK, Tilt!LateIsCrossed, Tilt!SlidersStartOver, pageVars

\* A step of a part is a step of its program, and none of the others.
LEMMA PartsMoves ==
    ASSUME [PartsNext]_partsVars
    PROVE  /\ part' = part
           /\ [Next]_vars /\ [StoreNext]_storeVars
           /\ part = "page" => Page!Next \/ UNCHANGED pageVars
           /\ part = "tilt" => Tilt!Next \/ UNCHANGED pageVars
BY DEF PartsNext, partsVars

LEMMA PartsStep == PartsInv /\ [PartsNext]_partsVars => PartsInv'
<1> SUFFICES ASSUME PartsInv, [PartsNext]_partsVars PROVE PartsInv'
  OBVIOUS
<1>1. ManualInv' /\ StoreInv'
  BY PartsMoves, ManualNextInv, StoreNextInv DEF PartsInv
<1>2. part = "page" => Page!PanelInv'
  BY PartsMoves, PanelStep, PanelStutters DEF PartsInv
<1>3. part = "tilt" => Tilt!TiltInv'
  BY PartsMoves, TiltStep, TiltStutters DEF PartsInv
<1>4. QED
  BY <1>1, <1>2, <1>3, PartsMoves DEF PartsInv

\* Every part of the brain around its control loop keeps its invariant.
THEOREM PartsInvariant == PartsSpec => []PartsInv
BY PartsStart, PartsStep, PTL DEF PartsSpec

\* Every part's variables stay within their types: a request moves no target but its
\* group's, a slider shows a position, no leg is sent where it does not reach.
THEOREM PartsTypeCorrect == PartsSpec => []PartsTypeOK
<1>1. PartsInv => PartsTypeOK
  BY DEF PartsInv, PartsTypeOK, ManualInv, StoreInv, Page!PanelInv, Tilt!TiltInv
<1>2. QED
  BY <1>1, PartsInvariant, PTL

\* The page's sliders and the brain's target agree (scheduleLive*Apply, apply*, refresh
\* and update*Panel of the dashboard, against the handlers of the brain).
THEOREM SlidersAgree == PartsSpec => SlidersAndTargetAgree
<1>1. PartsInv => (part = "page" => Page!PendingHasTimer) /\ (part = "page" => Page!RestsAtSlider)
  BY DEF PartsInv, Page!PanelInv
<1>2. PartsInv /\ [PartsNext]_partsVars => [part = "page" => Page!KeepsSliders]_partsVars
  <2> SUFFICES ASSUME PartsInv, PartsNext, part = "page" PROVE Page!KeepsSliders
    OBVIOUS
  <2>1. Page!Next
    BY DEF PartsNext
  <2>2. QED
    BY <2>1, PanelKeeps DEF PartsInv
<1>3. QED
  BY <1>1, <1>2, PartsInvariant, PTL DEF PartsSpec, SlidersAndTargetAgree

\* The tilted stand tilts by its sliders, which start over with the mode
\* (MotionRuntime::commands, sync_tilted_stand_mode_state and the handlers).
THEOREM TiltIsTheSliders == PartsSpec => TiltFollowsSliders
<1>1. PartsInv => (part = "tilt" => Tilt!SlidersStartOver)
  BY DEF PartsInv, Tilt!TiltInv
<1>2. PartsInv /\ [PartsNext]_partsVars => [part = "tilt" => Tilt!TiltsOrStays]_partsVars
  <2> SUFFICES ASSUME PartsInv, PartsNext, part = "tilt" PROVE Tilt!TiltsOrStays
    OBVIOUS
  <2>1. Tilt!Next
    BY DEF PartsNext
  <2>2. QED
    BY <2>1, TiltTilts DEF PartsInv
<1>3. QED
  BY <1>1, <1>2, PartsInvariant, PTL DEF PartsSpec, TiltFollowsSliders

\* What the other theorems say of manual control and of the store by themselves holds
\* where one of them runs and the others rest.
THEOREM PartsKeepTheirWord ==
    PartsSpec => /\ [](ArmedHasTarget /\ FileHolds /\ MemoryHolds)
                 /\ RestartKeeps
<1>1. PartsInv => ArmedHasTarget /\ FileHolds /\ MemoryHolds
  BY DEF PartsInv, ManualInv, StoreInv
<1>2. PartsInv /\ [PartsNext]_partsVars => [KeptByRestart]_storeVars
  BY PartsMoves, RestartStep DEF PartsInv
<1>3. QED
  BY <1>1, <1>2, PartsInvariant, PTL DEF PartsSpec, RestartKeeps

================================================================================
