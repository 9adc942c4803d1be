---------------------------- MODULE CalibrationStore ----------------------------
(***************************************************************************)
(* The semantic calibration store of arachno-brain: the reference ticks in *)
(* memory, the TOML file they are saved in, and the start of the process   *)
(* that loads it.                                                          *)
(*                                                                         *)
(* A handler edits the memory and saves it under one write lock, so nobody *)
(* sees the state in between; but the save may fail after the edit, and    *)
(* fs::write truncates the file before it writes: whatever stops it leaves *)
(* the head of the file. An entry whose last lines are cut off still       *)
(* parses, and so does a number without its last digits.                   *)
(***************************************************************************)
EXTENDS CalibrationEntries

VARIABLES
    phase,    \* how far the process is in main: down, config, eeprom, load, up
    entries,  \* SemanticCalibrationState.entries
    file,     \* what the file says; a missing file says no entry
    acked,    \* history: the entries the last successful answer was about
    torn,     \* history: was the file damaged since, or edited by others?
    unsaved   \* history: did a save fail since, after the memory was edited?

storeVars == <<phase, entries, file, acked, torn, unsaved>>

Phases == {"down", "config", "eeprom", "load", "up"}
StoreTypeOK ==
    /\ phase \in Phases
    /\ entries \in Entries
    /\ file \in Entries \cup {Unreadable}
    /\ acked \in Entries
    /\ torn \in BOOLEAN
    /\ unsaved \in BOOLEAN

StoreInit ==
    /\ phase = "down"
    /\ entries = Empty
    /\ file \in {Empty, [j \in Joints |-> Blank]}
    /\ acked = file
    /\ torn = FALSE
    /\ unsaved = FALSE

(***************************************************************************)
(* Starting                                                                *)
(***************************************************************************)
Step(from, to) ==
    /\ phase = from
    /\ phase' = to
    /\ UNCHANGED <<entries, file, acked, torn, unsaved>>

\* main: the process starts over with nothing in memory.
Start ==
    /\ phase = "down"
    /\ phase' = "config"
    /\ entries' = Empty
    /\ unsaved' = FALSE
    /\ UNCHANGED <<file, acked, torn>>

\* RobotConfig::load_from_path, then validate_servo_eeprom_profile. Each failure,
\* at any of these steps, ends main.
ConfigLoaded == Step("config", "eeprom")
EepromValidated == Step("eeprom", "load")
StartFails == \E from \in {"config", "eeprom"} : Step(from, "down")

\* Mutant: a file that does not parse starts an empty calibration.
LoadAnything ==
    /\ phase = "load"
    /\ phase' = "up"
    /\ entries' = IF file = Unreadable THEN Empty ELSE file
    /\ acked' = entries'
    /\ torn' = FALSE
    /\ UNCHANGED <<file, unsaved>>

\* SemanticCalibrationState::load; nothing is served without it.
Load ==
    /\ phase = "load"
    /\ file # Unreadable
    /\ phase' = "up"
    /\ entries' = file
    /\ acked' = file
    /\ torn' = FALSE
    /\ UNCHANGED <<file, unsaved>>

LoadFails ==
    /\ file = Unreadable
    /\ Step("load", "down")

Stop ==
    /\ phase = "up"
    /\ phase' = "down"
    /\ UNCHANGED <<entries, file, acked, torn, unsaved>>

\* The file is part of the robot's profile: it is edited by hand, or checked out
\* in another version, whether the brain is up or down.
EditedOutside ==
    /\ file' \in {Empty, Unreadable}
    /\ torn' = TRUE
    /\ UNCHANGED <<phase, entries, acked, unsaved>>

(***************************************************************************)
(* Edits                                                                   *)
(***************************************************************************)
\* Mutant: the memory is edited, and saved some other time.
EditOnly(new) ==
    /\ phase = "up"
    /\ entries' = new
    /\ acked' = new
    /\ torn' = FALSE /\ unsaved' = FALSE
    /\ UNCHANGED <<phase, file>>

\* SemanticCalibrationState::save goes well, and with it all of the memory.
EditSaved(new) ==
    /\ phase = "up"
    /\ entries' = new
    /\ file' = new
    /\ acked' = new
    /\ torn' = FALSE /\ unsaved' = FALSE
    /\ UNCHANGED phase

\* It fails before the file is opened, or in the middle of it. The request is
\* answered with an error; the edit stays in memory.
EditNotSaved(new, left) ==
    /\ phase = "up"
    /\ entries' = new
    /\ file' = left
    /\ torn' = (torn \/ left # file)
    /\ unsaved' = TRUE
    /\ UNCHANGED <<phase, acked>>

\* The process dies in the middle of it.
CrashInSave(left) ==
    /\ phase = "up"
    /\ phase' = "down"
    /\ file' = left
    /\ torn' = (torn \/ left # file)
    /\ UNCHANGED <<entries, acked, unsaved>>

\* api_calibration_reload, SemanticCalibrationState::reload
Reload ==
    /\ phase = "up"
    /\ file # Unreadable
    /\ entries' = file
    /\ acked' = file
    /\ torn' = FALSE /\ unsaved' = FALSE
    /\ UNCHANGED <<phase, file>>

\* The entries are replaced only once the file was read.
ReloadFails ==
    /\ phase = "up"
    /\ file = Unreadable
    /\ UNCHANGED storeVars

StoreNext ==
    \/ Start \/ ConfigLoaded \/ EepromValidated \/ StartFails
    \/ Load \/ LoadFails \/ Stop \/ EditedOutside
    \/ \E new \in Edits(entries) :
         \/ EditSaved(new)
         \/ \E left \in Heads(new) \cup {file} : EditNotSaved(new, left) \/ CrashInSave(left)
    \/ Reload \/ ReloadFails

StoreSpec == StoreInit /\ [][StoreNext]_storeVars

(***************************************************************************)
(* What makes it correct                                                   *)
(***************************************************************************)
\* An answered edit is on disk, with every edit before it: the file says what
\* was acknowledged last until a save that fails or dies damages it, or others edit it.
FileHolds == ~torn => file = acked

\* The worker moves by what the dashboard was told: the memory is what was
\* acknowledged last until a save fails after the edit. In particular a reload
\* that cannot read the file keeps the references.
MemoryHolds == phase = "up" /\ ~unsaved => entries = acked

\* A restart brings back what was acknowledged, reference by reference, unless a
\* save was cut short; and a file that toml cannot parse is never taken for an
\* empty calibration, with which the stand poses would be other ones.
KeptByRestart ==
    phase # "up" /\ phase' = "up" => file # Unreadable /\ (~torn => entries' = acked)
RestartKeeps == [][KeptByRestart]_storeVars

================================================================================
