------------------------------ MODULE EepromApply ------------------------------
(***************************************************************************)
(* arachno-calibrate apply-eeprom: unlock the EEPROM of every servo, write *)
(* and read back every profile entry on every servo, lock them again. Each *)
(* bus call may fail, before or after the servo carried it out, and the    *)
(* process may be killed between any two calls and started again.          *)
(***************************************************************************)
EXTENDS EepromPlan

VARIABLES
    phase,      \* "idle", "unlock", "write" or "relock"
    servo,      \* the servo the current loop has come to
    entry,      \* the entry the write loop has come to
    returned,   \* of the last run: "none", "ok" or "error"
    applied,    \* apply_result: is every write of this run verified so far?
    locked,     \* the servos' LOCK_MARK registers
    written,    \* the entries that hold the profile's value, per servo
    tried       \* the servos this run sent a lock or relock to, after its unlock

eepromVars == <<phase, servo, entry, returned, applied, locked, written, tried>>

Ids == 1 .. NumServos
Entries == 1 .. NumEntries

EepromTypeOK ==
    /\ phase \in {"idle", "unlock", "write", "relock"}
    /\ servo \in Ids
    /\ entry \in Entries
    /\ returned \in {"none", "ok", "error"}
    /\ applied \in BOOLEAN
    /\ locked \in [Ids -> BOOLEAN]
    /\ written \in [Ids -> SUBSET Entries]
    /\ tried \subseteq Ids

EepromInit ==
    /\ phase = "idle"
    /\ servo = 1
    /\ entry = 1
    /\ returned = "none"
    /\ applied = TRUE
    /\ locked = [s \in Ids |-> TRUE]
    /\ written \in [Ids -> SUBSET Entries]
    /\ tried = Ids

Start ==
    /\ phase = "idle"
    /\ phase' = "unlock"
    /\ servo' = 1
    /\ entry' = 1
    /\ returned' = "none"
    /\ applied' = TRUE
    /\ UNCHANGED <<locked, written, tried>>

\* set_eeprom_write_lock writes the register and reads it back: when it returns
\* Ok the register has the value, when it fails it may have it.
SetLock(s, lock) == locked' = [locked EXCEPT ![s] = lock]

\* Mutants: the index is not reset for the next loop; the last servo is left out.
UnlockKeepsIndex ==
    /\ phase = "unlock"
    /\ SetLock(servo, FALSE)
    /\ tried' = tried \ {servo}
    /\ servo' = servo + 1
    /\ phase' = IF servo < NumServos THEN phase ELSE "write"
    /\ UNCHANGED <<entry, returned, applied, written>>

UnlockButLast ==
    /\ phase = "unlock"
    /\ SetLock(servo, FALSE)
    /\ tried' = tried \ {servo}
    /\ IF servo + 1 < NumServos
       THEN servo' = servo + 1 /\ UNCHANGED phase
       ELSE servo' = 1 /\ phase' = "write"
    /\ UNCHANGED <<entry, returned, applied, written>>

Unlock ==
    /\ phase = "unlock"
    /\ SetLock(servo, FALSE)
    /\ tried' = tried \ {servo}
    /\ IF servo < NumServos
       THEN servo' = servo + 1 /\ UNCHANGED phase
       ELSE servo' = 1 /\ phase' = "write"
    /\ UNCHANGED <<entry, returned, applied, written>>

\* The `?` returns at once: the servos before this one stay as they are.
UnlockFails ==
    /\ phase = "unlock"
    /\ SetLock(servo, FALSE) \/ UNCHANGED locked
    /\ tried' = tried \ {servo}
    /\ phase' = "idle"
    /\ returned' = "error"
    /\ UNCHANGED <<servo, entry, applied, written>>

\* write_and_verify_eeprom_entry: Ok only after the value was read back, which
\* takes a servo that is unlocked, or has the value already.
WriteEntry ==
    /\ phase = "write"
    /\ ~locked[servo] \/ entry \in written[servo]
    /\ written' = [written EXCEPT ![servo] = @ \cup {entry}]
    /\ IF servo < NumServos
       THEN servo' = servo + 1 /\ UNCHANGED <<phase, entry>>
       ELSE /\ servo' = 1
            /\ IF entry < NumEntries
               THEN entry' = entry + 1 /\ UNCHANGED phase
               ELSE phase' = "relock" /\ UNCHANGED entry
    /\ UNCHANGED <<returned, applied, locked, tried>>

\* The first write that fails ends the writing, not the run. A failed call may
\* still have put the value into an unlocked servo.
WriteEntryFails ==
    /\ phase = "write"
    /\ \/ ~locked[servo] /\ written' = [written EXCEPT ![servo] = @ \cup {entry}]
       \/ UNCHANGED written
    /\ applied' = FALSE
    /\ servo' = 1
    /\ phase' = "relock"
    /\ UNCHANGED <<entry, returned, locked, tried>>

\* Mutant: the outcome of the writing is forgotten.
RelockIsOk ==
    /\ phase = "relock"
    /\ SetLock(servo, TRUE)
    /\ tried' = tried \cup {servo}
    /\ IF servo < NumServos
       THEN servo' = servo + 1 /\ UNCHANGED <<phase, returned>>
       ELSE /\ servo' = 1
            /\ phase' = "idle"
            /\ returned' = "ok"
    /\ UNCHANGED <<entry, applied, written>>

Relock ==
    /\ phase = "relock"
    /\ SetLock(servo, TRUE)
    /\ tried' = tried \cup {servo}
    /\ IF servo < NumServos
       THEN servo' = servo + 1 /\ UNCHANGED <<phase, returned>>
       ELSE /\ servo' = 1
            /\ phase' = "idle"
            /\ returned' = IF applied THEN "ok" ELSE "error"
    /\ UNCHANGED <<entry, applied, written>>

RelockFails ==
    /\ phase = "relock"
    /\ SetLock(servo, TRUE) \/ UNCHANGED locked
    /\ tried' = tried \cup {servo}
    /\ phase' = "idle"
    /\ returned' = "error"
    /\ UNCHANGED <<servo, entry, applied, written>>

Killed ==
    /\ phase # "idle"
    /\ phase' = "idle"
    /\ UNCHANGED <<servo, entry, returned, applied, locked, written, tried>>

EepromNext ==
    \/ Start
    \/ Unlock
    \/ UnlockFails
    \/ WriteEntry
    \/ WriteEntryFails
    \/ Relock
    \/ RelockFails
    \/ Killed

EepromSpec == EepromInit /\ [][EepromNext]_eepromVars

(***************************************************************************)
(* What makes it correct                                                   *)
(***************************************************************************)
\* A run that reports success left every servo locked and with the whole profile,
\* whatever earlier runs failed at or were killed in.
OkMeansApplied ==
    returned = "ok" => \A s \in Ids : locked[s] /\ written[s] = Entries

\* No entry is written before every servo is known to be unlocked.
WritesUnlocked == phase = "write" => \A s \in Ids : ~locked[s]

\* What README.md says of apply-eeprom: after the writing it restores the lock. So
\* a run that returned has at least tried that on each servo that is unlocked (the
\* code returns from the first unlock or relock that fails, without the rest: the
\* servo whose unlock was not answered may be unlocked, like those before it).
RelockTried ==
    phase = "idle" /\ returned = "error" => \A s \in Ids : locked[s] \/ s \in tried

\* What the loops have done so far: this makes OkMeansApplied and
\* WritesUnlocked inductive.
Progress ==
    /\ phase = "unlock" => entry = 1 /\ \A s \in Ids : s < servo => ~locked[s]
    /\ phase = "write" /\ applied =>
         /\ \A e \in Entries, s \in Ids : e < entry => e \in written[s]
         /\ \A s \in Ids : s < servo => entry \in written[s]
    /\ phase = "relock" =>
         /\ applied => \A s \in Ids : written[s] = Entries
         /\ \A s \in Ids : s < servo => locked[s]
    /\ phase # "idle" => returned = "none"

================================================================================
