--------------------------- MODULE EepromApplyProofs ---------------------------
(***************************************************************************)
(* Theorems about EepromApply for any number of servos and entries.        *)
(***************************************************************************)
EXTENDS EepromApply, TLAPS

EepromInv == EepromTypeOK /\ OkMeansApplied /\ WritesUnlocked /\ Progress

LEMMA EepromInitInv == EepromInit => EepromInv
BY ServosAssumption, EntriesAssumption
   DEF EepromInit, EepromInv, EepromTypeOK, OkMeansApplied, WritesUnlocked, Progress, Ids, Entries

\* The loop indices: the last servo ends a loop over the servos.
LEMMA NextServo ==
    ASSUME servo \in Ids, servo < NumServos
    PROVE  servo + 1 \in Ids /\ \A s \in Ids : s < servo + 1 <=> s < servo \/ s = servo
BY ServosAssumption DEF Ids

LEMMA LastServo ==
    ASSUME servo \in Ids, ~(servo < NumServos)
    PROVE  1 \in Ids /\ \A s \in Ids : s < servo \/ s = servo
BY ServosAssumption DEF Ids

LEMMA NextEntry ==
    ASSUME entry \in Entries, entry < NumEntries
    PROVE  entry + 1 \in Entries /\ \A e \in Entries : e < entry + 1 <=> e < entry \/ e = entry
BY EntriesAssumption DEF Entries

LEMMA LastEntry ==
    ASSUME entry \in Entries, ~(entry < NumEntries)
    PROVE  \A e \in Entries : e < entry \/ e = entry
BY EntriesAssumption DEF Entries

LEMMA FirstEntry == 1 \in Entries /\ \A e \in Entries : ~(e < 1)
BY EntriesAssumption DEF Entries

LEMMA FirstServo == 1 \in Ids /\ \A s \in Ids : ~(s < 1)
BY ServosAssumption DEF Ids

LEMMA WriteEntryKeeps == EepromInv /\ WriteEntry => EepromInv'
<1> SUFFICES ASSUME EepromInv, WriteEntry PROVE EepromInv'
  OBVIOUS
<1> USE DEF EepromInv, EepromTypeOK, OkMeansApplied, WritesUnlocked, Progress
<1>1. written' \in [Ids -> SUBSET Entries]
  BY DEF WriteEntry
<1>2. \A s \in Ids : written'[s] = IF s = servo THEN written[s] \cup {entry} ELSE written[s]
  BY DEF WriteEntry
<1>3. phase = "write" /\ returned' = "none" /\ returned = "none"
  BY DEF WriteEntry
<1>4. CASE servo < NumServos
  BY <1>1, <1>2, <1>3, <1>4, NextServo DEF WriteEntry
<1>5. CASE ~(servo < NumServos) /\ entry < NumEntries
  <2>1. applied => \A s \in Ids : entry \in written'[s]
    BY <1>2, <1>3, <1>5, LastServo
  <2>2. servo' = 1 /\ entry' = entry + 1
    BY <1>5 DEF WriteEntry
  <2>3. applied => \A e \in Entries, s \in Ids : e < entry' => e \in written'[s]
    BY <1>2, <1>3, <1>5, <2>1, <2>2, NextEntry
  <2>4. QED
    BY <1>1, <1>3, <1>5, <2>2, <2>3, FirstServo, NextEntry DEF WriteEntry
<1>6. CASE ~(servo < NumServos) /\ ~(entry < NumEntries)
  <2>1. applied => \A s \in Ids : entry \in written'[s]
    BY <1>2, <1>3, <1>6, LastServo
  <2>2. applied => \A s \in Ids : written'[s] = Entries
    BY <1>1, <1>2, <1>3, <1>6, <2>1, LastEntry
  <2>3. QED
    BY <1>1, <1>3, <1>6, <2>2, FirstServo DEF WriteEntry
<1>7. QED
  BY <1>4, <1>5, <1>6

LEMMA EepromNextInv == EepromInv /\ [EepromNext]_eepromVars => EepromInv'
<1> SUFFICES ASSUME EepromInv, [EepromNext]_eepromVars PROVE EepromInv'
  OBVIOUS
<1> USE DEF EepromInv, EepromTypeOK, OkMeansApplied, WritesUnlocked, Progress, SetLock
<1>1. CASE Start
  BY <1>1, FirstServo, EntriesAssumption DEF Start, Entries
<1>2. CASE Unlock
  <2>1. locked' \in [Ids -> BOOLEAN] /\ tried' \subseteq Ids
    BY <1>2 DEF Unlock
  <2>2. CASE servo < NumServos
    BY <1>2, <2>1, <2>2, NextServo DEF Unlock
  <2>3. CASE ~(servo < NumServos)
    <3>1. \A s \in Ids : ~locked'[s]
      BY <1>2, <2>3, LastServo DEF Unlock
    <3>2. phase' = "write" /\ servo' = 1 /\ entry' = entry /\ returned' = "none"
      BY <1>2, <2>3 DEF Unlock
    <3>3. QED
      BY <1>2, <2>1, <3>1, <3>2, FirstServo, FirstEntry DEF Unlock
  <2>4. QED
    BY <2>2, <2>3
<1>3. CASE UnlockFails
  BY <1>3 DEF UnlockFails
<1>4. CASE WriteEntry
  BY <1>4, WriteEntryKeeps
<1>5. CASE WriteEntryFails
  BY <1>5, FirstServo DEF WriteEntryFails
<1>6. CASE Relock
  <2>1. locked' \in [Ids -> BOOLEAN] /\ tried' \subseteq Ids
    BY <1>6 DEF Relock
  <2>2. CASE servo < NumServos
    BY <1>6, <2>1, <2>2, NextServo DEF Relock
  <2>3. CASE ~(servo < NumServos)
    <3>1. \A s \in Ids : locked'[s]
      BY <1>6, <2>3, LastServo DEF Relock
    <3>2. QED
      BY <1>6, <2>1, <2>3, <3>1, FirstServo DEF Relock
  <2>4. QED
    BY <2>2, <2>3
<1>7. CASE RelockFails
  BY <1>7 DEF RelockFails
<1>8. CASE Killed
  BY <1>8 DEF Killed
<1>9. CASE UNCHANGED eepromVars
  BY <1>9 DEF eepromVars
<1>10. QED
  BY <1>1, <1>2, <1>3, <1>4, <1>5, <1>6, <1>7, <1>8, <1>9 DEF EepromNext

\* The loops stay within the servos and the entries of the profile (apply_eeprom).
THEOREM EepromTypeCorrect == EepromSpec => []EepromTypeOK
<1>1. EepromInv => EepromTypeOK
  BY DEF EepromInv
<1>2. QED
  BY <1>1, EepromInitInv, EepromNextInv, PTL DEF EepromSpec

\* What the loops have done so far: everything behind the servo and the entry they
\* are at is unlocked, written or locked again (apply_eeprom).
THEOREM LoopsProgress == EepromSpec => []Progress
<1>1. EepromInv => Progress
  BY DEF EepromInv
<1>2. QED
  BY <1>1, EepromInitInv, EepromNextInv, PTL DEF EepromSpec

\* Success means every servo is locked again and holds the whole profile.
THEOREM SuccessMeansApplied == EepromSpec => []OkMeansApplied
<1>1. EepromInv => OkMeansApplied
  BY DEF EepromInv
<1>2. QED
  BY <1>1, EepromInitInv, EepromNextInv, PTL DEF EepromSpec

\* Entries are written to unlocked servos only.
THEOREM EntriesWrittenUnlocked == EepromSpec => []WritesUnlocked
<1>1. EepromInv => WritesUnlocked
  BY DEF EepromInv
<1>2. QED
  BY <1>1, EepromInitInv, EepromNextInv, PTL DEF EepromSpec

================================================================================
