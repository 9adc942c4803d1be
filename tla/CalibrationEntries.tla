--------------------------- MODULE CalibrationEntries ---------------------------
(***************************************************************************)
(* The entries of the semantic calibration store: the reference ticks of   *)
(* each joint, as they are held in memory and listed in the TOML file.     *)
(***************************************************************************)
EXTENDS Integers

CONSTANTS
    Joints,      \* the joints of the legs, in the order of the file (numbers)
    References,  \* negative, zero, positive, in the order of the file (numbers)
    Ticks,       \* the positions told apart
    NoTicks,     \* None, of a reference
    NoEntry,     \* no entry for a joint
    Unreadable   \* a file that toml does not parse

ASSUME OrderAssumption == Joints \subseteq Int /\ References \subseteq Int
ASSUME NoTicksAssumption == NoTicks \notin Ticks

Entry == [References -> Ticks \cup {NoTicks}]
Entries == [Joints -> Entry \cup {NoEntry}]

ASSUME NoEntryAssumption == NoEntry \notin Entry
ASSUME UnreadableAssumption == Unreadable \notin Entries

Empty == [j \in Joints |-> NoEntry]
Blank == [r \in References |-> NoTicks]

EntryOf(entries, j) == IF entries[j] = NoEntry THEN Blank ELSE entries[j]

\* set_reference, from the published pose: one reference of one joint, of one leg
\* or of all of them (api_calibration_capture).
Captured(entries, joints, ref, pose) ==
    [j \in Joints |-> IF j \in joints THEN [EntryOf(entries, j) EXCEPT ![ref] = pose[j]]
                                      ELSE entries[j]]

\* api_calibration_clear
Cleared(entries, joints) == [j \in Joints |-> IF j \in joints THEN NoEntry ELSE entries[j]]

Edits(entries) ==
    {Cleared(entries, joints) : joints \in SUBSET Joints \ {{}}}
    \cup {Captured(entries, joints, ref, pose) :
            joints \in SUBSET Joints \ {{}}, ref \in References, pose \in [Joints -> Ticks]}

\* An entry whose lines end after its reference `ref`, whose number may have lost
\* digits.
CutEntry(entry, ref, digits) ==
    [r \in References |->
       IF r < ref THEN entry[r]
       ELSE IF r = ref /\ entry[r] # NoTicks THEN digits ELSE NoTicks]

\* What is left of a file whose writing stopped before, or in, the entry of `last`.
CutBefore(new, last) == [j \in Joints |-> IF j < last THEN new[j] ELSE NoEntry]
CutIn(new, last, ref, digits) ==
    [j \in Joints |->
       IF j < last THEN new[j]
       ELSE IF j = last /\ new[j] # NoEntry THEN CutEntry(new[j], ref, digits) ELSE NoEntry]

Heads(new) ==
    {CutBefore(new, last) : last \in Joints}
    \cup {CutIn(new, last, ref, digits) :
            last \in Joints, ref \in References, digits \in Ticks \cup {NoTicks}}
    \cup {Unreadable}

================================================================================
