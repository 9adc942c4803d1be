------------------------------- MODULE EepromPlan -------------------------------
(***************************************************************************)
(* How much arachno-calibrate apply-eeprom has to write: the EEPROM        *)
(* profile of the robot's configuration, on each servo of the bus.         *)
(***************************************************************************)
EXTENDS Integers

CONSTANTS
    NumServos,  \* servos on the bus, in id order
    NumEntries  \* entries of the EEPROM profile

ASSUME ServosAssumption == NumServos \in Nat \ {0}
\* An empty profile is refused before the bus is opened.
ASSUME EntriesAssumption == NumEntries \in Nat \ {0}

================================================================================
