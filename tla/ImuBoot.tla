-------------------------------- MODULE ImuBoot --------------------------------
(***************************************************************************)
(* The start of the RP2040 bridge firmware: an MPU-9250 is looked for on   *)
(* SPI, clock mode after clock mode, then an MPU-6050 on I2C, address      *)
(* after address. A sensor that answers is initialised and has to answer   *)
(* again; what else was met is told in one fault code.                     *)
(***************************************************************************)
EXTENDS Integers

VARIABLES
    stage,     \* "spi", "i2c", or "done"
    at,        \* the SPI mode (0 .. 3) or the address (0 .. 1) to probe next
    found,     \* did the probe find a sensor, which is being initialised?
    best,      \* best_fault, the code of the probe so far
    spiFault,  \* the fault SPI ended with
    result,    \* the fault code of the device info; "none" with a sensor
    met        \* history: what WHO_AM_I reads returned

vars == <<stage, at, found, best, spiFault, result, met>>

\* no response, unexpected WHO_AM_I, read fault
Faults == {"silent", "unexpected", "read"}

\* A WHO_AM_I read: an id the firmware knows, another one, 0x00 or 0xFF, an
\* address that nobody acknowledges (I2C), or another error of the bus.
Answers == {"known", "alien", "nothing", "nack", "error"}

Last == IF stage = "spi" THEN 3 ELSE 1

TypeOK ==
    /\ stage \in {"spi", "i2c", "done"}
    /\ at \in 0 .. 3
    /\ found \in BOOLEAN
    /\ best \in Faults
    /\ spiFault \in Faults
    /\ result \in Faults \cup {"none"}
    /\ met \subseteq Answers

Init ==
    /\ stage = "spi" /\ at = 0 /\ found = FALSE
    /\ best = "silent" /\ spiFault = "silent" /\ result = "none"
    /\ met = {}

\* Mutant: the fault of I2C is forgotten.
SelectSpi(i2cFault) == spiFault

\* select_startup_fault
Select(i2cFault) == IF spiFault # "silent" THEN spiFault ELSE i2cFault

\* SensorState::new: what becomes of a backend that failed.
GivesUp(fault) ==
    /\ found' = FALSE /\ at' = 0 /\ best' = "silent"
    /\ IF stage = "spi"
       THEN stage' = "i2c" /\ spiFault' = fault /\ UNCHANGED result
       ELSE stage' = "done" /\ result' = Select(fault) /\ UNCHANGED spiFault

\* Mutant: the probe starts over until a sensor answers.
ContinuesAround(fault) ==
    /\ at' = IF at = Last THEN 0 ELSE at + 1
    /\ best' = fault
    /\ UNCHANGED <<stage, found, spiFault, result>>

\* The next clock mode or address, or the end of this backend.
Continues(fault) ==
    IF at = Last THEN GivesUp(fault)
    ELSE /\ at' = at + 1
         /\ best' = fault
         /\ UNCHANGED <<stage, found, spiFault, result>>

Probing(answer) ==
    /\ stage # "done" /\ ~found
    /\ answer = "nack" => stage = "i2c"
    /\ met' = met \cup {answer}

\* sensor_kind_from_who_am_i
ProbeFinds ==
    /\ Probing("known")
    /\ found' = TRUE
    /\ UNCHANGED <<stage, at, best, spiFault, result>>

ProbeMeetsAlien ==
    /\ Probing("alien")
    /\ Continues("unexpected")

\* 0x00 and 0xFF are what an open line reads.
ProbeMeetsNothing(answer) ==
    /\ answer \in {"nothing", "nack"}
    /\ Probing(answer)
    /\ Continues(best)

\* It ends the probe of SPI, and overrules what I2C met before.
ProbeErrs ==
    /\ Probing("error")
    /\ IF stage = "spi" THEN GivesUp("read") ELSE Continues("read")

BringUp ==
    /\ stage # "done" /\ found

\* apply_init_sequence, and validate_who_am_i at the speed of the stream.
BringUpDone ==
    /\ BringUp
    /\ stage' = "done"
    /\ UNCHANGED <<at, found, best, spiFault, result, met>>

BringUpFails(answer) ==
    /\ BringUp
    /\ met' = met \cup {answer}
    /\ \/ answer = "error" /\ GivesUp("read")
       \/ answer = "alien" /\ GivesUp("unexpected")
       \/ answer = "nothing" /\ GivesUp("silent")

Next ==
    \/ ProbeFinds \/ ProbeMeetsAlien \/ ProbeErrs
    \/ \E answer \in Answers : ProbeMeetsNothing(answer) \/ BringUpFails(answer)
    \/ BringUpDone

Spec == Init /\ [][Next]_vars

FairSpec == Spec /\ WF_vars(Next)

(***************************************************************************)
(* What makes it correct                                                   *)
(***************************************************************************)
\* Did anything answer with an id the firmware does not know, or did a bus err?
Disturbed == "alien" \in met \/ "error" \in met

\* Who reads "no response" in the device info can look for a broken wire: on
\* neither bus did anything answer with an id the firmware does not know, in any
\* clock mode or at any address, nor did a bus err. (A sensor that answered and
\* then fell silent hides what the probe before it met.)
SilenceMeansSilence ==
    stage = "done" /\ result = "silent" /\ "known" \notin met => ~Disturbed

\* A device info without a fault comes from a sensor that was initialised.
NoFaultMeansSensor == stage = "done" => (result = "none" <=> found)

(***************************************************************************)
(* The inductive invariant the proofs rest on                              *)
(***************************************************************************)
\* As long as no sensor answered, the codes so far tell what else was met.
CodesTell ==
    "known" \notin met =>
        /\ ~found
        /\ stage = "spi" /\ best = "silent" => ~Disturbed
        /\ stage = "i2c" /\ spiFault = "silent" /\ best = "silent" => ~Disturbed

BootInv ==
    /\ TypeOK
    /\ stage # "done" => at <= Last
    /\ stage # "done" => result = "none"
    /\ CodesTell
    /\ SilenceMeansSilence
    /\ NoFaultMeansSensor

\* The firmware gets to its stream, with a sensor or without.
BootEnds == <>(stage = "done")

================================================================================
