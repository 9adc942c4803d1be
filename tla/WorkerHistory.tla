----------------------------- MODULE WorkerHistory -----------------------------
(***************************************************************************)
(* ControlWorker with history variables: which servos answered in the      *)
(* current tick, and how many reads in a row really said "low voltage".    *)
(* The worker itself keeps none of this: it counts strikes once per tick,  *)
(* over whatever its caches hold.                                          *)
(***************************************************************************)
EXTENDS ControlWorker

VARIABLES
    answered,   \* the servos whose feedback was read in this tick
    lowReads    \* per servo, low-voltage feedback in a row, up to VoltageLimit

\* A poll comes round to a servo before the strikes run out: the shipped 18 servos
\* are read by 6, against 6 strikes.
ASSUME RoundAssumption == NumServos <= Stride * (VoltageLimit - 1)

historyVars == <<answered, lowReads>>

AtMost(n, bound) == IF n < bound THEN n ELSE bound

HistoryInit ==
    /\ Init
    /\ answered = {}
    /\ lowReads = [s \in Servos |-> 0]

\* A timeout neither confirms nor refutes a low voltage.
RecordPoll(window, got) ==
    /\ answered' = {s \in window : got[s] # Offline}
    /\ lowReads' = [s \in Servos |->
                      IF s \notin answered' THEN lowReads[s]
                      ELSE IF got[s] = "low" THEN AtMost(lowReads[s] + 1, VoltageLimit)
                      ELSE 0]

HistoryNext ==
    \/ ImuStep /\ UNCHANGED historyVars
    \/ \E budget \in ReadBudgets, down \in BOOLEAN :
         \E got \in Answers(budget) :
           PollServos(budget, down, got) /\ RecordPoll(Window(budget), got)
    \/ /\ OtherStep
       /\ answered' = IF pc = "mode" THEN {} ELSE answered
       /\ UNCHANGED lowReads
    \/ Handlers /\ UNCHANGED historyVars

HistorySpec == HistoryInit /\ [][HistoryNext]_<<vars, historyVars>>

\* The pose motion is armed at was read from every servo in this very tick, so a
\* ramp starts where the robot is: until armed the read budget is the whole bus.
ArmFromFreshPose ==
    [][~armed /\ armed' => answered = Servos]_<<vars, historyVars>>

\* One sagging sample never trips the voltage fault, although the worker counts
\* it again in every tick until the servo's turn to be read comes round: a round
\* takes fewer ticks than there are strikes (RoundAssumption).
OneSagDoesNotTrip ==
    [][fault' = "voltage" /\ fault = NoFault
         => \E s \in Servos : lowReads[s] > 1]_<<vars, historyVars>>

(***************************************************************************)
(* The inductive invariant the proofs rest on                              *)
(***************************************************************************)
HistoryTypeOK ==
    /\ answered \subseteq Servos
    /\ lowReads \in [Servos -> 0 .. VoltageLimit]

\* Before motion is armed, a tick's answers are its whole telemetry.
FreshPoll == pc = "arm" /\ ~armed => answered = {s \in Servos : cache[s] # Offline}

\* How many servos the cursor has gone past since it passed s.
Passed(s) == IF s < cursor THEN cursor - 1 - s ELSE NumServos + cursor - 1 - s

\* Telemetry is read that the safety check of this tick has not judged yet.
Unjudged == pc \in {"arm", "safety"}

\* A servo's strikes are no more than the ticks since its one low sample, and a
\* tick takes the cursor past Stride servos at least.
SagCounted(s) ==
    /\ cache[s] = "low" => lowReads[s] >= 1
    /\ SafetyChecked /\ lowReads[s] = 0
         => lowStrikes[s] = 0 \/ (Unjudged /\ cache[s] \notin {"low", Offline})
    /\ SafetyChecked /\ lowReads[s] = 1 /\ cache[s] = "low"
         => Stride * (IF Unjudged THEN lowStrikes[s] ELSE lowStrikes[s] - 1) <= Passed(s)

HistoryInv == HistoryTypeOK /\ FreshPoll /\ \A s \in Servos : SagCounted(s)

================================================================================
