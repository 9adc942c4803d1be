------------------------------- MODULE SettleWait -------------------------------
(***************************************************************************)
(* The three loops that wait for servos to stand still, each over sweeps   *)
(* of feedback: wait_for_group_stop (a range scan pushes servos against    *)
(* their ends), wait_for_servos_to_settle (a tibia is probed) and          *)
(* move_pose_to_target (a pose is approached).                             *)
(*                                                                         *)
(* They count differently. The first starts over with every sign of        *)
(* motion, needs to have seen each servo move, and wants all of them quiet *)
(* at once. The second keeps a servo that was quiet long enough and reads  *)
(* it no more. The third counts sweeps in which every servo answered and   *)
(* was close to its target.                                                *)
(***************************************************************************)
EXTENDS Integers

CONSTANTS
    Servos,    \* the servos waited for
    Confirm,   \* confirm_stopped_samples, POSITION_SETTLE_CONFIRM_CYCLES
    Timeout    \* the sweeps that fit in the timeout

VARIABLES
    loop,      \* which of the loops runs
    started,   \* has_started_motion of each servo
    counts,    \* consecutive_stopped, confirm_counts of each servo
    settled,   \* the servos that were quiet long enough
    cycles,    \* stable_cycles
    sweeps,    \* sweeps made
    outcome,
    quiet,     \* history: the sweeps in a row each servo was seen quiet
    longest,   \* history: the most there ever were
    seen       \* history: the sweeps since each servo was first seen to move, or moved

code == <<started, counts, settled, cycles, sweeps>>
history == <<quiet, longest, seen>>
vars == <<loop, code, outcome, history>>

Loops == {"group", "settle", "close"}

\* What feedback says: quiet where the servo started, moving flag set without
\* speed, quiet elsewhere (at the target), under way, or no answer.
Readings == {"rest", "pushing", "there", "going", "lost"}

\* servo_has_stopped, servo_has_started_motion
Stopped(reading) == reading \in {"rest", "pushing", "there"}
HasStarted(reading) == reading \in {"pushing", "there", "going"}

\* What a loop takes for quiet.
Quiet(reading) == IF loop = "close" THEN reading = "there" ELSE Stopped(reading)

TypeOK ==
    /\ loop \in Loops
    /\ started \in [Servos -> BOOLEAN]
    /\ counts \in [Servos -> 0 .. Timeout + 1]
    /\ settled \subseteq Servos
    /\ cycles \in 0 .. Confirm
    /\ sweeps \in 0 .. Timeout + 1
    /\ outcome \in {"waiting", "ok", "timeout", "error"}
    /\ quiet \in [Servos -> 0 .. Timeout + 1]
    /\ longest \in [Servos -> 0 .. Timeout + 1]
    /\ seen \in [Servos -> 0 .. Timeout + 1]

Init ==
    /\ loop \in Loops
    /\ started = [s \in Servos |-> FALSE]
    /\ counts = [s \in Servos |-> 0]
    /\ settled = {} /\ cycles = 0 /\ sweeps = 0
    /\ outcome = "waiting"
    /\ quiet = counts /\ longest = counts /\ seen = counts

(***************************************************************************)
(* Sweeps                                                                  *)
(***************************************************************************)
Watch(got) ==
    /\ quiet' = [s \in Servos |-> IF Quiet(got[s]) THEN quiet[s] + 1 ELSE 0]
    /\ longest' = [s \in Servos |-> IF quiet'[s] > longest[s] THEN quiet'[s] ELSE longest[s]]
    /\ seen' = [s \in Servos |-> IF seen[s] > 0 \/ HasStarted(got[s]) THEN seen[s] + 1 ELSE 0]

\* Mutant: the time is looked at first.
ConcludeLate(done) ==
    /\ sweeps' = sweeps + 1
    /\ outcome' = IF sweeps' > Timeout THEN "timeout" ELSE IF done THEN "ok" ELSE "waiting"

\* The end of a sweep: the loop is done, or the time is up, or it goes on.
Conclude(done) ==
    /\ sweeps' = sweeps + 1
    /\ outcome' = IF done THEN "ok" ELSE IF sweeps' > Timeout THEN "timeout" ELSE "waiting"

Waits(kind) == loop = kind /\ outcome = "waiting"

\* wait_for_group_stop
GroupSweep(got) ==
    /\ Waits("group")
    /\ \A s \in Servos : got[s] # "lost"
    /\ started' = [s \in Servos |-> started[s] \/ HasStarted(got[s])]
    /\ counts' = [s \in Servos |-> IF started'[s] /\ Stopped(got[s]) THEN counts[s] + 1 ELSE 0]
    /\ Conclude(\A s \in Servos : counts'[s] >= Confirm)
    /\ Watch(got)
    /\ UNCHANGED <<loop, settled, cycles>>

\* wait_for_servos_to_settle: a servo that settled is not read.
SettleSweep(got) ==
    /\ Waits("settle")
    /\ \A s \in Servos \ settled : got[s] # "lost"
    /\ counts' = [s \in Servos |-> IF s \in settled THEN counts[s]
                                   ELSE IF Stopped(got[s]) THEN counts[s] + 1 ELSE 0]
    /\ settled' = {s \in Servos : counts'[s] >= Confirm}
    /\ Conclude(settled' = Servos)
    /\ Watch(got)
    /\ UNCHANGED <<loop, started, cycles>>

\* read_feedback fails.
SweepFails(got) ==
    /\ Waits("group") \/ Waits("settle")
    /\ \E s \in Servos \ settled : got[s] = "lost"
    /\ outcome' = "error"
    /\ UNCHANGED <<loop, code, history>>

\* move_pose_to_target: a servo that does not answer is not close.
CloseSweep(got) ==
    /\ Waits("close")
    /\ cycles' = IF \A s \in Servos : got[s] = "there" THEN cycles + 1 ELSE 0
    /\ Conclude(cycles' >= Confirm)
    /\ Watch(got)
    /\ UNCHANGED <<loop, started, counts, settled>>

Sweep ==
    \E got \in [Servos -> Readings] :
        GroupSweep(got) \/ SettleSweep(got) \/ SweepFails(got) \/ CloseSweep(got)

Next == Sweep

Spec == Init /\ [][Next]_vars

\* The loops sleep and read, and each read has a timeout of its own.
FairSpec == Spec /\ WF_vars(Sweep)

(***************************************************************************)
(* What makes them correct                                                 *)
(***************************************************************************)
\* What a loop says has settled was quiet long enough. A range scan takes the
\* positions of its last sweep for ends of the joints: each servo moved, and all
\* of them were quiet together, up to that sweep. A pose is reached with every
\* servo close for that long. A probed servo was quiet once for that long.
SettledMeansQuiet ==
    outcome = "ok" =>
        \A s \in Servos :
            /\ loop = "group" => seen[s] >= Confirm
            /\ IF loop = "settle" THEN longest[s] >= Confirm ELSE quiet[s] >= Confirm

\* No wait ends with its time-out when what it waited for is there: a servo was
\* never quiet for long enough, or is not now, or has hardly begun to move.
TimeoutMeansUnrest ==
    outcome = "timeout" =>
        \E s \in Servos :
            IF loop = "settle" THEN longest[s] < Confirm
            ELSE quiet[s] < Confirm \/ (loop = "group" /\ seen[s] < Confirm)

(***************************************************************************)
(* The inductive invariant the proofs rest on                              *)
(***************************************************************************)
\* The time is not up, and no loop has counted enough, while it waits.
StillWaiting ==
    outcome = "waiting" =>
        /\ sweeps <= Timeout
        /\ loop = "close" => cycles < Confirm
        /\ loop = "group" => \E s \in Servos : counts[s] < Confirm
        /\ loop = "settle" => \E s \in Servos : s \notin settled

\* Nothing was seen more often than there were sweeps.
SeenInSweeps ==
    \A s \in Servos :
        /\ counts[s] <= sweeps /\ seen[s] <= sweeps
        /\ quiet[s] <= longest[s] /\ longest[s] <= sweeps

\* wait_for_group_stop counts the quiet sweeps since the servo has moved,
GroupCounts ==
    loop = "group" =>
        \A s \in Servos :
            /\ started[s] <=> seen[s] > 0
            /\ counts[s] = IF quiet[s] < seen[s] THEN quiet[s] ELSE seen[s]

\* ... wait_for_servos_to_settle the quiet sweeps until they are enough,
SettleCounts ==
    loop = "settle" =>
        \A s \in Servos :
            /\ s \in settled <=> counts[s] >= Confirm
            /\ counts[s] <= longest[s]
            /\ s \notin settled => counts[s] = quiet[s] /\ longest[s] < Confirm

\* ... and move_pose_to_target those in which all were.
CloseCounts ==
    loop = "close" =>
        /\ \A s \in Servos : cycles <= quiet[s]
        /\ \E s \in Servos : cycles = quiet[s]

\* What a loop returned is what it counted.
Concluded ==
    /\ outcome = "ok" =>
         /\ loop = "group" => \A s \in Servos : counts[s] >= Confirm
         /\ loop = "settle" => settled = Servos
         /\ loop = "close" => cycles >= Confirm
    /\ outcome = "timeout" =>
         /\ loop = "group" => \E s \in Servos : counts[s] < Confirm
         /\ loop = "settle" => settled # Servos
         /\ loop = "close" => cycles < Confirm

WaitInv ==
    /\ TypeOK /\ StillWaiting /\ SeenInSweeps
    /\ GroupCounts /\ SettleCounts /\ CloseCounts /\ Concluded

\* However the servos behave, the wait ends.
WaitEnds == <>(outcome # "waiting")

================================================================================
