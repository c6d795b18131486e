------------------------------ MODULE SystemPoll ------------------------------
(***************************************************************************)
(* SystemService: the poll that a timer starts every five seconds and a    *)
(* refresh starts on demand, the guard that keeps two of them apart, and   *)
(* the CPU counters that one poll leaves for the next.                     *)
(*                                                                         *)
(* A snapshot is known by the reading of /proc/stat in it, and readings    *)
(* are numbered; what is collected from nvidia-smi and df takes any time   *)
(* up to its timeout.                                                      *)
(***************************************************************************)
EXTENDS Naturals

CONSTANTS
    Poll        \* calls of poll(), by the timer or a refresh

VARIABLES
    snapshot,   \* SystemService.snapshot: its reading, 0 before the first
    prevCpuTimes,   \* the reading CPU use is counted from, 0 before the first
    isPolling,
    poll,       \* where a call stands
    stat,       \* the reading it has got
    now         \* how often /proc/stat was read

pollVars == <<snapshot, prevCpuTimes, isPolling, poll, stat, now>>

PollTypeOK ==
    /\ snapshot \in Nat /\ prevCpuTimes \in Nat /\ now \in Nat
    /\ isPolling \in BOOLEAN
    /\ poll \in [Poll -> {"idle", "reading", "read", "collecting", "done", "skipped"}]
    /\ stat \in [Poll -> 0..now]
    /\ snapshot <= now /\ prevCpuTimes <= now

PollInit ==
    /\ snapshot = 0
    /\ prevCpuTimes = 0
    /\ isPolling = FALSE
    /\ poll = [p \in Poll |-> "idle"]
    /\ stat = [p \in Poll |-> 0]
    /\ now = 0

\* Mutant: polls are not kept apart.
BeginUnguarded(p) ==
    /\ poll[p] = "idle"
    /\ isPolling' = TRUE
    /\ poll' = [poll EXCEPT ![p] = "reading"]
    /\ UNCHANGED <<snapshot, prevCpuTimes, stat, now>>

Begin(p) ==
    /\ poll[p] = "idle"
    /\ ~isPolling
    /\ isPolling' = TRUE
    /\ poll' = [poll EXCEPT ![p] = "reading"]
    /\ UNCHANGED <<snapshot, prevCpuTimes, stat, now>>

\* A poll is under way: a tick does nothing, a refresh answers with the snapshot
\* there is, which before the first poll is none.
Skip(p) ==
    /\ poll[p] = "idle"
    /\ isPolling
    /\ poll' = [poll EXCEPT ![p] = "skipped"]
    /\ UNCHANGED <<snapshot, prevCpuTimes, isPolling, stat, now>>

\* The read of /proc/stat takes effect.
ReadStat(p) ==
    /\ poll[p] = "reading"
    /\ now' = now + 1
    /\ stat' = [stat EXCEPT ![p] = now + 1]
    /\ poll' = [poll EXCEPT ![p] = "read"]
    /\ UNCHANGED <<snapshot, prevCpuTimes, isPolling>>

\* collectCpu goes on: use is counted from the last reading, which this replaces.
CountCpu(p) ==
    /\ poll[p] = "read"
    /\ prevCpuTimes' = stat[p]
    /\ poll' = [poll EXCEPT ![p] = "collecting"]
    /\ UNCHANGED <<snapshot, isPolling, stat, now>>

\* /proc/stat cannot be read: no reading, and no error.
NoStat(p) ==
    /\ poll[p] = "reading"
    /\ stat' = [stat EXCEPT ![p] = now]
    /\ poll' = [poll EXCEPT ![p] = "collecting"]
    /\ UNCHANGED <<snapshot, prevCpuTimes, isPolling, now>>

\* The last collector is ready.
Collected(p) ==
    /\ poll[p] = "collecting"
    /\ snapshot' = stat[p]
    /\ isPolling' = FALSE
    /\ poll' = [poll EXCEPT ![p] = "done"]
    /\ UNCHANGED <<prevCpuTimes, stat, now>>

\* A collector throws: the poll is over as well, the snapshot stays.
PollFails(p) ==
    /\ poll[p] = "collecting"
    /\ isPolling' = FALSE
    /\ poll' = [poll EXCEPT ![p] = "done"]
    /\ UNCHANGED <<snapshot, prevCpuTimes, stat, now>>

PollNext ==
    \E p \in Poll : \/ Begin(p) \/ Skip(p) \/ ReadStat(p) \/ CountCpu(p) \/ NoStat(p)
                    \/ Collected(p) \/ PollFails(p)

PollSpec == PollInit /\ [][PollNext]_pollVars

-----------------------------------------------------------------------------
\* What is shown of the system never goes back in time, and CPU use is never
\* counted from a later reading than its own, although nvidia-smi may block for
\* longer than the timer waits and a refresh comes at any moment.
SnapshotsAdvance ==
    [][snapshot' >= snapshot /\ prevCpuTimes' >= prevCpuTimes]_pollVars
=============================================================================
