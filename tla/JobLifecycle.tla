---------------------------- MODULE JobLifecycle ----------------------------
(***************************************************************************)
(* What JobsService promises about a job: the status anyone who polls      *)
(* GET /jobs sees, against the life of the training process behind it.     *)
(* A row is created once and moves forward only; it reads Running only of  *)
(* a process that was started, Done only of one that exited with 0, Failed *)
(* only of one that did not, or of a job that a restart of the API cut     *)
(* off.  Killed is not the last word: the end of the killed process still  *)
(* replaces it.  The detailed module Jobs is shown to implement this one.  *)
(***************************************************************************)
CONSTANT Job             \* the job ids

VARIABLES row,           \* row[j]: the status column, or "none" before the insert
          life           \* life[j]: its process, "none" before the start, "alive",
                         \* then "clean" after exit code 0 and "unclean" otherwise

LInit ==
    /\ row = [j \in Job |-> "none"]
    /\ life = [j \in Job |-> "none"]

Becomes(j, from, to) ==
    /\ row[j] \in from
    /\ row' = [row EXCEPT ![j] = to]
    /\ life' = life

\* The process of a Pending job is started, or cannot be.
Spawn(j) ==
    /\ row[j] = "pending"
    /\ life[j] = "none"
    /\ \E l \in {"alive", "unclean"} : life' = [life EXCEPT ![j] = l]
    /\ row' = row

\* A process ends whenever it likes.
End(j) ==
    /\ life[j] = "alive"
    /\ \E l \in {"clean", "unclean"} : life' = [life EXCEPT ![j] = l]
    /\ row' = row

\* All processes end with the container they run in.
EndAll ==
    /\ life' = [j \in Job |-> IF life[j] = "alive" THEN "unclean" ELSE life[j]]
    /\ row' = row

Insert(j)     == Becomes(j, {"none"}, "pending")
Start(j)      == Becomes(j, {"pending"}, "running") /\ life[j] # "none"
MarkKilled(j) == Becomes(j, {"running"}, "killed")
Complete(j)   == Becomes(j, {"running", "killed"}, "done") /\ life[j] = "clean"
Fail(j)       == Becomes(j, {"running", "killed"}, "failed") /\ life[j] = "unclean"

\* A restart of the API fails, in one statement, every row still in progress.
Interrupt ==
    /\ row' = [j \in Job |->
                  IF row[j] \in {"pending", "running"} THEN "failed" ELSE row[j]]
    /\ life' = life

LNext ==
    \/ \E j \in Job : \/ Insert(j) \/ Spawn(j) \/ Start(j) \/ MarkKilled(j)
                      \/ End(j) \/ Complete(j) \/ Fail(j)
    \/ EndAll
    \/ Interrupt

LSpec == LInit /\ [][LNext]_<<row, life>>
=============================================================================
