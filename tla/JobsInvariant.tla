--------------------------- MODULE JobsInvariant ---------------------------
(***************************************************************************)
(* The inductive invariant of Jobs: how the stage a job has reached, the   *)
(* object launch() holds, the map, the process and the row fit together    *)
(* between any two steps.                                                  *)
(***************************************************************************)
EXTENDS Jobs

Flushing(j) == \E w \in {"close", "error"} : <<j, w>> \in flush

\* Before the spawn, and after a crash, the API holds nothing for the job.
\* From the spawn on it holds an object and, until that object is finished, an
\* entry in the map.
MemInv(j) ==
    /\ pc[j] \in {"idle", "refused", "prepare", "inserted", "lost"}
         => mem[j] = "none" /\ handle[j] = "none"
    /\ pc[j] \in {"launching", "saved", "abandoned"}
         => mem[j] = "running" /\ handle[j] \in {"bare", "closed"}
    /\ pc[j] = "attached"
         => mem[j] # "none" /\ handle[j] \in {"wired", "closed"}
    /\ j \in procs <=> mem[j] = "running"
    /\ Flushing(j) => mem[j] \in Finished
    /\ <<j, "error">> \in flush => mem[j] = "failed"
    /\ mem[j] \in Finished /\ handle[j] = "wired"
         => mem[j] = "failed" /\ os[j] = "nonzero"

\* The row follows the stage.
RowInv(j) ==
    /\ pc[j] \in {"idle", "refused", "prepare"} => row[j] = "none"
    /\ pc[j] \in {"inserted", "launching", "abandoned"} => row[j] = "pending"
    /\ pc[j] = "saved" => row[j] \in {"running", "killed"}
    /\ pc[j] = "attached" =>
         /\ row[j] \in {"running", "killed", mem[j]}
         /\ mem[j] \in Finished /\ ~Flushing(j) => row[j] = mem[j]
    /\ api = "up" /\ pc[j] = "lost" => row[j] \notin Unfinished

\* launch() starts the process.  What is finished has ended, and Done is exit code 0, Failed is not.
EndInv(j) ==
    /\ pc[j] \in {"idle", "refused", "prepare", "inserted"} => os[j] = "none"
    /\ pc[j] \in {"launching", "saved", "attached", "abandoned"} => os[j] # "none"
    /\ mem[j] \in Finished => os[j] \in Ended
    /\ mem[j] = "done" => os[j] = "zero"
    /\ mem[j] = "failed" => os[j] # "zero"
    /\ row[j] = "done" => os[j] = "zero"

\* The clients are told of the end by the handler that saw it, once.
AnnounceInv(j) ==
    /\ announced[j] \in Finished =>
         pc[j] = "lost" \/ (pc[j] = "attached" /\ announced[j] = mem[j])
    /\ mem[j] \in Finished /\ <<j, "error">> \notin flush
         => announced[j] = mem[j]

\* A kill in progress is of a job whose Running row was written; once its own
\* save is through the row is past Running for good.
KillInv(k) ==
    /\ kpc[k] \in {"found", "save"} => pc[kjob[k]] \in {"saved", "attached"}
    /\ kpc[k] = "save" =>
         /\ row[kjob[k]] \in {"running", "killed"}
         /\ mem[kjob[k]] \in Finished => Flushing(kjob[k])
    /\ kpc[k] = "wait" \/ (kpc[k] = "answer" /\ kok[k])
         => row[kjob[k]] \in Finished \cup {"killed"}
    /\ kok[k] => kpc[k] \in {"answer", "done", "lost"}
    /\ kpc[k] = "done" /\ kok[k] => ksaid[k] \notin Unfinished

\* The creates past the limit check hold their slots before their row reads
\* Running.
SlotInv == ~raced => Cardinality(RunningRows \cup Accepted) <= MaxConcurrent

\* A dead API has no call in progress.
DownInv == api = "down" => \A j \in Job : pc[j] \in {"idle", "refused", "lost"}

JobInv(j) == MemInv(j) /\ RowInv(j) /\ EndInv(j) /\ AnnounceInv(j)

IInv ==
    /\ TypeOK
    /\ \A j \in Job : JobInv(j)
    /\ \A k \in Kill : KillInv(k)
    /\ SlotInv
    /\ DownInv
=============================================================================
