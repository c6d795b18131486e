--------------------------- MODULE JobsRefinement ---------------------------
(***************************************************************************)
(* Jobs implements JobLifecycle: whatever the event loop, SQLite, the      *)
(* processes and the kills do to each other, the status column and the     *)
(* process group move only as the life of a job allows.  The mapping keeps *)
(* the row as it is and forgets how an unclean end came about; the         *)
(* invariant of Jobs tells which abstract step a save amounts to.          *)
(***************************************************************************)
EXTENDS JobsProofs

\* A step of Jobs is a step of the abstract life of the jobs, or none.
Refines == [Lifecycle!LNext]_<<row, Life>>

\* What leaves the process groups alone leaves the abstract processes alone.
LEMMA LifeStays ==
    ASSUME os' = os PROVE Life' = Life
<1> QED
  BY DEF Life

\* A change of one process group is a change of one abstract process.
LEMMA LifeMoves ==
    ASSUME TypeOK, NEW j \in Job, NEW how, os' = [os EXCEPT ![j] = how]
    PROVE  Life' = [Life EXCEPT ![j] = LifeOf(how)]
<1> QED
  BY DEF TypeOK, Life

\* A step of create() or launch() inserts the row, starts the process, tells
\* the row that it runs, or leaves both.
LEMMA CreateRefines ==
    ASSUME IInv, NEW j \in Job, CreateStep(j)
    PROVE  Refines
<1>1. TypeOK /\ RowInv(j) /\ EndInv(j)
  BY DEF IInv, JobInv
<1>2. CASE InsertRow(j)
  <2>1. Lifecycle!Insert(j)
    BY <1>1, <1>2, LifeStays
       DEF InsertRow, RowInv, Lifecycle!Insert, Lifecycle!Becomes
  <2> QED
    BY <2>1 DEF Refines, Lifecycle!LNext
<1>3. CASE Launch(j)
  <2>1. PICK started \in {"alive", "absent"} : os' = [os EXCEPT ![j] = started]
    BY <1>3 DEF Launch
  <2>2. Life' = [Life EXCEPT ![j] = LifeOf(started)]
    BY <1>1, <2>1, LifeMoves
  <2>3. LifeOf(started) \in {"alive", "unclean"}
    BY <2>1 DEF LifeOf
  <2>4. row[j] = "pending" /\ Life[j] = "none"
    BY <1>1, <1>3 DEF Launch, RowInv, EndInv, Life, LifeOf
  <2>5. row' = row
    BY <1>3 DEF Launch
  <2>6. Lifecycle!Spawn(j)
    BY <2>2, <2>3, <2>4, <2>5 DEF Lifecycle!Spawn
  <2> QED
    BY <2>6 DEF Refines, Lifecycle!LNext
<1>4. CASE SaveRunning(j)
  <2>1. Life' = Life
    BY <1>4, LifeStays DEF SaveRunning
  <2>2. os[j] # "none" /\ os[j] \in {"alive", "absent"} \cup Ended
    BY <1>1, <1>4 DEF SaveRunning, EndInv, TypeOK
  <2>3. Life[j] # "none"
    BY <2>2 DEF Life, LifeOf, Ended
  <2>4. Lifecycle!Start(j)
    BY <1>1, <1>4, <2>1, <2>3
       DEF SaveRunning, RowInv, Lifecycle!Start, Lifecycle!Becomes
  <2> QED
    BY <2>4 DEF Refines, Lifecycle!LNext
<1> QED
  BY <1>2, <1>3, <1>4, LifeStays DEF CreateStep, CreateAccept, CreateRefuse,
     SaveRunningFails, Attach, Refines

\* A final save finds a Running or Killed row, or one it has already written,
\* and writes Done of a clean end only, Failed of an unclean one only.
LEMMA SaveRefines ==
    ASSUME IInv, NEW j \in Job, NEW w \in {"close", "error"}, FlushSaved(j, w)
    PROVE  Refines
<1>1. TypeOK /\ MemInv(j) /\ RowInv(j) /\ EndInv(j)
  BY DEF IInv, JobInv
<1>2. mem[j] \in Finished
  BY <1>1 DEF FlushSaved, MemInv, Flushing
<1>3. pc[j] = "attached"
  BY <1>1, <1>2 DEF TypeOK, MemInv, CreateStage, InFlight, Finished
<1>4. row[j] \in {"running", "killed", mem[j]}
  BY <1>1, <1>3 DEF RowInv
<1>5. row' = [row EXCEPT ![j] = mem[j]] /\ Life' = Life
  BY LifeStays DEF FlushSaved
<1>6. CASE row[j] = mem[j]
  BY <1>1, <1>5, <1>6 DEF TypeOK, Refines
<1>7. CASE row[j] \in {"running", "killed"} /\ mem[j] = "done"
  <2>1. Life[j] = "clean"
    BY <1>1, <1>7 DEF EndInv, Life, LifeOf
  <2>2. Lifecycle!Complete(j)
    BY <1>5, <1>7, <2>1 DEF Lifecycle!Complete, Lifecycle!Becomes
  <2> QED
    BY <2>2 DEF Refines, Lifecycle!LNext
<1>8. CASE row[j] \in {"running", "killed"} /\ mem[j] = "failed"
  <2>1. os[j] \in {"nonzero", "signal"}
    BY <1>1, <1>8 DEF EndInv, Ended, Finished
  <2>2. Life[j] = "unclean"
    BY <2>1 DEF Life, LifeOf
  <2>3. Lifecycle!Fail(j)
    BY <1>5, <1>8, <2>2 DEF Lifecycle!Fail, Lifecycle!Becomes
  <2> QED
    BY <2>3 DEF Refines, Lifecycle!LNext
<1> QED
  BY <1>2, <1>4, <1>6, <1>7, <1>8 DEF Finished

\* The API dies alone, or with every process that still runs.
LEMMA DeathRefines ==
    ASSUME IInv, ApiDies PROVE Refines
<1>1. PICK survive \in BOOLEAN :
         os' = [j \in Job |-> IF os[j] = "alive" /\ ~survive THEN "signal" ELSE os[j]]
  BY DEF ApiDies
<1>2. row' = row /\ TypeOK
  BY DEF ApiDies, IInv
<1>3. CASE survive
  <2>1. os' = os
    BY <1>1, <1>2, <1>3 DEF TypeOK
  <2> QED
    BY <1>2, <2>1, LifeStays DEF Refines
<1>4. CASE ~survive
  <2>1. \A j \in Job : LifeOf(os'[j]) =
           IF LifeOf(os[j]) = "alive" THEN "unclean" ELSE LifeOf(os[j])
    BY <1>1, <1>4 DEF LifeOf
  <2>2. Life' = [j \in Job |-> IF Life[j] = "alive" THEN "unclean" ELSE Life[j]]
    BY <2>1 DEF Life
  <2>3. Lifecycle!EndAll
    BY <1>2, <2>2 DEF Lifecycle!EndAll
  <2> QED
    BY <2>3 DEF Refines, Lifecycle!LNext
<1> QED
  BY <1>3, <1>4

\* The process ends, or its end is heard and recorded; that a process that
\* never started has ended changes nothing more.
LEMMA ProcessRefines ==
    ASSUME IInv, NEW j \in Job, ProcessStep(j)
    PROVE  Refines
<1>1. TypeOK
  BY DEF IInv
<1>2. CASE Exit(j)
  <2>1. PICK how \in Ended : os' = [os EXCEPT ![j] = how]
    BY <1>2 DEF Exit
  <2>2. Life' = [Life EXCEPT ![j] = LifeOf(how)]
    BY <1>1, <2>1, LifeMoves
  <2>3. LifeOf(how) \in {"clean", "unclean"}
    BY <2>1 DEF LifeOf, Ended
  <2>4. Life[j] = "alive" /\ row' = row
    BY <1>2 DEF Exit, Life, LifeOf
  <2>5. Lifecycle!End(j)
    BY <2>2, <2>3, <2>4 DEF Lifecycle!End
  <2> QED
    BY <2>5 DEF Refines, Lifecycle!LNext
<1>3. CASE SpawnError(j)
  <2>1. os' = [os EXCEPT ![j] = "nonzero"] /\ os[j] = "absent" /\ row' = row
    BY <1>3 DEF SpawnError
  <2>2. Life' = [Life EXCEPT ![j] = LifeOf("nonzero")]
    BY <1>1, <2>1, LifeMoves
  <2>3. Life[j] = LifeOf("nonzero")
    BY <2>1 DEF Life, LifeOf
  <2>4. Life' = Life
    BY <2>2, <2>3 DEF Life
  <2> QED
    BY <2>1, <2>4 DEF Refines
<1>4. ASSUME NEW w \in {"close", "error"}, FlushSaved(j, w)
      PROVE  Refines
  BY <1>4, SaveRefines
<1>5. CASE SpawnErrorUnheard(j) \/ \E w \in {"close", "error"} : FlushFails(j, w)
  BY <1>5, DeathRefines DEF SpawnErrorUnheard, FlushFails
<1>6. CASE CloseUnheard(j) \/ Close(j)
  BY <1>6, LifeStays DEF CloseUnheard, Close, Refines
<1> QED
  BY <1>2, <1>3, <1>4, <1>5, <1>6 DEF ProcessStep

\* The save of a kill finds a Running row, or one already Killed; its timer
\* ends the process.
LEMMA KillRefines ==
    ASSUME IInv, NEW k \in Kill, KillStep(k)
    PROVE  Refines
<1>1. kjob[k] \in Job /\ TypeOK
  BY DEF IInv, TypeOK
<1>2. CASE KillSaved(k)
  <2>1. row[kjob[k]] \in {"running", "killed"}
    BY <1>2 DEF IInv, KillInv, KillSaved
  <2>2. row' = [row EXCEPT ![kjob[k]] = "killed"] /\ Life' = Life
    BY <1>2, LifeStays DEF KillSaved
  <2>3. CASE row[kjob[k]] = "killed"
    BY <1>1, <2>2, <2>3 DEF TypeOK, Refines
  <2>4. CASE row[kjob[k]] = "running"
    <3>1. Lifecycle!MarkKilled(kjob[k])
      BY <2>2, <2>4 DEF Lifecycle!MarkKilled, Lifecycle!Becomes
    <3> QED
      BY <1>1, <3>1 DEF Refines, Lifecycle!LNext
  <2> QED
    BY <2>1, <2>3, <2>4
<1>3. CASE KillTimer(k)
  <2>1. row' = row
    BY <1>3 DEF KillTimer
  <2>2. CASE os' = os
    BY <2>1, <2>2, LifeStays DEF Refines
  <2>3. CASE os[kjob[k]] = "alive" /\ os' = [os EXCEPT ![kjob[k]] = "signal"]
    <3>1. Life' = [Life EXCEPT ![kjob[k]] = LifeOf("signal")]
      BY <1>1, <2>3, LifeMoves
    <3>2. Life[kjob[k]] = "alive" /\ LifeOf("signal") = "unclean"
      BY <1>1, <2>3 DEF Life, LifeOf
    <3>3. Lifecycle!End(kjob[k])
      BY <2>1, <3>1, <3>2 DEF Lifecycle!End
    <3> QED
      BY <1>1, <3>3 DEF Refines, Lifecycle!LNext
  <2> QED
    BY <1>3, <2>2, <2>3 DEF KillTimer
<1> QED
  BY <1>2, <1>3, LifeStays DEF KillStep, KillLookup, KillSignal, KillMiss,
     KillSaveFails, KillAnswer, Refines

\* The restart fails exactly the rows in progress.
LEMMA RestartRefines ==
    ASSUME Restart PROVE Refines
<1>1. Lifecycle!Interrupt
  BY LifeStays DEF Restart, Unfinished, Lifecycle!Interrupt
<1> QED
  BY <1>1 DEF Refines, Lifecycle!LNext

-----------------------------------------------------------------------------
\* Every behaviour of create(), launch(), kill(), the event handlers, crashes
\* and restarts shows a legal life of every job: its row is created once, reads
\* Running only of a process that was started, becomes Done only by a clean end
\* and Failed only by another one or by a restart, and Done and Failed are final.
THEOREM JobsImplementsLifecycle == Spec => ImplementsLifecycle
<1>1. Init => Lifecycle!LInit
  BY DEF Init, Life, LifeOf, Lifecycle!LInit
<1>2. IInv /\ [Next]_vars => [Lifecycle!LNext]_<<row, Life>>
  <2>1. ASSUME IInv, UNCHANGED vars PROVE Refines
    BY <2>1, LifeStays DEF vars, Refines
  <2>2. ASSUME IInv, Next PROVE Refines
    BY <2>2, CreateRefines, ProcessRefines, KillRefines, DeathRefines, RestartRefines
       DEF Next, Crash
  <2> QED
    BY <2>1, <2>2 DEF Refines
<1> QED
  BY <1>1, <1>2, Invariance, PTL DEF Spec, ImplementsLifecycle, Lifecycle!LSpec
=============================================================================
