-------------------------------- MODULE Jobs --------------------------------
(***************************************************************************)
(* JobsService: creating, launching, watching and killing training jobs.   *)
(*                                                                         *)
(* The API is one process with one event loop, so a stretch of code        *)
(* between two awaits is one action.  Four places hold what is known of a  *)
(* job and disagree for a while: its row in SQLite, the Job object that    *)
(* launch() closed over, the entry in the processes map, and the detached  *)
(* process group the operating system runs.  A kill request works on a     *)
(* second Job object, freshly read from the table.                         *)
(*                                                                         *)
(* All statements reach SQLite over one connection in the order they were  *)
(* issued; a statement takes effect in the step that applies it, and its   *)
(* caller goes on in a later step.                                         *)
(***************************************************************************)
EXTENDS Naturals, FiniteSets

CONSTANTS
    Job,            \* job ids, each used by one call of create()
    Kill,           \* kill requests, each used once
    MaxConcurrent,  \* the setting maxConcurrentJobs
    MaxCrashes,     \* bound on crashes of the API that come from outside
    MaxFaults       \* bound on failing saves

ASSUME JobAssumption == IsFiniteSet(Job)
ASSUME BoundAssumption ==
    /\ MaxConcurrent \in Nat \ {0}
    /\ MaxCrashes \in Nat
    /\ MaxFaults \in Nat

VARIABLES
    row,        \* the status column of the jobs table, "none" without a row
    os,         \* the process group: "none", "alive", how it ended, or
                \* "absent" when spawn could not start it
    api,        \* the API process: "up" or "down"
    pc,         \* where create() and launch() of the job stand
    mem,        \* status of the Job object launch() holds, "none" without one
    procs,      \* the keys of the processes map
    handle,     \* the ChildProcess object: "none", "bare" (no listeners yet),
                \* "wired" (listeners attached) or "closed" (close was emitted)
    flush,      \* pairs <<job, handler>>: final saves in flight
    kjob,       \* the job a kill request names
    kpc,        \* where a kill request stands
    kok,        \* whether its signal went out
    ksaid,      \* the status it was answered, "none" before the answer
    announced,  \* the last job:status event of a job, "none" before the first
    raced,      \* history: two creates were past the limit check together
    crashes,    \* outside crashes so far
    faults      \* failed saves so far

createVars == <<pc, mem, procs, handle, flush>>
killVars   == <<kpc, kok, ksaid>>
budget     == <<crashes, faults>>
vars == <<row, os, api, createVars, kjob, killVars, announced, raced, budget>>

Finished  == {"done", "failed"}
Unfinished == {"pending", "running"}
JobStatus == Unfinished \cup Finished \cup {"killed"}
MaybeStatus == JobStatus \cup {"none"}

\* How a process group ends: exit code 0, another code, or by a signal.
Ended == {"zero", "nonzero", "signal"}

\* Where create() and launch() stand: accepted by the limit check ("prepare"),
\* Pending row written ("inserted"), spawned and saving Running ("launching"),
\* Running row written ("saved"), listeners attached ("attached"); or turned
\* down ("refused"), left without listeners ("abandoned"), cut off ("lost").
InFlight == {"prepare", "inserted", "launching"}
CreateStage == {"idle", "saved", "attached", "refused", "abandoned", "lost"}
                   \cup InFlight
KillStage == {"idle", "found", "save", "wait", "answer", "done", "lost"}

TypeOK ==
    /\ row \in [Job -> MaybeStatus]
    /\ os \in [Job -> {"none", "alive", "absent"} \cup Ended]
    /\ api \in {"up", "down"}
    /\ pc \in [Job -> CreateStage]
    /\ mem \in [Job -> {"none", "running"} \cup Finished]
    /\ procs \subseteq Job
    /\ handle \in [Job -> {"none", "bare", "wired", "closed"}]
    /\ flush \subseteq Job \X {"close", "error"}
    /\ kjob \in [Kill -> Job]
    /\ kpc \in [Kill -> KillStage]
    /\ kok \in [Kill -> BOOLEAN]
    /\ ksaid \in [Kill -> MaybeStatus]
    /\ announced \in [Job -> MaybeStatus]
    /\ raced \in BOOLEAN
    /\ crashes \in 0..MaxCrashes
    /\ faults \in 0..MaxFaults

Init ==
    /\ row = [j \in Job |-> "none"]
    /\ os = [j \in Job |-> "none"]
    /\ api = "up"
    /\ pc = [j \in Job |-> "idle"]
    /\ mem = [j \in Job |-> "none"]
    /\ procs = {}
    /\ handle = [j \in Job |-> "none"]
    /\ flush = {}
    /\ kjob \in [Kill -> Job]
    /\ kpc = [k \in Kill |-> "idle"]
    /\ kok = [k \in Kill |-> FALSE]
    /\ ksaid = [k \in Kill |-> "none"]
    /\ announced = [j \in Job |-> "none"]
    /\ raced = FALSE
    /\ crashes = 0
    /\ faults = 0

-----------------------------------------------------------------------------
(* create() and launch() *)

RunningRows == {j \in Job : row[j] = "running"}
Accepted    == {j \in Job : pc[j] \in InFlight}

\* Mutant: the limit check lets one job too many through.
BelowLimitOffByOne == Cardinality(RunningRows) <= MaxConcurrent

\* The limit check: it counts the rows that read Running, and only those.
BelowLimit == Cardinality(RunningRows) < MaxConcurrent

\* create() passes the limit check and the validation, and goes on to await
\* the job directory and its files.
CreateAccept(j) ==
    /\ api = "up"
    /\ pc[j] = "idle"
    /\ BelowLimit
    /\ pc' = [pc EXCEPT ![j] = "prepare"]
    /\ raced' = (raced \/ Accepted # {})
    /\ UNCHANGED <<row, os, api, mem, procs, handle, flush, kjob, killVars,
                   announced, budget>>

\* create() throws: no such dataset, the limit reached (409), a config that
\* does not validate (422), a file or the first save that fails.
CreateRefuse(j) ==
    /\ api = "up"
    /\ pc[j] \in {"idle", "prepare"}
    /\ pc' = [pc EXCEPT ![j] = "refused"]
    /\ UNCHANGED <<row, os, api, mem, procs, handle, flush, kjob, killVars,
                   announced, raced, budget>>

\* The save of the Pending row takes effect.
InsertRow(j) ==
    /\ api = "up"
    /\ pc[j] = "prepare"
    /\ pc' = [pc EXCEPT ![j] = "inserted"]
    /\ row' = [row EXCEPT ![j] = "pending"]
    /\ UNCHANGED <<os, api, mem, procs, handle, flush, kjob, killVars,
                   announced, raced, budget>>

\* create() goes on and calls launch(), which runs up to its first await: the
\* spawn (the command may be missing), the Running mark on its own object, the
\* map entry, and the save of the Running row is issued.
Launch(j) ==
    /\ api = "up"
    /\ pc[j] = "inserted"
    /\ pc' = [pc EXCEPT ![j] = "launching"]
    /\ \E started \in {"alive", "absent"} : os' = [os EXCEPT ![j] = started]
    /\ mem' = [mem EXCEPT ![j] = "running"]
    /\ procs' = procs \cup {j}
    /\ handle' = [handle EXCEPT ![j] = "bare"]
    /\ UNCHANGED <<row, api, flush, kjob, killVars, announced, raced, budget>>

\* The save of the Running row takes effect; launch() has not gone on yet.
SaveRunning(j) ==
    /\ api = "up"
    /\ pc[j] = "launching"
    /\ pc' = [pc EXCEPT ![j] = "saved"]
    /\ row' = [row EXCEPT ![j] = "running"]
    /\ UNCHANGED <<os, api, mem, procs, handle, flush, kjob, killVars,
                   announced, raced, budget>>

\* Mutant: the catch of create() also marks the row Failed.
SaveRunningFailsMarks(j) ==
    /\ api = "up"
    /\ pc[j] = "launching"
    /\ faults < MaxFaults
    /\ faults' = faults + 1
    /\ pc' = [pc EXCEPT ![j] = "abandoned"]
    /\ row' = [row EXCEPT ![j] = "failed"]
    /\ UNCHANGED <<os, api, mem, procs, handle, flush, kjob, killVars,
                   announced, raced, crashes>>

\* That save fails: launch() rejects, create() only logs it, and nobody ever
\* listens to the process.
SaveRunningFails(j) ==
    /\ api = "up"
    /\ pc[j] = "launching"
    /\ faults < MaxFaults
    /\ faults' = faults + 1
    /\ pc' = [pc EXCEPT ![j] = "abandoned"]
    /\ UNCHANGED <<row, os, api, mem, procs, handle, flush, kjob, killVars,
                   announced, raced, crashes>>

\* launch() goes on: it attaches the listeners, too late for a close that has
\* already been emitted, and announces Running.
Attach(j) ==
    /\ api = "up"
    /\ pc[j] = "saved"
    /\ pc' = [pc EXCEPT ![j] = "attached"]
    /\ handle' = [handle EXCEPT ![j] = IF @ = "bare" THEN "wired" ELSE @]
    /\ announced' = [announced EXCEPT ![j] = "running"]
    /\ UNCHANGED <<row, os, api, mem, procs, flush, kjob, killVars, raced,
                   budget>>

-----------------------------------------------------------------------------
(* The process group, and the events Node reports about it *)

\* The group ends, of itself or because of a signal, whoever sent it.
Exit(j) ==
    /\ os[j] = "alive"
    /\ \E how \in Ended : os' = [os EXCEPT ![j] = how]
    /\ UNCHANGED <<row, api, createVars, kjob, killVars, announced, raced,
                   budget>>

\* close is emitted before launch() has attached its listeners: nobody hears.
CloseUnheard(j) ==
    /\ api = "up"
    /\ handle[j] = "bare"
    /\ os[j] \in Ended
    /\ handle' = [handle EXCEPT ![j] = "closed"]
    /\ UNCHANGED <<row, os, api, pc, mem, procs, flush, kjob, killVars,
                   announced, raced, budget>>

\* code ?? (signal ? 1 : 0): a death by signal has no code and counts as 1.
Outcome(how) == IF how = "zero" THEN "done" ELSE "failed"

\* Mutant: the close handler does not announce how the job ended.
CloseSilent(j) ==
    /\ api = "up"
    /\ handle[j] = "wired"
    /\ os[j] \in Ended
    /\ handle' = [handle EXCEPT ![j] = "closed"]
    /\ procs' = procs \ {j}
    /\ mem' = [mem EXCEPT ![j] = Outcome(os[j])]
    /\ flush' = flush \cup {<<j, "close">>}
    /\ UNCHANGED <<row, os, api, pc, kjob, killVars, announced, raced, budget>>

\* Mutant: the close handler does not save.
CloseUnsaved(j) ==
    /\ api = "up"
    /\ handle[j] = "wired"
    /\ os[j] \in Ended
    /\ handle' = [handle EXCEPT ![j] = "closed"]
    /\ procs' = procs \ {j}
    /\ mem' = [mem EXCEPT ![j] = Outcome(os[j])]
    /\ announced' = [announced EXCEPT ![j] = Outcome(os[j])]
    /\ UNCHANGED <<row, os, api, pc, flush, kjob, killVars, raced, budget>>

\* Mutant: code ?? 0 in what is announced: a death by signal counts as success.
CloseAnnouncesCode(j) ==
    /\ api = "up"
    /\ handle[j] = "wired"
    /\ os[j] \in Ended
    /\ handle' = [handle EXCEPT ![j] = "closed"]
    /\ procs' = procs \ {j}
    /\ mem' = [mem EXCEPT ![j] = Outcome(os[j])]
    /\ announced' = [announced EXCEPT ![j] = IF os[j] = "nonzero" THEN "failed" ELSE "done"]
    /\ flush' = flush \cup {<<j, "close">>}
    /\ UNCHANGED <<row, os, api, pc, kjob, killVars, raced, budget>>

\* The close handler up to its await.  Its guard asks for Killed in the object
\* launch() holds, and kill() marks another object.
Close(j) ==
    /\ api = "up"
    /\ handle[j] = "wired"
    /\ os[j] \in Ended
    /\ handle' = [handle EXCEPT ![j] = "closed"]
    /\ procs' = procs \ {j}
    /\ IF mem[j] # "killed"
       THEN /\ mem' = [mem EXCEPT ![j] = Outcome(os[j])]
            /\ announced' = [announced EXCEPT ![j] = Outcome(os[j])]
       ELSE UNCHANGED <<mem, announced>>
    /\ flush' = flush \cup {<<j, "close">>}
    /\ UNCHANGED <<row, os, api, pc, kjob, killVars, raced, budget>>

\* The error handler up to its await.  Node and Bun report a failed spawn on
\* the tick after it, before the save of launch() can end, and then nobody
\* listens (SpawnErrorUnheard); a runtime that reports it later is allowed too.
SpawnError(j) ==
    /\ api = "up"
    /\ handle[j] = "wired"
    /\ os[j] = "absent"
    /\ os' = [os EXCEPT ![j] = "nonzero"]
    /\ procs' = procs \ {j}
    /\ mem' = [mem EXCEPT ![j] = "failed"]
    /\ flush' = flush \cup {<<j, "error">>}
    /\ UNCHANGED <<row, api, pc, handle, kjob, killVars, announced, raced,
                   budget>>

\* A final save takes effect: of the status launch()'s object has by then, and
\* after every save of a kill of the same job, all of which were issued before.
\* The error handler announces only now.
FlushSaved(j, w) ==
    /\ api = "up"
    /\ <<j, w>> \in flush
    /\ \A k \in Kill : kjob[k] = j => kpc[k] # "save"
    /\ flush' = flush \ {<<j, w>>}
    /\ row' = [row EXCEPT ![j] = mem[j]]
    /\ announced' = IF w = "error" THEN [announced EXCEPT ![j] = "failed"]
                                   ELSE announced
    /\ UNCHANGED <<os, api, pc, mem, procs, handle, kjob, killVars, raced,
                   budget>>

-----------------------------------------------------------------------------
(* kill(), and the controller around it *)

\* The request finds the row.  Without one it is a 404 and changes nothing;
\* with a row that does not read Running there is nothing to kill.
KillLookup(k) ==
    /\ api = "up"
    /\ kpc[k] = "idle"
    /\ row[kjob[k]] # "none"
    /\ kpc' = [kpc EXCEPT ![k] = IF row[kjob[k]] = "running" THEN "found"
                                                            ELSE "answer"]
    /\ UNCHANGED <<row, os, api, createVars, kjob, kok, ksaid, announced,
                   raced, budget>>

\* Mutant: kill() trusts the row and does not look the process up again.
HasProcessUnchecked(j) == os[j] # "absent"

\* The map still has a process with a pid for this job.
HasProcess(j) == j \in procs /\ os[j] # "absent"

\* A dead group takes a signal until it is reaped, which is before its close.
TakesSignal(j) == os[j] = "alive" \/ handle[j] # "closed"

\* Mutant: kill() forgets to save.
KillSignalUnsaved(k) ==
    /\ api = "up"
    /\ kpc[k] = "found"
    /\ HasProcess(kjob[k])
    /\ TakesSignal(kjob[k])
    /\ kpc' = [kpc EXCEPT ![k] = "wait"]
    /\ announced' = [announced EXCEPT ![kjob[k]] = "killed"]
    /\ UNCHANGED <<row, os, api, createVars, kjob, kok, ksaid, raced, budget>>

\* kill() goes on after its read: SIGTERM to the group, Killed on the object it
\* has read, Killed announced, and the save is issued.
KillSignal(k) ==
    /\ api = "up"
    /\ kpc[k] = "found"
    /\ HasProcess(kjob[k])
    /\ TakesSignal(kjob[k])
    /\ kpc' = [kpc EXCEPT ![k] = "save"]
    /\ announced' = [announced EXCEPT ![kjob[k]] = "killed"]
    /\ UNCHANGED <<row, os, api, createVars, kjob, kok, ksaid, raced, budget>>

\* kill() goes on and finds no process, or the signal finds no group: false.
KillMiss(k) ==
    /\ api = "up"
    /\ kpc[k] = "found"
    /\ ~HasProcess(kjob[k]) \/ os[kjob[k]] \in Ended
    /\ kpc' = [kpc EXCEPT ![k] = "answer"]
    /\ UNCHANGED <<row, os, api, createVars, kjob, kok, ksaid, announced,
                   raced, budget>>

\* The save of Killed takes effect, and the five seconds begin.
KillSaved(k) ==
    /\ api = "up"
    /\ kpc[k] = "save"
    /\ kpc' = [kpc EXCEPT ![k] = "wait"]
    /\ row' = [row EXCEPT ![kjob[k]] = "killed"]
    /\ UNCHANGED <<os, api, createVars, kjob, kok, ksaid, announced, raced,
                   budget>>

\* That save fails inside the try: the SIGTERM is out and Killed is announced,
\* but kill() returns false and there will be no SIGKILL.
KillSaveFails(k) ==
    /\ api = "up"
    /\ kpc[k] = "save"
    /\ faults < MaxFaults
    /\ faults' = faults + 1
    /\ kpc' = [kpc EXCEPT ![k] = "answer"]
    /\ UNCHANGED <<row, os, api, createVars, kjob, kok, ksaid, announced,
                   raced, crashes>>

\* Mutant: no SIGKILL after the five seconds.
KillTimerNoEscalation(k) ==
    /\ api = "up"
    /\ kpc[k] = "wait"
    /\ kpc' = [kpc EXCEPT ![k] = "answer"]
    /\ kok' = [kok EXCEPT ![k] = TRUE]
    /\ UNCHANGED <<row, os, api, createVars, kjob, ksaid, announced, raced,
                   budget>>

\* Five seconds later: SIGKILL if the map still has the job.
KillTimer(k) ==
    /\ api = "up"
    /\ kpc[k] = "wait"
    /\ kpc' = [kpc EXCEPT ![k] = "answer"]
    /\ kok' = [kok EXCEPT ![k] = TRUE]
    /\ os' = IF kjob[k] \in procs /\ os[kjob[k]] = "alive"
             THEN [os EXCEPT ![kjob[k]] = "signal"]
             ELSE os
    /\ UNCHANGED <<row, api, createVars, kjob, ksaid, announced, raced, budget>>

\* The controller reads the row once more and answers with its status.
KillAnswer(k) ==
    /\ api = "up"
    /\ kpc[k] = "answer"
    /\ kpc' = [kpc EXCEPT ![k] = "done"]
    /\ ksaid' = [ksaid EXCEPT ![k] = row[kjob[k]]]
    /\ UNCHANGED <<row, os, api, createVars, kjob, kok, announced, raced,
                   budget>>

-----------------------------------------------------------------------------
(* The API process *)

\* The API dies with everything it held in memory.  No shutdown hook runs, so
\* no process is signalled: the groups live on, or die with their container.
ApiDies ==
    /\ api = "up"
    /\ api' = "down"
    /\ pc' = [j \in Job |-> IF pc[j] \in {"idle", "refused"} THEN pc[j]
                                                             ELSE "lost"]
    /\ mem' = [j \in Job |-> "none"]
    /\ procs' = {}
    /\ handle' = [j \in Job |-> "none"]
    /\ flush' = {}
    /\ kpc' = [k \in Kill |-> IF kpc[k] \in {"idle", "done"} THEN kpc[k]
                                                            ELSE "lost"]
    /\ \E survive \in BOOLEAN :
         os' = [j \in Job |-> IF os[j] = "alive" /\ ~survive THEN "signal"
                                                             ELSE os[j]]
    /\ UNCHANGED <<row, kjob, kok, ksaid, announced, raced>>

\* A crash that comes from outside: out of memory, a redeployed container.
Crash ==
    /\ crashes < MaxCrashes
    /\ crashes' = crashes + 1
    /\ ApiDies
    /\ UNCHANGED faults

\* The error event of a failed spawn finds no listener: an uncaught exception.
SpawnErrorUnheard(j) ==
    /\ handle[j] = "bare"
    /\ os[j] = "absent"
    /\ ApiDies
    /\ UNCHANGED budget

\* The save of the close or error handler fails: an unhandled rejection.
FlushFails(j, w) ==
    /\ <<j, w>> \in flush
    /\ faults < MaxFaults
    /\ faults' = faults + 1
    /\ ApiDies
    /\ UNCHANGED crashes

\* Mutant: the restart only looks for Pending rows.
RestartPendingOnly ==
    /\ api = "down"
    /\ api' = "up"
    /\ row' = [j \in Job |-> IF row[j] = "pending" THEN "failed" ELSE row[j]]
    /\ UNCHANGED <<os, createVars, kjob, killVars, announced, raced, budget>>

\* Mutant: the restart fails every row it finds.
RestartFailsAll ==
    /\ api = "down"
    /\ api' = "up"
    /\ row' = [j \in Job |-> IF row[j] # "none" THEN "failed" ELSE row[j]]
    /\ UNCHANGED <<os, createVars, kjob, killVars, announced, raced, budget>>

\* onModuleInit, before any request is served: one update fails every row that
\* was in progress.
Restart ==
    /\ api = "down"
    /\ api' = "up"
    /\ row' = [j \in Job |-> IF row[j] \in Unfinished THEN "failed" ELSE row[j]]
    /\ UNCHANGED <<os, createVars, kjob, killVars, announced, raced, budget>>

-----------------------------------------------------------------------------
CreateStep(j) ==
    \/ CreateAccept(j) \/ CreateRefuse(j) \/ InsertRow(j) \/ Launch(j)
    \/ SaveRunning(j) \/ SaveRunningFails(j) \/ Attach(j)

ProcessStep(j) ==
    \/ Exit(j) \/ CloseUnheard(j) \/ Close(j) \/ SpawnError(j)
    \/ SpawnErrorUnheard(j)
    \/ \E w \in {"close", "error"} : FlushSaved(j, w) \/ FlushFails(j, w)

KillStep(k) ==
    \/ KillLookup(k) \/ KillSignal(k) \/ KillMiss(k) \/ KillSaved(k)
    \/ KillSaveFails(k) \/ KillTimer(k) \/ KillAnswer(k)

Next ==
    \/ \E j \in Job : CreateStep(j) \/ ProcessStep(j)
    \/ \E k \in Kill : KillStep(k)
    \/ Crash
    \/ Restart

Spec == Init /\ [][Next]_vars

\* The event loop runs every continuation it owes, SQLite answers, Node emits
\* what it has seen, and the container is restarted (unless-stopped).  Nothing
\* makes a user act, a process end, a save fail or the API crash.
Fairness ==
    /\ \A j \in Job :
         /\ WF_vars(InsertRow(j)) /\ WF_vars(Launch(j))
         /\ WF_vars(SaveRunning(j)) /\ WF_vars(Attach(j))
         /\ WF_vars(CloseUnheard(j)) /\ WF_vars(Close(j))
         /\ WF_vars(SpawnError(j)) /\ WF_vars(SpawnErrorUnheard(j))
         /\ \A w \in {"close", "error"} : WF_vars(FlushSaved(j, w))
    /\ \A k \in Kill :
         /\ WF_vars(KillSignal(k)) /\ WF_vars(KillMiss(k))
         /\ WF_vars(KillSaved(k)) /\ WF_vars(KillTimer(k))
         /\ WF_vars(KillAnswer(k))
    /\ WF_vars(Restart)

FairSpec == Spec /\ Fairness

-----------------------------------------------------------------------------
(* Safety *)

\* The limit check of create() bounds the rows that read Running as long as no
\* two creates are between the check and their Running row at the same time.
SlotsBounded == ~raced => Cardinality(RunningRows) <= MaxConcurrent

\* A row that reads Done tells of a process group that exited with code 0,
\* whatever signals, crashes and late saves came in between.
DoneMeansExitedCleanly == \A j \in Job : row[j] = "done" => os[j] = "zero"

\* A row reads Done or Failed while its process group still runs only when the
\* API was restarted beside it: the close handler never speaks too early.
NoFalseFinish ==
    \A j \in Job : row[j] \in Finished /\ os[j] = "alive" => pc[j] = "lost"

\* What a finished row says of the process group is true.
EndsAreTrue == DoneMeansExitedCleanly /\ NoFalseFinish

\* While the API is up, a row that reads Running has its process in the map, or
\* its final save is on the way: no row is left Running once its entry is gone.
RunningIsHeld ==
    api = "up" =>
        \A j \in Job : row[j] = "running" =>
            j \in procs \/ \E w \in {"close", "error"} : <<j, w>> \in flush

\* A kill that was delivered never answers with a job still Pending or Running.
KillAnswersSettled ==
    \A k \in Kill : kpc[k] = "done" /\ kok[k] => ksaid[k] \notin Unfinished

\* Once the final save of a job is through, the row, the object of launch() and
\* the last event sent to the clients say the same.
FinalAgreement ==
    \A j \in Job :
        mem[j] \in Finished /\ (\A w \in {"close", "error"} : <<j, w>> \notin flush)
            => row[j] = mem[j] /\ announced[j] = mem[j]

\* Done or Failed, once announced, is the last event about a job: no kill in
\* progress and no restart announces anything after it.
FinalWord ==
    [][\A j \in Job :
          announced[j] \in Finished => announced'[j] = announced[j]]_vars

\* What the abstract life of a job keeps of its process group: whether it runs,
\* and whether it ended with exit code 0.
LifeOf(how) == IF how \in {"none", "alive"} THEN how
               ELSE IF how = "zero" THEN "clean" ELSE "unclean"
Life == [j \in Job |-> LifeOf(os[j])]

\* Row and process move as the abstract life of a job allows: what the column
\* says is never further from the process group than a restart takes it.
Lifecycle == INSTANCE JobLifecycle WITH life <- Life
ImplementsLifecycle == Lifecycle!LSpec

(* Liveness *)

\* A delivered kill ends the process group, by SIGTERM or by the SIGKILL that
\* follows, unless the API itself dies in the five seconds between.
KillEnds ==
    \A k \in Kill : kpc[k] = "wait" ~> os[kjob[k]] # "alive" \/ kpc[k] = "lost"

\* The end of a process whose listeners are attached reaches the row, through
\* the close handler or, after a crash, through the restart.
CloseIsRecorded ==
    \A j \in Job :
        handle[j] = "wired" /\ os[j] \in Ended
            ~> row[j] \in Finished \cup {"killed"}

(* What the repository says and the code does not do *)

\* settings.entity.ts: at most maxConcurrentJobs training jobs run at a time.
ConcurrencyLimit == Cardinality({j \in Job : os[j] = "alive"}) <= MaxConcurrent

\* kill-job.dto.ts and the guard of the close handler: a job that was killed
\* stays Killed.
KilledStaysKilled ==
    [][\A j \in Job : row[j] = "killed" => row'[j] = "killed"]_vars
=============================================================================
