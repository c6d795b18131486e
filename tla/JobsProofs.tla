----------------------------- MODULE JobsProofs -----------------------------
(***************************************************************************)
(* Jobs keeps IInv, for any finite set of jobs, any kills, any limit and   *)
(* any number of crashes and failing saves; and what follows from it.      *)
(* One lemma per action of Jobs shows that the action preserves IInv, with *)
(* one step for each part of IInv.                                         *)
(***************************************************************************)
EXTENDS JobsInvariant, FiniteSetTheorems, TLAPS

\* A fresh API knows nothing of any job.
LEMMA InitIInv == Init => IInv
<1> SUFFICES ASSUME Init PROVE IInv
  OBVIOUS
<1> USE DEF Init
<1>1. TypeOK
  <2>1. crashes \in 0..MaxCrashes /\ faults \in 0..MaxFaults
    BY BoundAssumption
  <2>2. /\ row \in [Job -> MaybeStatus]
        /\ announced \in [Job -> MaybeStatus]
        /\ ksaid \in [Kill -> MaybeStatus]
    BY DEF MaybeStatus
  <2>3. pc \in [Job -> CreateStage] /\ kpc \in [Kill -> KillStage]
    BY DEF CreateStage, KillStage
  <2> QED
    BY <2>1, <2>2, <2>3 DEF TypeOK
<1>2. \A j \in Job : JobInv(j)
  BY DEF JobInv, MemInv, RowInv, EndInv, AnnounceInv, Flushing, Finished,
     Unfinished
<1>3. \A k \in Kill : KillInv(k)
  BY DEF KillInv
<1>4. SlotInv
  <2>1. RunningRows \cup Accepted = {}
    BY DEF RunningRows, Accepted, InFlight
  <2> QED
    BY <2>1, FS_EmptySet, BoundAssumption DEF SlotInv
<1> QED
  BY <1>1, <1>2, <1>3, <1>4 DEF IInv, DownInv

-----------------------------------------------------------------------------
(* Slots: a step whose new holders were holders before, and one that admits. *)

\* The sets counted are finite, so their cardinalities are numbers.
LEMMA HoldersFinite ==
    /\ IsFiniteSet(RunningRows \cup Accepted)
    /\ IsFiniteSet(RunningRows)
BY JobAssumption, FS_Subset DEF RunningRows, Accepted

\* One element more adds at most one.
LEMMA OneMore ==
    ASSUME NEW S, IsFiniteSet(S), NEW x,
           NEW n \in Nat, Cardinality(S) < n
    PROVE  Cardinality(S \cup {x}) <= n
<1>1. Cardinality(S) \in Nat
  BY FS_CardinalityType
<1>2. CASE x \in S
  <2>1. S \cup {x} = S
    BY <1>2
  <2> QED
    BY <1>1, <2>1
<1>3. CASE x \notin S
  <2>1. Cardinality(S \cup {x}) = Cardinality(S) + 1
    BY <1>3, FS_AddElement
  <2> QED
    BY <1>1, <2>1
<1> QED
  BY <1>2, <1>3

\* A step that adds no holder keeps the slots bounded.
LEMMA SlotsShrink ==
    ASSUME SlotInv, raced' = raced,
           (RunningRows \cup Accepted)' \subseteq RunningRows \cup Accepted
    PROVE  SlotInv'
<1> DEFINE S == RunningRows \cup Accepted
<1> DEFINE T == (RunningRows \cup Accepted)'
<1>1. IsFiniteSet(S) /\ IsFiniteSet(T)
  BY HoldersFinite, FS_Subset
<1>2. Cardinality(T) <= Cardinality(S) /\ Cardinality(S) \in Nat
        /\ Cardinality(T) \in Nat
  BY <1>1, FS_Subset, FS_CardinalityType
<1>3. CASE raced
  BY <1>3 DEF SlotInv
<1>4. CASE ~raced
  <2> HIDE DEF S, T
  <2>1. Cardinality(S) <= MaxConcurrent
    BY <1>4 DEF SlotInv, S
  <2>2. Cardinality(T) <= MaxConcurrent
    BY <2>1, <1>2, BoundAssumption
  <2> QED
    BY <2>2 DEF SlotInv, T
<1> QED
  BY <1>3, <1>4

-----------------------------------------------------------------------------
(* create() and launch() *)

\* The limit check leaves room for one holder more, unless another create is past
\* it already, and then the step sets raced.
LEMMA CreateAcceptInv ==
    ASSUME IInv, NEW i \in Job, CreateAccept(i)
    PROVE  IInv'
<1> USE DEF IInv, CreateAccept
<1>1. TypeOK'
  BY DEF TypeOK, createVars, killVars, budget, CreateStage, InFlight
<1>2. ASSUME NEW j \in Job PROVE JobInv(j)'
  <2>1. JobInv(j) /\ TypeOK
    OBVIOUS
  <2> QED
    BY <2>1 DEF TypeOK, JobInv, MemInv, RowInv, EndInv, AnnounceInv, Flushing,
       createVars, killVars, budget
<1>3. ASSUME NEW k \in Kill PROVE KillInv(k)'
  BY DEF TypeOK, KillInv, Flushing, createVars, killVars
<1>4. SlotInv'
  <2>1. CASE raced'
    BY <2>1 DEF SlotInv
  <2>2. CASE ~raced'
    <3>1. (RunningRows \cup Accepted)' = RunningRows \cup {i}
      BY <2>2 DEF RunningRows, Accepted, InFlight, TypeOK
    <3>2. Cardinality(RunningRows) < MaxConcurrent
      BY DEF BelowLimit
    <3>3. Cardinality(RunningRows \cup {i}) <= MaxConcurrent
      BY <3>2, HoldersFinite, OneMore, BoundAssumption
    <3> QED
      BY <3>1, <3>3 DEF SlotInv
  <2> QED
    BY <2>1, <2>2
<1>5. DownInv'
  BY DEF DownInv
<1> QED
  BY <1>1, <1>2, <1>3, <1>4, <1>5

\* A refused create leaves no row and holds nothing.
LEMMA CreateRefuseInv ==
    ASSUME IInv, NEW i \in Job, CreateRefuse(i)
    PROVE  IInv'
<1> USE DEF IInv, CreateRefuse
<1>1. TypeOK'
  BY DEF TypeOK, createVars, killVars, budget, CreateStage, InFlight,
     KillStage, Ended, MaybeStatus, JobStatus, Unfinished, Finished
<1>2. ASSUME NEW j \in Job PROVE JobInv(j)'
  <2>1. JobInv(j) /\ TypeOK
    OBVIOUS
  <2> QED
    BY <2>1 DEF TypeOK, JobInv, MemInv, RowInv, EndInv, AnnounceInv, Flushing,
       createVars, killVars, budget, Ended, Unfinished, Finished
<1>3. ASSUME NEW k \in Kill PROVE KillInv(k)'
  <2>1. KillInv(k) /\ JobInv(kjob[k]) /\ kjob[k] \in Job
    BY DEF TypeOK
  <2> QED
    BY <2>1 DEF TypeOK, KillInv, JobInv, MemInv, RowInv, Flushing, createVars,
       killVars, budget, Unfinished, Finished
<1>4. SlotInv'
  <2>1. (RunningRows \cup Accepted)' \subseteq RunningRows \cup Accepted
    BY DEF TypeOK, RunningRows, Accepted, InFlight, createVars, Finished, JobInv, MemInv, Flushing
  <2> QED
    BY <2>1, SlotsShrink
<1>5. DownInv'
  BY DEF DownInv, createVars
<1> QED
  BY <1>1, <1>2, <1>3, <1>4, <1>5

\* The Pending row appears; the stage moves with it.
LEMMA InsertRowInv ==
    ASSUME IInv, NEW i \in Job, InsertRow(i)
    PROVE  IInv'
<1> USE DEF IInv, InsertRow
<1>1. TypeOK'
  BY DEF TypeOK, createVars, killVars, budget, CreateStage, InFlight,
     KillStage, Ended, MaybeStatus, JobStatus, Unfinished, Finished
<1>2. ASSUME NEW j \in Job PROVE JobInv(j)'
  <2>1. JobInv(j) /\ TypeOK
    OBVIOUS
  <2> QED
    BY <2>1 DEF TypeOK, JobInv, MemInv, RowInv, EndInv, AnnounceInv, Flushing,
       createVars, killVars, budget, Ended, Unfinished, Finished
<1>3. ASSUME NEW k \in Kill PROVE KillInv(k)'
  <2>1. KillInv(k) /\ JobInv(kjob[k]) /\ kjob[k] \in Job
    BY DEF TypeOK
  <2> QED
    BY <2>1 DEF TypeOK, KillInv, JobInv, MemInv, RowInv, Flushing, createVars,
       killVars, budget, Unfinished, Finished
<1>4. SlotInv'
  <2>1. (RunningRows \cup Accepted)' \subseteq RunningRows \cup Accepted
    BY DEF TypeOK, RunningRows, Accepted, InFlight, createVars, Finished, JobInv, MemInv, Flushing
  <2> QED
    BY <2>1, SlotsShrink
<1>5. DownInv'
  BY DEF DownInv, createVars
<1> QED
  BY <1>1, <1>2, <1>3, <1>4, <1>5

\* The object and the map entry appear together.
LEMMA LaunchInv ==
    ASSUME IInv, NEW i \in Job, Launch(i)
    PROVE  IInv'
<1> USE DEF IInv, Launch
<1>1. TypeOK'
  BY DEF TypeOK, createVars, killVars, budget, CreateStage, InFlight,
     KillStage, Ended, MaybeStatus, JobStatus, Unfinished, Finished
<1>2. ASSUME NEW j \in Job PROVE JobInv(j)'
  <2>1. JobInv(j) /\ TypeOK
    OBVIOUS
  <2> QED
    BY <2>1 DEF TypeOK, JobInv, MemInv, RowInv, EndInv, AnnounceInv, Flushing,
       createVars, killVars, budget, Ended, Unfinished, Finished
<1>3. ASSUME NEW k \in Kill PROVE KillInv(k)'
  <2>1. KillInv(k) /\ JobInv(kjob[k]) /\ kjob[k] \in Job
    BY DEF TypeOK
  <2> QED
    BY <2>1 DEF TypeOK, KillInv, JobInv, MemInv, RowInv, Flushing, createVars,
       killVars, budget, Unfinished, Finished
<1>4. SlotInv'
  <2>1. (RunningRows \cup Accepted)' \subseteq RunningRows \cup Accepted
    BY DEF TypeOK, RunningRows, Accepted, InFlight, createVars, Finished, JobInv, MemInv, Flushing
  <2> QED
    BY <2>1, SlotsShrink
<1>5. DownInv'
  BY DEF DownInv, createVars
<1> QED
  BY <1>1, <1>2, <1>3, <1>4, <1>5

\* The job turns from an accepted create into a Running row: the same holder.
LEMMA SaveRunningInv ==
    ASSUME IInv, NEW i \in Job, SaveRunning(i)
    PROVE  IInv'
<1> USE DEF IInv, SaveRunning
<1>1. TypeOK'
  BY DEF TypeOK, createVars, killVars, budget, CreateStage, InFlight,
     KillStage, Ended, MaybeStatus, JobStatus, Unfinished, Finished
<1>2. ASSUME NEW j \in Job PROVE JobInv(j)'
  <2>1. JobInv(j) /\ TypeOK
    OBVIOUS
  <2> QED
    BY <2>1 DEF TypeOK, JobInv, MemInv, RowInv, EndInv, AnnounceInv, Flushing,
       createVars, killVars, budget, Ended, Unfinished, Finished
<1>3. ASSUME NEW k \in Kill PROVE KillInv(k)'
  <2>1. KillInv(k) /\ JobInv(kjob[k]) /\ kjob[k] \in Job
    BY DEF TypeOK
  <2> QED
    BY <2>1 DEF TypeOK, KillInv, JobInv, MemInv, RowInv, Flushing, createVars,
       killVars, budget, Unfinished, Finished
<1>4. SlotInv'
  <2>1. (RunningRows \cup Accepted)' \subseteq RunningRows \cup Accepted
    BY DEF TypeOK, RunningRows, Accepted, InFlight, createVars, Finished, JobInv, MemInv, Flushing
  <2> QED
    BY <2>1, SlotsShrink
<1>5. DownInv'
  BY DEF DownInv, createVars
<1> QED
  BY <1>1, <1>2, <1>3, <1>4, <1>5

\* The row stays Pending, the object and the map entry stay.
LEMMA SaveRunningFailsInv ==
    ASSUME IInv, NEW i \in Job, SaveRunningFails(i)
    PROVE  IInv'
<1> USE DEF IInv, SaveRunningFails
<1>1. TypeOK'
  <2>1. faults' \in 0..MaxFaults
    BY BoundAssumption DEF TypeOK
  <2> QED
    BY <2>1 DEF TypeOK, createVars, killVars, CreateStage, InFlight, KillStage
<1>2. ASSUME NEW j \in Job PROVE JobInv(j)'
  <2>1. JobInv(j) /\ TypeOK
    OBVIOUS
  <2> QED
    BY <2>1 DEF TypeOK, JobInv, MemInv, RowInv, EndInv, AnnounceInv, Flushing,
       createVars, killVars, budget, Ended, Unfinished, Finished
<1>3. ASSUME NEW k \in Kill PROVE KillInv(k)'
  <2>1. KillInv(k) /\ JobInv(kjob[k]) /\ kjob[k] \in Job
    BY DEF TypeOK
  <2> QED
    BY <2>1 DEF TypeOK, KillInv, JobInv, MemInv, RowInv, Flushing, createVars,
       killVars, budget, Unfinished, Finished
<1>4. SlotInv'
  <2>1. (RunningRows \cup Accepted)' \subseteq RunningRows \cup Accepted
    BY DEF TypeOK, RunningRows, Accepted, InFlight, createVars, Finished, JobInv, MemInv, Flushing
  <2> QED
    BY <2>1, SlotsShrink
<1>5. DownInv'
  BY DEF DownInv, createVars
<1> QED
  BY <1>1, <1>2, <1>3, <1>4, <1>5

\* Listeners are attached at most once, while the object reads Running.
LEMMA AttachInv ==
    ASSUME IInv, NEW i \in Job, Attach(i)
    PROVE  IInv'
<1> USE DEF IInv, Attach
<1>1. TypeOK'
  BY DEF TypeOK, createVars, killVars, budget, CreateStage, InFlight,
     KillStage, Ended, MaybeStatus, JobStatus, Unfinished, Finished
<1>2. ASSUME NEW j \in Job PROVE JobInv(j)'
  <2>1. JobInv(j) /\ TypeOK
    OBVIOUS
  <2> QED
    BY <2>1 DEF TypeOK, JobInv, MemInv, RowInv, EndInv, AnnounceInv, Flushing,
       createVars, killVars, budget, Ended, Unfinished, Finished
<1>3. ASSUME NEW k \in Kill PROVE KillInv(k)'
  <2>1. KillInv(k) /\ JobInv(kjob[k]) /\ kjob[k] \in Job
    BY DEF TypeOK
  <2> QED
    BY <2>1 DEF TypeOK, KillInv, JobInv, MemInv, RowInv, Flushing, createVars,
       killVars, budget, Unfinished, Finished
<1>4. SlotInv'
  <2>1. (RunningRows \cup Accepted)' \subseteq RunningRows \cup Accepted
    BY DEF TypeOK, RunningRows, Accepted, InFlight, createVars, Finished, JobInv, MemInv, Flushing
  <2> QED
    BY <2>1, SlotsShrink
<1>5. DownInv'
  BY DEF DownInv, createVars
<1> QED
  BY <1>1, <1>2, <1>3, <1>4, <1>5

-----------------------------------------------------------------------------
(* The process and its events *)

\* A process that ends changes nothing the API holds.
LEMMA ExitInv ==
    ASSUME IInv, NEW i \in Job, Exit(i)
    PROVE  IInv'
<1> USE DEF IInv, Exit
<1>1. TypeOK'
  BY DEF TypeOK, createVars, killVars, budget, CreateStage, InFlight,
     KillStage, Ended, MaybeStatus, JobStatus, Unfinished, Finished
<1>2. ASSUME NEW j \in Job PROVE JobInv(j)'
  <2>1. JobInv(j) /\ TypeOK
    OBVIOUS
  <2> QED
    BY <2>1 DEF TypeOK, JobInv, MemInv, RowInv, EndInv, AnnounceInv, Flushing,
       createVars, killVars, budget, Ended, Unfinished, Finished
<1>3. ASSUME NEW k \in Kill PROVE KillInv(k)'
  <2>1. KillInv(k) /\ JobInv(kjob[k]) /\ kjob[k] \in Job
    BY DEF TypeOK
  <2> QED
    BY <2>1 DEF TypeOK, KillInv, JobInv, MemInv, RowInv, Flushing, createVars,
       killVars, budget, Unfinished, Finished
<1>4. SlotInv'
  <2>1. (RunningRows \cup Accepted)' \subseteq RunningRows \cup Accepted
    BY DEF TypeOK, RunningRows, Accepted, InFlight, createVars, Finished, JobInv, MemInv, Flushing
  <2> QED
    BY <2>1, SlotsShrink
<1>5. DownInv'
  BY DEF DownInv, createVars
<1> QED
  BY <1>1, <1>2, <1>3, <1>4, <1>5

\* A close without listeners leaves object, map and row as they are.
LEMMA CloseUnheardInv ==
    ASSUME IInv, NEW i \in Job, CloseUnheard(i)
    PROVE  IInv'
<1> USE DEF IInv, CloseUnheard
<1>1. TypeOK'
  BY DEF TypeOK, createVars, killVars, budget, CreateStage, InFlight,
     KillStage, Ended, MaybeStatus, JobStatus, Unfinished, Finished
<1>2. ASSUME NEW j \in Job PROVE JobInv(j)'
  <2>1. JobInv(j) /\ TypeOK
    OBVIOUS
  <2> QED
    BY <2>1 DEF TypeOK, JobInv, MemInv, RowInv, EndInv, AnnounceInv, Flushing,
       createVars, killVars, budget, Ended, Unfinished, Finished
<1>3. ASSUME NEW k \in Kill PROVE KillInv(k)'
  <2>1. KillInv(k) /\ JobInv(kjob[k]) /\ kjob[k] \in Job
    BY DEF TypeOK
  <2> QED
    BY <2>1 DEF TypeOK, KillInv, JobInv, MemInv, RowInv, Flushing, createVars,
       killVars, budget, Unfinished, Finished
<1>4. SlotInv'
  <2>1. (RunningRows \cup Accepted)' \subseteq RunningRows \cup Accepted
    BY DEF TypeOK, RunningRows, Accepted, InFlight, createVars, Finished, JobInv, MemInv, Flushing
  <2> QED
    BY <2>1, SlotsShrink
<1>5. DownInv'
  BY DEF DownInv, createVars
<1> QED
  BY <1>1, <1>2, <1>3, <1>4, <1>5

\* The close handler finishes the object, leaves the map and issues the save.
LEMMA CloseInv ==
    ASSUME IInv, NEW i \in Job, Close(i)
    PROVE  IInv'
<1> USE DEF IInv, Close, Outcome
<1>1. TypeOK'
  BY DEF TypeOK, createVars, killVars, budget, CreateStage, InFlight,
     KillStage, Ended, MaybeStatus, JobStatus, Unfinished, Finished
<1>2. ASSUME NEW j \in Job PROVE JobInv(j)'
  <2>1. JobInv(j) /\ JobInv(i) /\ TypeOK
    OBVIOUS
  <2>2. MemInv(j)'
    BY <2>1 DEF TypeOK, JobInv, MemInv, EndInv, Flushing, Ended, Finished
  <2>3. RowInv(j)'
    BY <2>1 DEF TypeOK, JobInv, MemInv, RowInv, Flushing, Ended, Unfinished,
       Finished
  <2>4. EndInv(j)'
    BY <2>1 DEF TypeOK, JobInv, MemInv, RowInv, EndInv, Flushing, Ended, Finished
  <2>5. AnnounceInv(j)'
    <3>1. CASE j = i
      <4>1. pc[i] = "attached"
        BY <2>1 DEF TypeOK, JobInv, MemInv, CreateStage, InFlight
      <4>2. mem'[i] = Outcome(os[i]) /\ announced'[i] = Outcome(os[i])
        BY DEF TypeOK, Finished
      <4> QED
        BY <3>1, <4>1, <4>2 DEF AnnounceInv
    <3>2. CASE j # i
      <4>1. mem'[j] = mem[j] /\ announced'[j] = announced[j]
        BY <3>2 DEF TypeOK
      <4>2. <<j, "error">> \in flush' <=> <<j, "error">> \in flush
        OBVIOUS
      <4> QED
        BY <2>1, <4>1, <4>2 DEF JobInv, AnnounceInv
    <3> QED
      BY <3>1, <3>2
  <2> QED
    BY <2>2, <2>3, <2>4, <2>5 DEF JobInv
<1>3. ASSUME NEW k \in Kill PROVE KillInv(k)'
  <2>1. KillInv(k) /\ JobInv(kjob[k]) /\ kjob[k] \in Job
    BY DEF TypeOK
  <2> QED
    BY <2>1 DEF TypeOK, KillInv, JobInv, MemInv, RowInv, Flushing, createVars,
       killVars, budget, Unfinished, Finished
<1>4. SlotInv'
  <2>1. (RunningRows \cup Accepted)' \subseteq RunningRows \cup Accepted
    BY DEF TypeOK, RunningRows, Accepted, InFlight, createVars, Finished, JobInv, MemInv, Flushing
  <2> QED
    BY <2>1, SlotsShrink
<1>5. DownInv'
  BY DEF DownInv, createVars
<1> QED
  BY <1>1, <1>2, <1>3, <1>4, <1>5

\* The error handler does the same, and will announce after its save.
LEMMA SpawnErrorInv ==
    ASSUME IInv, NEW i \in Job, SpawnError(i)
    PROVE  IInv'
<1> USE DEF IInv, SpawnError
<1>1. TypeOK'
  BY DEF TypeOK, createVars, killVars, budget, CreateStage, InFlight,
     KillStage, Ended, MaybeStatus, JobStatus, Unfinished, Finished
<1>2. ASSUME NEW j \in Job PROVE JobInv(j)'
  <2>1. JobInv(j) /\ TypeOK
    OBVIOUS
  <2> QED
    BY <2>1 DEF TypeOK, JobInv, MemInv, RowInv, EndInv, AnnounceInv, Flushing,
       createVars, killVars, budget, Ended, Unfinished, Finished
<1>3. ASSUME NEW k \in Kill PROVE KillInv(k)'
  <2>1. KillInv(k) /\ JobInv(kjob[k]) /\ kjob[k] \in Job
    BY DEF TypeOK
  <2> QED
    BY <2>1 DEF TypeOK, KillInv, JobInv, MemInv, RowInv, Flushing, createVars,
       killVars, budget, Unfinished, Finished
<1>4. SlotInv'
  <2>1. (RunningRows \cup Accepted)' \subseteq RunningRows \cup Accepted
    BY DEF TypeOK, RunningRows, Accepted, InFlight, createVars, Finished, JobInv, MemInv, Flushing
  <2> QED
    BY <2>1, SlotsShrink
<1>5. DownInv'
  BY DEF DownInv, createVars
<1> QED
  BY <1>1, <1>2, <1>3, <1>4, <1>5

\* The final save brings the row to the object: no save of a kill is behind it.
LEMMA FlushSavedInv ==
    ASSUME IInv, NEW i \in Job, NEW w \in {"close", "error"}, FlushSaved(i, w)
    PROVE  IInv'
<1> USE DEF IInv, FlushSaved
<1>1. TypeOK'
  BY DEF TypeOK, createVars, killVars, budget, CreateStage, InFlight,
     KillStage, Ended, MaybeStatus, JobStatus, Unfinished, Finished
<1>2. ASSUME NEW j \in Job PROVE JobInv(j)'
  <2>1. JobInv(j) /\ JobInv(i) /\ TypeOK
    OBVIOUS
  <2>2. MemInv(j)'
    BY <2>1 DEF TypeOK, JobInv, MemInv, EndInv, Flushing, Ended, Finished
  <2>3. RowInv(j)'
    BY <2>1 DEF TypeOK, JobInv, MemInv, RowInv, Flushing, Ended, Unfinished,
       Finished
  <2>4. EndInv(j)'
    BY <2>1 DEF TypeOK, JobInv, MemInv, RowInv, EndInv, Flushing, Ended, Finished
  <2>5. AnnounceInv(j)'
    <3>1. CASE j = i /\ w = "error"
      <4>1. mem[i] = "failed" /\ pc[i] \in {"attached", "lost"}
        BY <2>1, <3>1 DEF TypeOK, JobInv, MemInv, Finished, CreateStage, InFlight
      <4>2. announced'[i] = "failed"
        BY <3>1 DEF TypeOK
      <4> QED
        BY <3>1, <4>1, <4>2 DEF AnnounceInv
    <3>2. CASE ~(j = i /\ w = "error")
      <4>1. announced'[j] = announced[j]
        BY <3>2 DEF TypeOK
      <4>2. <<j, "error">> \in flush' <=> <<j, "error">> \in flush
        BY <3>2
      <4> QED
        BY <2>1, <4>1, <4>2 DEF JobInv, AnnounceInv
    <3> QED
      BY <3>1, <3>2
  <2> QED
    BY <2>2, <2>3, <2>4, <2>5 DEF JobInv
<1>3. ASSUME NEW k \in Kill PROVE KillInv(k)'
  <2>1. KillInv(k) /\ JobInv(kjob[k]) /\ kjob[k] \in Job
    BY DEF TypeOK
  <2> QED
    BY <2>1 DEF TypeOK, KillInv, JobInv, MemInv, RowInv, Flushing, createVars,
       killVars, budget, Unfinished, Finished
<1>4. SlotInv'
  <2>1. (RunningRows \cup Accepted)' \subseteq RunningRows \cup Accepted
    BY DEF TypeOK, RunningRows, Accepted, InFlight, createVars, Finished, JobInv, MemInv, Flushing
  <2> QED
    BY <2>1, SlotsShrink
<1>5. DownInv'
  BY DEF DownInv, createVars
<1> QED
  BY <1>1, <1>2, <1>3, <1>4, <1>5

-----------------------------------------------------------------------------
(* kill() *)

\* A kill found Running, so launch() had saved it and had not finished it.
LEMMA KillLookupInv ==
    ASSUME IInv, NEW m \in Kill, KillLookup(m)
    PROVE  IInv'
<1> USE DEF IInv, KillLookup
<1>1. TypeOK'
  BY DEF TypeOK, createVars, killVars, budget, CreateStage, InFlight,
     KillStage, Ended, MaybeStatus, JobStatus, Unfinished, Finished
<1>2. ASSUME NEW j \in Job PROVE JobInv(j)'
  <2>1. JobInv(j) /\ TypeOK
    OBVIOUS
  <2> QED
    BY <2>1 DEF TypeOK, JobInv, MemInv, RowInv, EndInv, AnnounceInv, Flushing,
       createVars, killVars, budget, Ended, Unfinished, Finished
<1>3. ASSUME NEW k \in Kill PROVE KillInv(k)'
  <2>1. KillInv(k) /\ JobInv(kjob[k]) /\ kjob[k] \in Job
    BY DEF TypeOK
  <2> QED
    BY <2>1 DEF TypeOK, KillInv, JobInv, MemInv, RowInv, Flushing, createVars,
       killVars, budget, Unfinished, Finished, CreateStage, InFlight
<1>4. SlotInv'
  <2>1. (RunningRows \cup Accepted)' \subseteq RunningRows \cup Accepted
    BY DEF TypeOK, RunningRows, Accepted, InFlight, createVars, Finished, JobInv, MemInv, Flushing
  <2> QED
    BY <2>1, SlotsShrink
<1>5. DownInv'
  BY DEF DownInv, createVars
<1> QED
  BY <1>1, <1>2, <1>3, <1>4, <1>5

\* The map entry says that the object still reads Running.
LEMMA KillSignalInv ==
    ASSUME IInv, NEW m \in Kill, KillSignal(m)
    PROVE  IInv'
<1> USE DEF IInv, KillSignal, HasProcess
<1>1. TypeOK'
  BY DEF TypeOK, createVars, killVars, budget, CreateStage, InFlight,
     KillStage, Ended, MaybeStatus, JobStatus, Unfinished, Finished
<1>2. ASSUME NEW j \in Job PROVE JobInv(j)'
  <2>1. JobInv(j) /\ TypeOK
    OBVIOUS
  <2> QED
    BY <2>1 DEF TypeOK, JobInv, MemInv, RowInv, EndInv, AnnounceInv, Flushing,
       createVars, killVars, budget, Ended, Unfinished, Finished
<1>3. ASSUME NEW k \in Kill PROVE KillInv(k)'
  <2>1. KillInv(k) /\ JobInv(kjob[k]) /\ kjob[k] \in Job
    BY DEF TypeOK
  <2> QED
    BY <2>1 DEF TypeOK, KillInv, JobInv, MemInv, RowInv, Flushing, createVars,
       killVars, budget, Unfinished, Finished
<1>4. SlotInv'
  <2>1. (RunningRows \cup Accepted)' \subseteq RunningRows \cup Accepted
    BY DEF TypeOK, RunningRows, Accepted, InFlight, createVars, Finished, JobInv, MemInv, Flushing
  <2> QED
    BY <2>1, SlotsShrink
<1>5. DownInv'
  BY DEF DownInv, createVars
<1> QED
  BY <1>1, <1>2, <1>3, <1>4, <1>5

\* A miss changes nothing but the request.
LEMMA KillMissInv ==
    ASSUME IInv, NEW m \in Kill, KillMiss(m)
    PROVE  IInv'
<1> USE DEF IInv, KillMiss, HasProcess
<1>1. TypeOK'
  BY DEF TypeOK, createVars, killVars, budget, CreateStage, InFlight,
     KillStage, Ended, MaybeStatus, JobStatus, Unfinished, Finished
<1>2. ASSUME NEW j \in Job PROVE JobInv(j)'
  <2>1. JobInv(j) /\ TypeOK
    OBVIOUS
  <2> QED
    BY <2>1 DEF TypeOK, JobInv, MemInv, RowInv, EndInv, AnnounceInv, Flushing,
       createVars, killVars, budget, Ended, Unfinished, Finished
<1>3. ASSUME NEW k \in Kill PROVE KillInv(k)'
  <2>1. KillInv(k) /\ JobInv(kjob[k]) /\ kjob[k] \in Job
    BY DEF TypeOK
  <2> QED
    BY <2>1 DEF TypeOK, KillInv, JobInv, MemInv, RowInv, Flushing, createVars,
       killVars, budget, Unfinished, Finished
<1>4. SlotInv'
  <2>1. (RunningRows \cup Accepted)' \subseteq RunningRows \cup Accepted
    BY DEF TypeOK, RunningRows, Accepted, InFlight, createVars, Finished, JobInv, MemInv, Flushing
  <2> QED
    BY <2>1, SlotsShrink
<1>5. DownInv'
  BY DEF DownInv, createVars
<1> QED
  BY <1>1, <1>2, <1>3, <1>4, <1>5

\* Killed reaches a row whose final save, if issued, is behind it.
LEMMA KillSavedInv ==
    ASSUME IInv, NEW m \in Kill, KillSaved(m)
    PROVE  IInv'
<1> USE DEF IInv, KillSaved
<1>1. TypeOK'
  BY DEF TypeOK, createVars, killVars, budget, CreateStage, InFlight,
     KillStage, Ended, MaybeStatus, JobStatus, Unfinished, Finished
<1>2. ASSUME NEW j \in Job PROVE JobInv(j)'
  <2>1. JobInv(j) /\ KillInv(m) /\ TypeOK
    OBVIOUS
  <2> QED
    BY <2>1 DEF TypeOK, JobInv, MemInv, RowInv, EndInv, AnnounceInv, KillInv,
       Flushing, createVars, killVars, budget, Ended, Unfinished, Finished
<1>3. ASSUME NEW k \in Kill PROVE KillInv(k)'
  <2>1. KillInv(k) /\ JobInv(kjob[k]) /\ kjob[k] \in Job
    BY DEF TypeOK
  <2> QED
    BY <2>1 DEF TypeOK, KillInv, JobInv, MemInv, RowInv, Flushing, createVars,
       killVars, budget, Unfinished, Finished
<1>4. SlotInv'
  <2>1. (RunningRows \cup Accepted)' \subseteq RunningRows \cup Accepted
    BY DEF TypeOK, RunningRows, Accepted, InFlight, createVars, Finished, JobInv, MemInv, Flushing
  <2> QED
    BY <2>1, SlotsShrink
<1>5. DownInv'
  BY DEF DownInv, createVars
<1> QED
  BY <1>1, <1>2, <1>3, <1>4, <1>5

\* The request ends without having delivered.
LEMMA KillSaveFailsInv ==
    ASSUME IInv, NEW m \in Kill, KillSaveFails(m)
    PROVE  IInv'
<1> USE DEF IInv, KillSaveFails
<1>1. TypeOK'
  <2>1. faults' \in 0..MaxFaults
    BY BoundAssumption DEF TypeOK
  <2> QED
    BY <2>1 DEF TypeOK, createVars, killVars, CreateStage, InFlight, KillStage
<1>2. ASSUME NEW j \in Job PROVE JobInv(j)'
  <2>1. JobInv(j) /\ TypeOK
    OBVIOUS
  <2> QED
    BY <2>1 DEF TypeOK, JobInv, MemInv, RowInv, EndInv, AnnounceInv, Flushing,
       createVars, killVars, budget, Ended, Unfinished, Finished
<1>3. ASSUME NEW k \in Kill PROVE KillInv(k)'
  <2>1. KillInv(k) /\ JobInv(kjob[k]) /\ kjob[k] \in Job
    BY DEF TypeOK
  <2> QED
    BY <2>1 DEF TypeOK, KillInv, JobInv, MemInv, RowInv, Flushing, createVars,
       killVars, budget, Unfinished, Finished
<1>4. SlotInv'
  <2>1. (RunningRows \cup Accepted)' \subseteq RunningRows \cup Accepted
    BY DEF TypeOK, RunningRows, Accepted, InFlight, createVars, Finished, JobInv, MemInv, Flushing
  <2> QED
    BY <2>1, SlotsShrink
<1>5. DownInv'
  BY DEF DownInv, createVars
<1> QED
  BY <1>1, <1>2, <1>3, <1>4, <1>5

\* SIGKILL reaches only a process that is in the map.
LEMMA KillTimerInv ==
    ASSUME IInv, NEW m \in Kill, KillTimer(m)
    PROVE  IInv'
<1> USE DEF IInv, KillTimer
<1>1. TypeOK'
  BY DEF TypeOK, createVars, killVars, budget, CreateStage, InFlight,
     KillStage, Ended, MaybeStatus, JobStatus, Unfinished, Finished
<1>2. ASSUME NEW j \in Job PROVE JobInv(j)'
  <2>1. JobInv(j) /\ TypeOK
    OBVIOUS
  <2> QED
    BY <2>1 DEF TypeOK, JobInv, MemInv, RowInv, EndInv, AnnounceInv, Flushing,
       createVars, killVars, budget, Ended, Unfinished, Finished
<1>3. ASSUME NEW k \in Kill PROVE KillInv(k)'
  <2>1. KillInv(k) /\ JobInv(kjob[k]) /\ kjob[k] \in Job
    BY DEF TypeOK
  <2> QED
    BY <2>1 DEF TypeOK, KillInv, JobInv, MemInv, RowInv, Flushing, createVars,
       killVars, budget, Unfinished, Finished
<1>4. SlotInv'
  <2>1. (RunningRows \cup Accepted)' \subseteq RunningRows \cup Accepted
    BY DEF TypeOK, RunningRows, Accepted, InFlight, createVars, Finished, JobInv, MemInv, Flushing
  <2> QED
    BY <2>1, SlotsShrink
<1>5. DownInv'
  BY DEF DownInv, createVars
<1> QED
  BY <1>1, <1>2, <1>3, <1>4, <1>5

\* The status answered is past Running if the signal was delivered.
LEMMA KillAnswerInv ==
    ASSUME IInv, NEW m \in Kill, KillAnswer(m)
    PROVE  IInv'
<1> USE DEF IInv, KillAnswer
<1>1. TypeOK'
  BY DEF TypeOK, createVars, killVars, budget, CreateStage, InFlight,
     KillStage, Ended, MaybeStatus, JobStatus, Unfinished, Finished
<1>2. ASSUME NEW j \in Job PROVE JobInv(j)'
  <2>1. JobInv(j) /\ TypeOK
    OBVIOUS
  <2> QED
    BY <2>1 DEF TypeOK, JobInv, MemInv, RowInv, EndInv, AnnounceInv, Flushing,
       createVars, killVars, budget, Ended, Unfinished, Finished
<1>3. ASSUME NEW k \in Kill PROVE KillInv(k)'
  <2>1. KillInv(k) /\ JobInv(kjob[k]) /\ kjob[k] \in Job
    BY DEF TypeOK
  <2> QED
    BY <2>1 DEF TypeOK, KillInv, JobInv, MemInv, RowInv, Flushing, createVars,
       killVars, budget, Unfinished, Finished
<1>4. SlotInv'
  <2>1. (RunningRows \cup Accepted)' \subseteq RunningRows \cup Accepted
    BY DEF TypeOK, RunningRows, Accepted, InFlight, createVars, Finished, JobInv, MemInv, Flushing
  <2> QED
    BY <2>1, SlotsShrink
<1>5. DownInv'
  BY DEF DownInv, createVars
<1> QED
  BY <1>1, <1>2, <1>3, <1>4, <1>5

-----------------------------------------------------------------------------
(* The API dies and comes back *)

\* The restart finishes the rows of lost jobs, and only those can be unfinished.
LEMMA RestartInv ==
    ASSUME IInv, Restart
    PROVE  IInv'
<1> USE DEF IInv, Restart
<1>1. TypeOK'
  BY DEF TypeOK, createVars, killVars, budget, CreateStage, InFlight,
     KillStage, Ended, MaybeStatus, JobStatus, Unfinished, Finished
<1>2. ASSUME NEW j \in Job PROVE JobInv(j)'
  <2>1. JobInv(j) /\ TypeOK /\ pc[j] \in {"idle", "refused", "lost"}
    BY DEF DownInv
  <2>2. row'[j] = IF row[j] \in Unfinished THEN "failed" ELSE row[j]
    OBVIOUS
  <2> QED
    BY <2>1, <2>2 DEF TypeOK, JobInv, MemInv, RowInv, EndInv, AnnounceInv,
       Flushing, createVars, Ended, Unfinished, Finished
<1>3. ASSUME NEW k \in Kill PROVE KillInv(k)'
  <2>1. KillInv(k) /\ kjob[k] \in Job /\ pc[kjob[k]] \in {"idle", "refused", "lost"}
    BY DEF TypeOK, DownInv
  <2>2. row'[kjob[k]] = IF row[kjob[k]] \in Unfinished THEN "failed"
                                                       ELSE row[kjob[k]]
    BY <2>1
  <2> QED
    BY <2>1, <2>2 DEF KillInv, createVars, killVars, Unfinished, Finished
<1>4. SlotInv'
  <2>1. (RunningRows \cup Accepted)' \subseteq RunningRows \cup Accepted
    BY DEF TypeOK, RunningRows, Accepted, InFlight, createVars, Finished, JobInv, MemInv, Flushing
  <2> QED
    BY <2>1, SlotsShrink
<1>5. DownInv'
  BY DEF DownInv, createVars
<1> QED
  BY <1>1, <1>2, <1>3, <1>4, <1>5

\* Whatever kills the API, nothing it held remains.
LEMMA ApiDiesInv ==
    ASSUME IInv, ApiDies, crashes' \in 0..MaxCrashes, faults' \in 0..MaxFaults
    PROVE  IInv'
<1> USE DEF IInv, ApiDies
<1>1. TypeOK'
  BY DEF TypeOK, CreateStage, KillStage, Ended
<1>2. ASSUME NEW j \in Job PROVE JobInv(j)'
  <2>1. JobInv(j) /\ TypeOK
    OBVIOUS
  <2>2. os'[j] = os[j] \/ (os[j] = "alive" /\ os'[j] = "signal")
    BY DEF TypeOK
  <2>3. MemInv(j)'
    BY DEF TypeOK, MemInv, Flushing, Finished
  <2>4. RowInv(j)'
    BY <2>1 DEF TypeOK, JobInv, RowInv, CreateStage, InFlight
  <2>5. EndInv(j)'
    BY <2>1, <2>2 DEF JobInv, EndInv, Finished
  <2>6. AnnounceInv(j)'
    BY <2>1 DEF TypeOK, JobInv, MemInv, AnnounceInv, Finished, CreateStage, InFlight
  <2> QED
    BY <2>3, <2>4, <2>5, <2>6 DEF JobInv
<1>3. ASSUME NEW k \in Kill PROVE KillInv(k)'
  BY DEF TypeOK, KillInv
<1>4. SlotInv'
  <2>1. (RunningRows \cup Accepted)' \subseteq RunningRows \cup Accepted
    BY DEF TypeOK, RunningRows, Accepted, InFlight
  <2> QED
    BY <2>1, SlotsShrink
<1>5. DownInv'
  BY DEF DownInv
<1> QED
  BY <1>1, <1>2, <1>3, <1>4, <1>5

\* The three ways the API dies differ in the bounds they count.
LEMMA CrashInv == ASSUME IInv, Crash PROVE IInv'
<1>1. crashes' \in 0..MaxCrashes /\ faults' \in 0..MaxFaults
  BY BoundAssumption DEF IInv, TypeOK, Crash
<1> QED
  BY <1>1, ApiDiesInv DEF Crash

\* No listener, no budget used.
LEMMA SpawnErrorUnheardInv ==
    ASSUME IInv, NEW i \in Job, SpawnErrorUnheard(i) PROVE IInv'
<1>1. crashes' \in 0..MaxCrashes /\ faults' \in 0..MaxFaults
  BY DEF IInv, TypeOK, SpawnErrorUnheard, budget
<1> QED
  BY <1>1, ApiDiesInv DEF SpawnErrorUnheard

\* One fault more.
LEMMA FlushFailsInv ==
    ASSUME IInv, NEW i \in Job, NEW w \in {"close", "error"}, FlushFails(i, w)
    PROVE  IInv'
<1>1. crashes' \in 0..MaxCrashes /\ faults' \in 0..MaxFaults
  BY BoundAssumption DEF IInv, TypeOK, FlushFails
<1> QED
  BY <1>1, ApiDiesInv DEF FlushFails

-----------------------------------------------------------------------------
\* A stuttering step.
LEMMA StutterInv == ASSUME IInv, UNCHANGED vars PROVE IInv'
<1> USE DEF IInv, vars, createVars, killVars, budget
<1>1. TypeOK'
  BY DEF TypeOK
<1>2. \A j \in Job : JobInv(j)'
  <2> SUFFICES ASSUME NEW j \in Job PROVE JobInv(j)'
    OBVIOUS
  <2>1. JobInv(j)
    OBVIOUS
  <2>2. MemInv(j)'
    BY <2>1 DEF JobInv, MemInv, Flushing
  <2>3. RowInv(j)'
    BY <2>1 DEF JobInv, RowInv, Flushing
  <2>4. EndInv(j)'
    BY <2>1 DEF JobInv, EndInv
  <2>5. AnnounceInv(j)'
    BY <2>1 DEF JobInv, AnnounceInv
  <2> QED
    BY <2>2, <2>3, <2>4, <2>5 DEF JobInv
<1>3. \A k \in Kill : KillInv(k)'
  BY DEF KillInv, Flushing
<1>4. SlotInv'
  <2>1. (RunningRows \cup Accepted)' \subseteq RunningRows \cup Accepted
    BY DEF RunningRows, Accepted
  <2> QED
    BY <2>1, SlotsShrink
<1> QED
  BY <1>1, <1>2, <1>3, <1>4 DEF DownInv

\* Every step preserves IInv: one lemma for each action.
LEMMA NextIInv == ASSUME IInv, [Next]_vars PROVE IInv'
<1>1. ASSUME NEW j \in Job, CreateStep(j) PROVE IInv'
  BY <1>1, CreateAcceptInv, CreateRefuseInv, InsertRowInv, LaunchInv,
     SaveRunningInv, SaveRunningFailsInv, AttachInv DEF CreateStep
<1>2. ASSUME NEW j \in Job, ProcessStep(j) PROVE IInv'
  BY <1>2, ExitInv, CloseUnheardInv, CloseInv, SpawnErrorInv,
     SpawnErrorUnheardInv, FlushSavedInv, FlushFailsInv DEF ProcessStep
<1>3. ASSUME NEW k \in Kill, KillStep(k) PROVE IInv'
  BY <1>3, KillLookupInv, KillSignalInv, KillMissInv, KillSavedInv,
     KillSaveFailsInv, KillTimerInv, KillAnswerInv DEF KillStep
<1> QED
  BY <1>1, <1>2, <1>3, CrashInv, RestartInv, StutterInv DEF Next
-----------------------------------------------------------------------------
(* The theorems: the invariant, and what follows from it *)

\* In every reachable state the stage, the object of launch(), the map, the
\* process and the row of a job fit together as IInv says.
THEOREM Invariance == Spec => []IInv
<1>1. Init => IInv
  BY InitIInv
<1>2. IInv /\ [Next]_vars => IInv'
  BY NextIInv
<1> QED
  BY <1>1, <1>2, PTL DEF Spec

\* Every variable keeps to its domain; in particular the object launch() holds
\* never reads Killed, which is what the guard of the close handler asks for.
THEOREM TypeCorrect == Spec => []TypeOK
<1>1. IInv => TypeOK
  BY DEF IInv
<1> QED
  BY <1>1, Invariance, PTL

\* Without two creates between the limit check and their Running row, the
\* Running rows respect the limit, for any number of jobs and any limit.
THEOREM SlotsAreBounded == Spec => []SlotsBounded
<1>1. IInv => SlotsBounded
  <2> SUFFICES ASSUME IInv, ~raced
               PROVE  Cardinality(RunningRows) <= MaxConcurrent
    BY DEF SlotsBounded
  <2> DEFINE Held == RunningRows \cup Accepted
  <2>1. Cardinality(Held) <= MaxConcurrent
    BY DEF IInv, SlotInv
  <2>2. IsFiniteSet(Held) /\ IsFiniteSet(RunningRows)
    BY HoldersFinite
  <2>3. Cardinality(RunningRows) <= Cardinality(Held)
    BY <2>2, FS_Subset
  <2>4. Cardinality(RunningRows) \in Nat /\ Cardinality(Held) \in Nat
    BY <2>2, FS_CardinalityType
  <2> QED
    BY <2>1, <2>3, <2>4, BoundAssumption
<1> QED
  BY <1>1, Invariance, PTL

\* A row that reads Done is of a process group that exited with code 0.
THEOREM DoneIsClean == Spec => []DoneMeansExitedCleanly
<1>1. IInv => DoneMeansExitedCleanly
  BY DEF IInv, JobInv, EndInv, DoneMeansExitedCleanly
<1> QED
  BY <1>1, Invariance, PTL

\* The close handler never finishes a row whose process group still runs; only
\* a restart of the API beside a surviving group does.
THEOREM FinishIsTrue == Spec => []NoFalseFinish
<1>1. IInv => NoFalseFinish
  <2> SUFFICES ASSUME IInv, NEW j \in Job, row[j] \in Finished, os[j] = "alive"
               PROVE  pc[j] = "lost"
    BY DEF NoFalseFinish
  <2>1. pc[j] \in CreateStage
    BY DEF IInv, TypeOK
  <2>2. mem[j] \notin Finished
    BY DEF IInv, JobInv, EndInv, Ended
  <2>3. RowInv(j)
    BY DEF IInv, JobInv
  <2> QED
    BY <2>1, <2>2, <2>3 DEF RowInv, CreateStage, InFlight, Finished
<1> QED
  BY <1>1, Invariance, PTL

\* What a finished row says of its process group is true, in any number of jobs,
\* kills and crashes.
THEOREM EndsTrue == Spec => []EndsAreTrue
BY DoneIsClean, FinishIsTrue, PTL DEF EndsAreTrue

\* While the API is up a Running row has an entry in the map or a final save
\* on the way.
THEOREM RunningHeld == Spec => []RunningIsHeld
<1>1. IInv => RunningIsHeld
  <2> SUFFICES ASSUME IInv, api = "up", NEW j \in Job, row[j] = "running"
               PROVE  j \in procs \/ Flushing(j)
    BY DEF RunningIsHeld, Flushing
  <2>1. MemInv(j) /\ RowInv(j) /\ TypeOK
    BY DEF IInv, JobInv
  <2>2. pc[j] \in {"saved", "attached"}
    BY <2>1 DEF TypeOK, RowInv, CreateStage, InFlight, Unfinished
  <2>3. mem[j] = "running" \/ (mem[j] \in Finished /\ pc[j] = "attached")
    BY <2>1, <2>2 DEF TypeOK, MemInv
  <2> QED
    BY <2>1, <2>3 DEF MemInv, RowInv, Finished
<1> QED
  BY <1>1, Invariance, PTL

\* A delivered kill never answers Pending or Running.
THEOREM KillAnswers == Spec => []KillAnswersSettled
<1>1. IInv => KillAnswersSettled
  BY DEF IInv, KillInv, KillAnswersSettled
<1> QED
  BY <1>1, Invariance, PTL

\* After its final save the row of a job, the object launch() holds and the
\* last event the clients got agree.
THEOREM FinalStatesAgree == Spec => []FinalAgreement
<1>1. IInv => FinalAgreement
  <2> SUFFICES ASSUME IInv, NEW j \in Job, mem[j] \in Finished,
                      \A w \in {"close", "error"} : <<j, w>> \notin flush
               PROVE  row[j] = mem[j] /\ announced[j] = mem[j]
    BY DEF FinalAgreement
  <2>1. MemInv(j) /\ RowInv(j) /\ AnnounceInv(j) /\ pc[j] \in CreateStage
    BY DEF IInv, JobInv, TypeOK
  <2>2. pc[j] = "attached"
    BY <2>1 DEF MemInv, CreateStage, InFlight, Finished
  <2> QED
    BY <2>1, <2>2 DEF RowInv, AnnounceInv, Flushing
<1> QED
  BY <1>1, Invariance, PTL

-----------------------------------------------------------------------------
(* Steps *)

\* Done or Failed is the last event of a job.  The actions that announce are
\* Attach (its object still reads Running), the two handlers (they run once)
\* and KillSignal (it found the job in the map, so its object reads Running).
THEOREM LastWord == Spec => FinalWord
<1>1. ASSUME IInv, [Next]_vars, NEW j \in Job, announced[j] \in Finished
      PROVE  announced'[j] = announced[j]
  <2>1. TypeOK /\ MemInv(j) /\ AnnounceInv(j) /\ EndInv(j)
    BY <1>1 DEF IInv, JobInv
  <2>2. pc[j] = "lost" \/ (pc[j] = "attached" /\ mem[j] \in Finished)
    BY <1>1, <2>1 DEF AnnounceInv
  <2>3. mem[j] # "running"
    BY <2>1, <2>2 DEF MemInv, Finished
  <2>4. ASSUME NEW i \in Job, CreateStep(i) PROVE announced'[j] = announced[j]
    <3>1. CASE Attach(i)
      BY <2>1, <2>2, <3>1 DEF Attach, TypeOK
    <3> QED
      BY <2>4, <3>1 DEF CreateStep, CreateAccept, CreateRefuse, InsertRow,
         Launch, SaveRunning, SaveRunningFails
  <2>5. ASSUME NEW i \in Job, Close(i) PROVE announced'[j] = announced[j]
    <3>1. CASE i = j
      <4>1. mem[j] = "failed" /\ os[j] = "nonzero"
        BY <2>1, <2>2, <2>5, <3>1 DEF Close, MemInv
      <4>2. announced[j] = "failed"
        BY <1>1, <2>1, <4>1, <2>5, <3>1 DEF AnnounceInv, MemInv, Close
      <4> QED
        BY <2>1, <2>5, <3>1, <4>1, <4>2 DEF Close, Outcome, TypeOK
    <3>2. CASE i # j
      BY <2>1, <2>5, <3>2 DEF Close, TypeOK
    <3> QED
      BY <3>1, <3>2
  <2>6. ASSUME NEW i \in Job, NEW w \in {"close", "error"}, FlushSaved(i, w)
        PROVE  announced'[j] = announced[j]
    <3>1. CASE i = j /\ w = "error"
      <4>1. mem[j] = "failed" /\ announced[j] = "failed"
        BY <1>1, <2>1, <2>6, <3>1 DEF FlushSaved, MemInv, AnnounceInv
      <4> QED
        BY <2>1, <2>6, <3>1, <4>1 DEF FlushSaved, TypeOK
    <3> QED
      BY <2>1, <2>6, <3>1 DEF FlushSaved, TypeOK
  <2>7. ASSUME NEW k \in Kill, KillSignal(k) PROVE announced'[j] = announced[j]
    <3>1. kjob[k] \in procs /\ kjob[k] # j
      BY <2>1, <2>3, <2>7 DEF KillSignal, HasProcess, MemInv
    <3> QED
      BY <2>1, <2>7, <3>1 DEF KillSignal, TypeOK
  <2>8. ASSUME NEW i \in Job, ProcessStep(i) PROVE announced'[j] = announced[j]
    BY <2>5, <2>6, <2>8 DEF ProcessStep, Exit, CloseUnheard, SpawnError,
       SpawnErrorUnheard, FlushFails, ApiDies
  <2>9. ASSUME NEW k \in Kill, KillStep(k) PROVE announced'[j] = announced[j]
    BY <2>7, <2>9 DEF KillStep, KillLookup, KillMiss, KillSaved, KillSaveFails,
       KillTimer, KillAnswer
  <2> QED
    BY <1>1, <2>4, <2>8, <2>9 DEF Next, Crash, ApiDies, Restart, vars
<1>2. IInv /\ [Next]_vars =>
        [\A j \in Job :
           announced[j] \in Finished => announced'[j] = announced[j]]_vars
  BY <1>1
<1> QED
  BY <1>2, Invariance, PTL DEF Spec, FinalWord

=============================================================================
