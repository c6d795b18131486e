------------------------------- MODULE Outputs --------------------------------
(***************************************************************************)
(* OutputsService: what a job has produced, read from its directories      *)
(* while the trainer still writes into them.  A request lists the          *)
(* checkpoints, then the previews, pairs them by number through the names  *)
(* that sd-scripts gives to both, and asks for each checkpoint's size.     *)
(*                                                                         *)
(* A file name is kept as what the patterns read from it.  Epochs have six *)
(* digits and steps eight, and not every architecture marks an epoch's     *)
(* checkpoint with an e; previews carry a time or not, and then a seed or  *)
(* not.  Directories of one job are modelled.                              *)
(***************************************************************************)
EXTENDS Naturals, Sequences, FiniteSets

CONSTANTS
    Schedule,   \* the points of the training, in order: <<"epoch", 1>>, <<"step", 1>>
    Prompt      \* the numbers of the sample prompts

ASSUME ScheduleAssumption ==
    Schedule \in Seq({"epoch", "step"} \X (Nat \ {0}))

VARIABLES
    style,      \* how this trainer names files
    point,      \* the trainer has come as far as this in its schedule
    outputDir,  \* the checkpoints there, none until the directory is made
    sampleDir,  \* the previews there
    made,       \* the directories that exist
    asked,      \* where the request stands
    names,      \* the checkpoints it has listed and not looked at yet
    byStem,     \* the previews it has listed, for each stem of a checkpoint
    found,      \* what it will answer
    \* history:
    stayed,     \* checkpoints there since the request began
    ever,       \* checkpoints there at some time since the request began
    shown       \* previews there when the request began

readerVars  == <<asked, names, byStem, found>>
trainerVars == <<style, point, outputDir, sampleDir, made>>
outputVars  == <<readerVars, trainerVars, stayed, ever, shown>>

-----------------------------------------------------------------------------
(* File names *)

Final == [num |-> 0, digits |-> 0, e |-> FALSE]     \* {name}.safetensors

Width(kind) == IF kind = "epoch" THEN 6 ELSE 8

\* {name}-{epoch:06d}[e].safetensors and {name}-{step:08d}.safetensors
CheckpointName(p) ==
    [num |-> p[2], digits |-> Width(p[1]), e |-> p[1] = "epoch" /\ style.e]

\* {name}_e{epoch:06d}_{index}_{time}[_{seed}].png and the three other forms.
PreviewName(p, i) ==
    [num |-> p[2], digits |-> Width(p[1]), e |-> p[1] = "epoch", index |-> i,
     time |-> style.time, seed |-> i \in style.seeded]

Checkpoint == {CheckpointName(Schedule[n]) : n \in 1..Len(Schedule)} \cup {Final}
Preview == {PreviewName(Schedule[n], i) : n \in 1..Len(Schedule), i \in Prompt}

\* Mutant: only the architectures that mark epochs are thought of.
StemsMarked(s) == {[num |-> s.num, digits |-> s.digits, e |-> s.e]}

\* The stems of the checkpoints to which buildPreviewMap() adds a preview: that
\* of an epoch goes with the checkpoint of either form.
Stems(s) ==
    {[num |-> s.num, digits |-> s.digits, e |-> e] : e \in IF s.e THEN BOOLEAN ELSE {FALSE}}

\* RE_PREVIEW_IS_EPOCH has no place for a seed.
PreviewIsEpoch(s) == s.e /\ ~s.seed

\* What a checkpoint is taken for, from its name and its previews.
LabelOf(c, previews) ==
    IF c = Final THEN "final"
    ELSE IF c.e \/ \E s \in previews : PreviewIsEpoch(s) THEN "epoch"
    ELSE "step"

-----------------------------------------------------------------------------
OutputTypeOK ==
    /\ style \in [e : BOOLEAN, time : BOOLEAN, seeded : SUBSET Prompt]
    /\ point \in 0..Len(Schedule) + 1
    /\ outputDir \subseteq Checkpoint /\ sampleDir \subseteq Preview
    /\ made \subseteq {"output", "sample"}
    /\ asked \in {"no", "list", "previews", "stat", "answered"}
    /\ names \subseteq Checkpoint
    /\ \A s \in DOMAIN byStem : byStem[s] \subseteq Preview
    /\ \A r \in found : r.file \in Checkpoint /\ r.previews \subseteq Preview
    /\ stayed \subseteq outputDir /\ ever \subseteq Checkpoint /\ shown \subseteq sampleDir

OutputInit ==
    /\ style \in [e : BOOLEAN, time : BOOLEAN, seeded : SUBSET Prompt]
    /\ style.time \/ style.seeded = {}
    /\ point = 0
    /\ outputDir = {} /\ sampleDir = {} /\ made = {}
    /\ asked = "no"
    /\ names = {} /\ byStem = <<>> /\ found = {}
    /\ stayed = {} /\ ever = {} /\ shown = {}

-----------------------------------------------------------------------------
(* The trainer, outside src/: at each point it may save a checkpoint, and   *)
(* may sample the prompts in turn, in either order.                         *)

Proceed ==
    /\ point <= Len(Schedule)
    /\ point' = point + 1
    /\ UNCHANGED <<style, outputDir, sampleDir, made, readerVars, stayed, ever, shown>>

SaveCheckpoint ==
    /\ point > 0
    /\ LET c == IF point > Len(Schedule) THEN Final ELSE CheckpointName(Schedule[point])
       IN  /\ c \notin outputDir
           /\ outputDir' = outputDir \cup {c}
           /\ ever' = IF asked = "no" THEN ever ELSE ever \cup {c}
    /\ made' = made \cup {"output"}
    /\ UNCHANGED <<style, point, sampleDir, readerVars, stayed, shown>>

\* Only the last checkpoints are kept, if the user wants so.
RemoveCheckpoint ==
    /\ \E n \in 1..(point - 1) :
          LET c == CheckpointName(Schedule[n])
          IN  /\ c \in outputDir
              /\ outputDir' = outputDir \ {c}
              /\ stayed' = stayed \ {c}
    /\ UNCHANGED <<style, point, sampleDir, made, readerVars, ever, shown>>

SamplePrompt ==
    /\ point \in 1..Len(Schedule)
    /\ \E i \in Prompt :
          LET s == PreviewName(Schedule[point], i)
          IN  /\ s \notin sampleDir
              /\ \A k \in Prompt : k < i => PreviewName(Schedule[point], k) \in sampleDir
              /\ sampleDir' = sampleDir \cup {s}
    /\ made' = {"output", "sample"}
    /\ UNCHANGED <<style, point, outputDir, readerVars, stayed, ever, shown>>

-----------------------------------------------------------------------------
(* getOutputs() *)

GetOutputs ==
    /\ asked = "no"
    /\ asked' = "list"
    /\ stayed' = outputDir /\ ever' = outputDir /\ shown' = sampleDir
    /\ UNCHANGED <<names, byStem, found, trainerVars>>

\* readdir of the output directory; without one there are no outputs yet.
ListCheckpoints ==
    /\ asked = "list"
    /\ IF "output" \in made THEN asked' = "previews" /\ names' = outputDir
       ELSE asked' = "answered" /\ names' = {}
    /\ UNCHANGED <<byStem, found, trainerVars, stayed, ever, shown>>

\* buildPreviewMap(): readdir of the sample directory, empty without one.
BuildPreviewMap ==
    /\ asked = "previews"
    /\ LET stems == UNION {Stems(s) : s \in sampleDir}
       IN  byStem' = [stem \in stems |-> {s \in sampleDir : stem \in Stems(s)}]
    /\ asked' = "stat"
    /\ UNCHANGED <<names, found, trainerVars, stayed, ever, shown>>

\* stat of the next checkpoint: one that has gone is left out.
StatCheckpoint ==
    /\ asked = "stat"
    /\ \E c \in names :
          LET previews == IF c \in DOMAIN byStem THEN byStem[c] ELSE {}
          IN  /\ names' = names \ {c}
              /\ found' = IF c \notin outputDir THEN found
                          ELSE found \cup {[file |-> c, label |-> LabelOf(c, previews),
                                            previews |-> previews]}
    /\ UNCHANGED <<asked, byStem, trainerVars, stayed, ever, shown>>

AnswerOutputs ==
    /\ asked = "stat"
    /\ names = {}
    /\ asked' = "answered"
    /\ byStem' = <<>>
    /\ UNCHANGED <<names, found, trainerVars, stayed, ever, shown>>

OutputNext ==
    \/ Proceed \/ SaveCheckpoint \/ RemoveCheckpoint \/ SamplePrompt
    \/ GetOutputs \/ ListCheckpoints \/ BuildPreviewMap \/ StatCheckpoint \/ AnswerOutputs

OutputSpec == OutputInit /\ [][OutputNext]_outputVars

-----------------------------------------------------------------------------
\* The points of the training at which a file was written.
Of(f) == {p \in {Schedule[n] : n \in 1..Len(Schedule)} :
             \/ f = CheckpointName(p)
             \/ \E i \in Prompt : f = PreviewName(p, i)}

\* Whatever the trainer writes and removes meanwhile: the answer has every
\* checkpoint that was there all the while and none that never was; each has
\* the previews of its own epoch or step, all that were there before and never
\* those of another, so that step 1 is not shown with the pictures of epoch 1;
\* a step is not called an epoch, and an epoch is not called a step unless its
\* name has no e and all its previews have seeds, or it has none.
OutputsTrue ==
    asked = "answered" =>
        /\ stayed \subseteq {r.file : r \in found} /\ {r.file : r \in found} \subseteq ever
        /\ \A r \in found :
              LET own(shots) == {s \in shots : Of(s) = Of(r.file)}
              IN  /\ own(shown) \subseteq r.previews /\ r.previews \subseteq own(sampleDir)
                  /\ r.label = "final" <=> r.file = Final
                  /\ \A p \in Of(r.file) :
                        \/ r.label = p[1]
                        \/ p[1] = "epoch" /\ ~style.e /\ \A s \in r.previews : s.seed
=============================================================================
