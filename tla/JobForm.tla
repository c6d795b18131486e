------------------------------- MODULE JobForm -------------------------------
(***************************************************************************)
(* From model files to an accepted training job: downloads and deletions   *)
(* change what the models directory holds, the form of NewJobPage offers   *)
(* what ModelsService lists, and JobsService.create validates what the     *)
(* form sends.                                                             *)
(*                                                                         *)
(* Every request here is one step: scans that overlap are the subject of   *)
(* ModelsCache, the life of an accepted job that of Jobs.  The list the    *)
(* form holds may be older than the directory; a choice made from an older *)
(* list leaves the form as a choice made before the deletion does.         *)
(***************************************************************************)
EXTENDS ModelRules, TrainConfig

CONSTANTS
    Arches,     \* the architectures in use
    ByHand,     \* the files anybody may copy in, a bound
    Request,    \* downloads: presets and user-given [arch, role, shared, name]
    UserPreset  \* switches a preset saved by a user sets, [Switch -> {TRUE, FALSE, None}]

ASSUME ArchesAssumption == Arches \subseteq Architecture
ASSUME FilesAssumption == None \notin File /\ ByHand \subseteq File
ASSUME PresetAssumption == UserPreset \subseteq [{"network_train_unet_only",
                              "cache_text_encoder_outputs"} -> {TRUE, FALSE, None}]
ASSUME RequestAssumption == \A q \in Request : Destination(q) \in File

VARIABLES
    cache,      \* the model files on disk, which ModelsService lists
    form,       \* NewJobForm: architecture, model paths, switches that are on
    job         \* the configuration create() has just accepted, or None

setupVars == <<cache, form, job>>

Switch == {"network_train_unet_only", "cache_text_encoder_outputs"}

\* ARCH_DEFAULTS
ArchDefaults(arch) ==
    [network_train_unet_only |-> arch = "hunyuan",
     cache_text_encoder_outputs |-> arch \in {"flux", "chroma", "sd3", "lumina"}]

\* The system presets, as far as they touch the switches: the three presets of
\* an architecture differ in numbers only, and start from a common base.
SdBase     == [s \in Switch |-> None]
ModernBase == [s \in Switch |-> None]
FluxBase   == [s \in Switch |-> TRUE]
Frozen(base) == [base EXCEPT !.network_train_unet_only = TRUE, !.cache_text_encoder_outputs = TRUE]

FluxTraining    == FluxBase
ChromaTraining  == FluxBase
SdxlTraining    == ModernBase
Sd1Training     == SdBase
Sd2Training     == SdBase
Sd3Training     == Frozen(ModernBase)
AnimaTraining   == Frozen(ModernBase)
LuminaTraining  == Frozen(ModernBase)
HunyuanTraining == Frozen(ModernBase)

SystemPreset == [
    sd1  |-> Sd1Training,  sd2    |-> Sd2Training,    sdxl  |-> SdxlTraining,
    flux |-> FluxTraining, chroma |-> ChromaTraining, sd3   |-> Sd3Training,
    anima |-> AnimaTraining, lumina |-> LuminaTraining, hunyuan |-> HunyuanTraining]

On(switches) == {s \in DOMAIN switches : switches[s] = TRUE}

NoPaths == [p \in PathField |-> None]

DefaultForm == [arch |-> "flux", path |-> NoPaths, on |-> On(ArchDefaults("flux"))]

SetupInit ==
    /\ cache = {}
    /\ form = DefaultForm
    /\ job = None

-----------------------------------------------------------------------------
(* Model files come and go *)

Download(q) ==
    /\ cache' = cache \cup {Destination(q)}
    /\ job' = None
    /\ UNCHANGED form

\* A file put there by hand, and a refresh.
CopyIn(f) ==
    /\ f \notin cache
    /\ cache' = cache \cup {f}
    /\ job' = None
    /\ UNCHANGED form

ListOf(arch) == {f \in cache : Classify[f].arch = arch}

\* The architectures the sharedWarnings of an answer name.
SharedWarnings(files, arch) == UNION {GetArchesForFile(f) \ {arch} : f \in files}

DeleteOne(f) ==
    /\ f \in cache
    /\ cache' = cache \ {f}
    /\ job' = None
    /\ UNCHANGED form

\* A file whose unlink fails stays.
DeleteArch(arch) ==
    /\ ListOf(arch) # {}
    /\ \E kept \in SUBSET ListOf(arch) : cache' = cache \ (ListOf(arch) \ kept)
    /\ job' = None
    /\ UNCHANGED form

-----------------------------------------------------------------------------
(* The form *)

MainRoles == {"checkpoint", "dit", "unet"}

ByRole(roles) == {f \in cache : Classify[f].role \in roles}

ByRoleForArch(arch, roles) ==
    LET narrowed == {f \in ByRole(roles) : Classify[f].arch \in {arch, Unknown}}
    IN  IF narrowed # {} THEN narrowed ELSE ByRole(roles)

MainModels(arch) ==
    {f \in ByRole(MainRoles) :
        \/ Classify[f].arch = arch
        \/ arch \in {"sd1", "sd2", "sdxl"} /\ Classify[f].arch = Unknown}

\* The model fields the form shows for an architecture, and sends for it.
Shown == [
    sd1     |-> {}, sd2 |-> {}, sdxl |-> {"vae"},
    flux    |-> {"clip_l", "t5xxl", "ae"},
    chroma  |-> {"t5xxl", "ae"},
    sd3     |-> {"clip_l", "clip_g", "t5xxl", "vae"},
    anima   |-> {"qwen3", "vae"},
    lumina  |-> {"gemma2", "ae"},
    hunyuan |-> {"text_encoder", "byt5", "vae"}]

ShownFields(arch) == Shown[arch] \cup {"pretrained_model_name_or_path"}

Offered(arch, p) ==
    CASE p = "pretrained_model_name_or_path" -> MainModels(arch)
      [] p \in {"clip_l", "clip_g", "t5xxl", "ae"} -> ByRole({p})
      [] p = "vae" -> ByRoleForArch(arch, {"vae"})
      [] p = "qwen3" -> ByRoleForArch("anima", {"qwen3"})
      [] p = "gemma2" -> ByRoleForArch("lumina", {"gemma2"})
      [] p = "text_encoder" -> ByRoleForArch("hunyuan", {"qwen2_5_vl", "text_encoder"})
      [] p = "byt5" -> ByRoleForArch("hunyuan", {"byt5"})

\* A Select offers its list; choosing the chosen one again clears the field.
SelectPath(p, x) ==
    /\ form' = [form EXCEPT !.path[p] = x]
    /\ job' = None
    /\ UNCHANGED cache

\* set() on a switch; that of HunyuanImage for the DiT alone is locked.
Toggle(s) ==
    /\ ~(s = "network_train_unet_only" /\ form.arch = "hunyuan")
    /\ form' = [form EXCEPT !.on = SymDiff({s}, @)]
    /\ job' = None
    /\ UNCHANGED cache

\* What switches say replaces what is set, what they leave open stays.
Overridden(switches) ==
    (form.on \ {s \in DOMAIN switches : switches[s] # None}) \cup On(switches)

\* Mutant: the chosen models stay.
HandleArchChangeKeeps(arch) ==
    /\ form' = [arch |-> arch, path |-> form.path, on |-> Overridden(ArchDefaults(arch))]
    /\ job' = None
    /\ UNCHANGED cache

HandleArchChange(arch) ==
    /\ form' = [arch |-> arch, path |-> NoPaths, on |-> Overridden(ArchDefaults(arch))]
    /\ job' = None
    /\ UNCHANGED cache

ApplyPreset(preset) ==
    /\ form' = [form EXCEPT !.on = Overridden(preset)]
    /\ job' = None
    /\ UNCHANGED cache

\* What the form sends, completed by create(): its numbers are given, and the
\* options the form knows not of are off.  A learning rate of 0, which the form
\* lets pass and the validation refuses, is left out.
BuildTrainConfig(f) ==
    [arch |-> f.arch,
     path |-> [p \in PathField |-> IF p \in ShownFields(f.arch) THEN f.path[p] ELSE None],
     given |-> Common,
     on |-> f.on \cup If(f.arch = "sd2", "v2")
                 \cup If(f.arch = "chroma", "apply_t5_attn_mask")
                 \cup If(f.arch = "hunyuan", "network_train_unet_only"),
     guidance |-> CASE f.arch = "chroma" -> "zero"
                    [] f.arch = "flux" -> "other"
                    [] OTHER -> "unset",
     attn |-> None, optimizer |-> "other",
     kind |-> IF f.arch = "chroma" THEN "chroma" ELSE None]

Accepts(config) == ValidateTrainConfig(config) = {}

\* Enabled by canSubmit, the name and the dataset taken as given.  A rejected
\* form stays, an accepted one makes way for the page of its job.
HandleSubmit ==
    LET config == BuildTrainConfig(form) IN
    /\ form.path["pretrained_model_name_or_path"] # None
    /\ \/ Accepts(config) /\ job' = config /\ form' = DefaultForm
       \/ ~Accepts(config) /\ job' = None /\ UNCHANGED form
    /\ UNCHANGED cache

SetupNext ==
    \/ \E q \in Request : Download(q)
    \/ \E f \in ByHand : CopyIn(f)
    \/ \E f \in File : DeleteOne(f)
    \/ \E a \in Arches : DeleteArch(a)
    \/ \E p \in ShownFields(form.arch) :
          \E x \in Offered(form.arch, p) \cup {None} : SelectPath(p, x)
    \/ \E s \in Switch : Toggle(s)
    \/ \E a \in Arches : HandleArchChange(a)
    \/ \E preset \in UserPreset \cup {SystemPreset[form.arch]} : ApplyPreset(preset)
    \/ HandleSubmit

SetupSpec == SetupInit /\ [][SetupNext]_setupVars

-----------------------------------------------------------------------------
(* Properties *)

\* What create() accepts from the form trains an architecture with files of
\* that architecture: the base model is classified under it, every other path
\* has the role of its field and a role the architecture uses, and the paths
\* fill one of the variants readiness asks for (SD3 may leave its encoders and
\* VAE to a merged file).  A change of architecture, presets and deletions in
\* between must not leave a path of before (NewJobPage handleArchChange,
\* buildTrainConfig; validator.ts).
AcceptedFitsArch ==
    job # None =>
        LET c == job
            used == {p \in PathField \ {"pretrained_model_name_or_path"} : c.path[p] # None}
            main == Classify[c.path["pretrained_model_name_or_path"]]
            roles == {main.role} \cup {Classify[c.path[p]].role : p \in used}
        IN  /\ main.arch \in {c.arch, Unknown}
            /\ roles \subseteq ArchRoles[c.arch]
            /\ \A p \in used : p = Classify[c.path[p]].role \/ p = "text_encoder"
            /\ c.arch # "sd3" =>
                   \E v \in DOMAIN ArchRequiredRoles[c.arch] :
                      ArchRequiredRoles[c.arch][v] \subseteq roles

AnyOf(files) == IF files = {} THEN None ELSE CHOOSE f \in files : TRUE

\* The form with every model field filled from its list, if that is not empty.
FilledForm(arch) ==
    [arch |-> arch,
     path |-> [p \in PathField |->
                 IF p \in ShownFields(arch) THEN AnyOf(Offered(arch, p)) ELSE None],
     on |-> {"network_train_unet_only"}]

\* An architecture reported as ready can be trained from the form: filled from
\* its lists it passes the validation.  Readiness goes by directory and role
\* (checkArchReadiness), the lists by classification (NewJobPage), the
\* validation by fields (validator.ts): three tables that must agree.  They
\* part where a base model of another architecture lies in its directory.
ReadyCanTrain ==
    \A arch \in Arches :
        LET base == CHOOSE r \in {"dit", "checkpoint"} : r \in DOMAIN ArchRoleDir[arch]
            strays == {f \in ByRole(MainRoles) :
                          /\ Classify[f].arch # arch
                          /\ StartsWith(f.dir, ArchRoleDir[arch][base])}
        IN  CheckArchReadiness(arch, cache).ready /\ strays = {} =>
                Accepts(BuildTrainConfig(FilledForm(arch)))

\* A file counts for an architecture only by the beginning of its folder's name.
OnlyByPrefix(f, arch) ==
    \E r \in DOMAIN ArchRoleDir[arch] : /\ StartsWith(f.dir, ArchRoleDir[arch][r])
                                       /\ ~Inside(f.dir, ArchRoleDir[arch][r])

\* A deletion that costs another architecture its readiness names it in the
\* answer's warnings (deleteOne, deleteArch, getArchesForFile), unless the file
\* counted only because its folder's name begins like that architecture's.
LossIsWarned ==
    [][LET lost == cache \ cache' IN
       lost # {} =>
         \A b \in Arches :
            /\ CheckArchReadiness(b, cache).ready
            /\ ~CheckArchReadiness(b, cache').ready
            => \A own \in (Arches \cup {Unknown}) \ {b} : lost \subseteq ListOf(own) =>
                  \/ b \in SharedWarnings(lost, own)
                  \/ \E f \in lost : OnlyByPrefix(f, b)]_setupVars
=============================================================================
