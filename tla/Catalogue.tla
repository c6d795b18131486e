------------------------------ MODULE Catalogue ------------------------------
(***************************************************************************)
(* The models the program offers for download: the table MODEL_PRESETS,    *)
(* and whether what it leaves on disk is what the other tables, those of   *)
(* directories, classification, readiness and validation, expect.  A file  *)
(* several architectures use is listed under each of them, with the place  *)
(* under shared/ where all of them have it.  Sizes, texts and addresses    *)
(* are left out; a file name stands without its extension.                 *)
(***************************************************************************)
EXTENDS JobForm

VARIABLE shelf      \* the architectures whose presets are being downloaded

catalogueVars == <<setupVars, shelf>>

Own(arch, role, name) == [arch |-> arch, role |-> role, shared |-> <<>>, name |-> name]

\* With sharedDestination.
InShared(arch, role, folder, name) ==
    [arch |-> arch, role |-> role, shared |-> <<"shared", folder>>, name |-> name]

T5xxlPresets(arch) ==
    {InShared(arch, "t5xxl", "text_encoders", "t5xxl_fp16"),
     InShared(arch, "t5xxl", "text_encoders", "t5xxl_fp8_e4m3fn")}

FluxPresets ==
    {Own("flux", "dit", "flux1-dev"), Own("flux", "dit", "flux1-schnell"),
     InShared("flux", "ae", "ae", "ae"), InShared("flux", "clip_l", "text_encoders", "clip_l")}
    \cup T5xxlPresets("flux")

ChromaPresets ==
    {Own("chroma", "dit", "chroma-unlocked-v50"), Own("chroma", "dit", "Chroma1-Base"),
     Own("chroma", "dit", "Chroma1-HD"), Own("chroma", "dit", "Chroma1-HD-Flash"),
     InShared("chroma", "ae", "ae", "ae")}
    \cup T5xxlPresets("chroma")

StableDiffusionPresets ==
    {Own("sdxl", "checkpoint", "sd_xl_base_1.0"), Own("sdxl", "vae", "sdxl_vae_fp16_fix"),
     Own("sd1", "checkpoint", "v1-5-pruned-emaonly"),
     InShared("sd1", "vae", "vae", "vae-ft-mse-840000-ema-pruned"),
     Own("sd2", "checkpoint", "v2-1_768-ema-pruned"),
     InShared("sd2", "vae", "vae", "vae-ft-mse-840000-ema-pruned")}

Sd3Presets ==
    {Own("sd3", "dit", "sd3.5_large"), Own("sd3", "dit", "sd3.5_medium"),
     Own("sd3", "dit", "sd3_medium"),
     InShared("sd3", "clip_l", "text_encoders", "clip_l"), Own("sd3", "clip_g", "clip_g")}
    \cup T5xxlPresets("sd3")

LuminaPresets ==
    {Own("lumina", "dit", "lumina_2_model_bf16"), Own("lumina", "gemma2", "gemma_2_2b_fp16"),
     InShared("lumina", "ae", "ae", "ae")}

HunyuanPresets ==
    {Own("hunyuan", "dit", "hunyuanimage2.1"), Own("hunyuan", "qwen2_5_vl", "qwen_2.5_vl_7b"),
     Own("hunyuan", "byt5", "byt5_small_glyphxl_fp16"),
     Own("hunyuan", "vae", "hunyuan_image_2.1_vae_fp16")}

AnimaPresets ==
    {Own("anima", "dit", "anima-preview"), Own("anima", "dit", "anima-preview2"),
     Own("anima", "vae", "qwen_image_vae"), Own("anima", "qwen3", "qwen_3_06b_base")}

ModelPresets ==
    UNION {FluxPresets, ChromaPresets, StableDiffusionPresets, Sd3Presets, LuminaPresets,
           HunyuanPresets, AnimaPresets}

ASSUME ModelPresetsAssumption == {Destination(p) : p \in ModelPresets} \subseteq File

GetPresetsByArch(arch) == {p \in ModelPresets : p.arch = arch}

CatalogueInit ==
    /\ SetupInit
    /\ shelf \in {{}} \cup {{a, b} : a, b \in Architecture}

\* Presets of two architectures are downloaded, and files or the whole of an
\* architecture deleted again.
CatalogueNext ==
    /\ \/ \E arch \in shelf : \E p \in GetPresetsByArch(arch) :
             Destination(p) \notin cache /\ Download(p)
       \/ \E f \in File : DeleteOne(f)
       \/ \E arch \in shelf : DeleteArch(arch)
    /\ UNCHANGED shelf

CatalogueSpec == CatalogueInit /\ [][CatalogueNext]_catalogueVars

-----------------------------------------------------------------------------
\* A downloaded preset counts for the architecture and role it is listed under,
\* an architecture is ready exactly when the presets it has on disk, its own or
\* those another one shares with it, fill one of its variants, and then the form
\* filled from the lists is accepted: the table of presets agrees with those of
\* directories, patterns, roles and fields (download.presets.ts, models.rules.ts,
\* models.constants.ts, validator.ts), whatever else is downloaded or deleted.
PresetsSuffice ==
    \A arch \in shelf :
        LET mine == {p \in GetPresetsByArch(arch) : Destination(p) \in cache}
            roles == {p.role : p \in mine}
            ready == CheckArchReadiness(arch, cache).ready
        IN  /\ \A p \in mine : Destination(p) \in FilesForArchRole(arch, p.role, cache)
            /\ ready <=> \E v \in DOMAIN ArchRequiredRoles[arch] :
                             ArchRequiredRoles[arch][v] \subseteq roles
            /\ ready => Accepts(BuildTrainConfig(FilledForm(arch)))
=============================================================================
