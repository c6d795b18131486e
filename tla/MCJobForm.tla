------------------------------ MODULE MCJobForm ------------------------------
(* The form of a new job, the table of presets, and the table of jobs, which *)
(* share nothing and move one at a time.                                     *)
EXTENDS Catalogue, JobsTable, TLC

FluxDit   == [dir |-> <<"flux">>, name |-> "flux1-dev"]
ChromaDit == [dir |-> <<"chroma">>, name |-> "Chroma1-HD"]
LuminaDit == [dir |-> <<"lumina">>, name |-> "lumina_2_model_bf16"]
Gemma2    == [dir |-> <<"lumina", "text_encoders">>, name |-> "gemma_2_2b_fp16"]
Ae        == [dir |-> <<"shared", "ae">>, name |-> "ae"]
ClipL     == [dir |-> <<"shared", "text_encoders">>, name |-> "clip_l"]
T5xxl     == [dir |-> <<"shared", "text_encoders">>, name |-> "t5xxl_fp16"]
\* A Chroma model in the folder of FLUX, and in one whose name begins like it.
Misfiled  == [dir |-> <<"flux">>, name |-> "chroma-unlocked-v50"]
Sibling   == [dir |-> <<"flux-chroma">>, name |-> "chroma-unlocked-v50"]

\* The files of the part that fills in the form.
FormFile == {FluxDit, ChromaDit, LuminaDit, Gemma2, Ae, ClipL, T5xxl, Misfiled, Sibling}

MCFile == FormFile \cup {Destination(p) : p \in ModelPresets}

\* The patterns of CLASSIFY_RULES that match a file by its name, and those that
\* match it by its folder alone.
ByName == [
    clip_l |-> {"clip_l"}, clip_g |-> {"clip_g"}, t5xxl |-> {"t5xxl"}, ae |-> {"ae."},
    gemma |-> {"gemma2"}, qwen3 |-> {"qwen_3"}, qwen25 |-> {"qwen2.5vl"}, byt5 |-> {"byt5"},
    vae |-> {"vae"}, sdxl_vae |-> {"sdxl..vae", "vae", "sdxl"}, sdxl |-> {"sdxl"},
    hunyuan_vae |-> {"hunyuan..vae", "vae", "hunyuan_image"}, hunyuan |-> {"hunyuan_image"},
    anima_vae |-> {"qwen_image_vae", "vae"}, anima |-> {"anima"}, chroma |-> {"chroma"},
    flux |-> {"flux1"}, sd35 |-> {"sd3.5", "sd3"}, sd3 |-> {"sd3"}, lumina |-> {"lumina_image"},
    v1 |-> {"v1"}, v2 |-> {"v2"}]

Kind(name) ==
    CASE name = "clip_l" -> "clip_l" [] name = "clip_g" -> "clip_g" [] name = "ae" -> "ae"
      [] name \in {"t5xxl_fp16", "t5xxl_fp8_e4m3fn"} -> "t5xxl"
      [] name = "gemma_2_2b_fp16" -> "gemma" [] name = "qwen_3_06b_base" -> "qwen3"
      [] name = "qwen_2.5_vl_7b" -> "qwen25" [] name = "byt5_small_glyphxl_fp16" -> "byt5"
      [] name = "vae-ft-mse-840000-ema-pruned" -> "vae"
      [] name = "sdxl_vae_fp16_fix" -> "sdxl_vae" [] name = "sd_xl_base_1.0" -> "sdxl"
      [] name = "hunyuan_image_2.1_vae_fp16" -> "hunyuan_vae"
      [] name = "hunyuanimage2.1" -> "hunyuan" [] name = "qwen_image_vae" -> "anima_vae"
      [] name \in {"anima-preview", "anima-preview2"} -> "anima"
      [] name \in {"chroma-unlocked-v50", "Chroma1-Base", "Chroma1-HD", "Chroma1-HD-Flash"} -> "chroma"
      [] name \in {"flux1-dev", "flux1-schnell"} -> "flux"
      [] name \in {"sd3.5_large", "sd3.5_medium"} -> "sd35" [] name = "sd3_medium" -> "sd3"
      [] name = "lumina_2_model_bf16" -> "lumina"
      [] name = "v1-5-pruned-emaonly" -> "v1" [] name = "v2-1_768-ema-pruned" -> "v2"

ByFolder(dir) ==
    CASE Head(dir) = "shared" -> {"shared/ae/", "shared/vae/"} \cap {"shared/" \o dir[2] \o "/"}
      [] Head(dir) \in {"flux", "chroma", "sd3", "sdxl", "anima", "lumina", "hunyuan"} ->
            {Head(dir) \o "/"} \cup (IF Head(dir) \in {"anima", "chroma", "sd3"} THEN {Head(dir)} ELSE {})
                               \cup (IF Len(dir) = 2 /\ dir[2] = "vae" THEN {"vae"} ELSE {})
      [] OTHER -> {}

MCHits == [f \in MCFile |-> ByName[Kind(f.name)] \cup ByFolder(f.dir)]

MCLonger == {<<"flux-chroma", "flux">>}

Preset(arch, role, shared, f) ==
    [arch |-> arch, role |-> role, shared |-> shared, name |-> f.name]

\* Presets of three architectures, and a URL filed under the wrong one.
MCRequest == {
    Preset("flux", "dit", <<>>, FluxDit), Preset("chroma", "dit", <<>>, ChromaDit),
    Preset("lumina", "dit", <<>>, LuminaDit), Preset("lumina", "gemma2", <<>>, Gemma2),
    Preset("lumina", "ae", Ae.dir, Ae), Preset("sd3", "clip_l", ClipL.dir, ClipL),
    Preset("chroma", "t5xxl", T5xxl.dir, T5xxl), Preset("flux", "dit", <<>>, Misfiled)}

\* A preset saved with cached outputs and nothing else.
MCUserPreset == {[network_train_unet_only |-> None, cache_text_encoder_outputs |-> TRUE]}

CONSTANTS t1, t2    \* two jobs

FormSymm == Permutations(Train)

VARIABLE part       \* what moves: the form, the presets of two architectures, or the table

FormInit ==
    /\ part \in {"form", "presets", "table"}
    /\ CatalogueInit /\ (part = "presets" <=> shelf # {})
    /\ TableInit /\ (part = "table" \/ rows = <<>>)

FormNext ==
    /\ part' = part
    /\ \/ part = "form" /\ SetupNext /\ UNCHANGED <<shelf, tableVars>>
       \/ part = "presets" /\ CatalogueNext /\ UNCHANGED tableVars
       \/ part = "table" /\ TableNext /\ UNCHANGED catalogueVars

FormSpec == FormInit /\ [][FormNext]_<<part, catalogueVars, tableVars>>
=============================================================================
