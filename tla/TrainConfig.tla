----------------------------- MODULE TrainConfig -----------------------------
(***************************************************************************)
(* validateTrainConfig: which training configurations JobsService.create   *)
(* accepts.  A configuration is reduced to what the validator looks at:    *)
(*   arch      the architecture                                            *)
(*   path      the model paths it gives, by field (None when left out)     *)
(*   given     the common settings that hold a usable value                *)
(*   on        the options that are set                                    *)
(*   guidance  guidance_scale: "unset", "zero" or "other"                  *)
(*   attn      attn_mode                                                   *)
(*   optimizer "adafactor", "schedulefree" or "other"                      *)
(*   kind      model_type                                                  *)
(* The errors are sets of the fields complained about.                     *)
(***************************************************************************)
EXTENDS FiniteSets

CONSTANT None

\* What is left out is none of the attention modes with conditions.
ASSUME NoneAssumption == None \notin {"xformers", "sageattn"}

PathField == {"pretrained_model_name_or_path", "clip_l", "clip_g", "t5xxl", "ae",
              "vae", "qwen3", "gemma2", "text_encoder", "byt5"}

Common == {"output_dir", "output_name", "dataset_config", "network_dim",
           "learning_rate", "optimizer_type", "max_train_steps / max_train_epochs"}

\* The paths each architecture cannot do without.
RequiredPaths == [
    sd1     |-> {}, sd2 |-> {}, sdxl |-> {}, sd3 |-> {},
    flux    |-> {"clip_l", "t5xxl", "ae"},
    chroma  |-> {"t5xxl", "ae"},
    anima   |-> {"qwen3", "vae"},
    lumina  |-> {"gemma2", "ae"},
    hunyuan |-> {"text_encoder", "byt5", "vae"}]

If(condition, field) == IF condition THEN {field} ELSE {}

ValidateCommon(c) ==
    (Common \ c.given)
    \cup If("validate" \in c.on /\ c.optimizer = "schedulefree", "validate_every_n_steps")
    \cup If("cache_latents" \in c.on /\ "augmentation" \in c.on, "cache_latents")

ValidatePaths(c) ==
    {p \in RequiredPaths[c.arch] \cup {"pretrained_model_name_or_path"} : c.path[p] = None}

\* Cached outputs leave nothing of the text encoders to train.
ValidateCaching(c) ==
    If(/\ c.arch \in {"sdxl", "flux", "chroma", "sd3", "anima"}
       /\ "cache_text_encoder_outputs" \in c.on
       /\ "network_train_unet_only" \notin c.on, "cache_text_encoder_outputs")

ValidateArch(c) ==
    CASE c.arch = "sd1" -> If("v2" \in c.on, "v2")
      [] c.arch = "sd2" -> If("v2" \notin c.on, "v2")
      [] c.arch = "sdxl" ->
           If(/\ "fused_backward_pass" \in c.on
              /\ \/ "optimizer_type" \in c.given /\ c.optimizer # "adafactor"
                 \/ "accumulate" \in c.on, "fused_backward_pass")
      [] c.arch = "flux" ->
           If({"blocks_to_swap", "cpu_offload_checkpointing"} \subseteq c.on, "blocks_to_swap")
           \cup If(c.guidance = "unset", "guidance_scale")
      [] c.arch = "chroma" ->
           If(c.path["clip_l"] # None, "clip_l")
           \cup If(c.guidance # "zero", "guidance_scale")
           \cup If("apply_t5_attn_mask" \notin c.on, "apply_t5_attn_mask")
           \cup If(c.kind # "chroma", "model_type")
      [] c.arch = "sd3" ->
           If(Cardinality({p \in {"clip_l", "clip_g", "t5xxl"} : c.path[p] # None}) \in {1, 2},
              "clip_l / clip_g / t5xxl")
      [] c.arch = "anima" ->
           If(c.attn = "xformers" /\ "split_attn" \notin c.on, "split_attn")
           \cup If(c.attn = "sageattn", "attn_mode")
           \cup If({"blocks_to_swap", "unsloth_offload_checkpointing"} \subseteq c.on,
                   "blocks_to_swap")
      [] c.arch = "hunyuan" ->
           If("network_train_unet_only" \notin c.on, "network_train_unet_only")
           \cup If({"blocks_to_swap", "cpu_offload_checkpointing"} \subseteq c.on,
                   "blocks_to_swap")
           \cup If(c.attn = "xformers" /\ "split_attn" \notin c.on, "split_attn")
      [] c.arch = "lumina" -> {}

ValidateTrainConfig(c) ==
    ValidateCommon(c) \cup ValidatePaths(c) \cup ValidateCaching(c) \cup ValidateArch(c)
=============================================================================
