----------------------------- MODULE ModelRules -----------------------------
(***************************************************************************)
(* How ModelsService tells what a model file is and what an architecture   *)
(* has: the classification rules, the tables of roles and directories, the *)
(* readiness check and the search for other users of a file.               *)
(*                                                                         *)
(* A path is its directory below the models directory, as the sequence of  *)
(* folder names, and a file name.  The regular expressions of              *)
(* CLASSIFY_RULES are not matched here: Hits gives, for a path, the names  *)
(* (chosen below) of the patterns that match it.                           *)
(***************************************************************************)
EXTENDS Naturals, Sequences, FiniteSets, SequencesExt

CONSTANTS
    File,       \* model files, as records [dir, name]
    Hits,       \* the patterns a file's path matches
    Longer      \* pairs <<s, t>>: folder name s begins with folder name t

ASSUME HitsAssumption == Hits \in [File -> SUBSET STRING]

Unknown == "unknown"

\* Pattern, architecture, role.  Patterns that give neither are left out.
ClassifyRules == <<
    <<"lora", Unknown, "lora">>, <<"lycoris", Unknown, "lora">>,
    <<"shared/ae/", Unknown, "ae">>, <<"shared/vae/", Unknown, "vae">>,
    <<"clip_l", Unknown, "clip_l">>, <<"clip_g", Unknown, "clip_g">>,
    <<"t5xxl", Unknown, "t5xxl">>, <<"gemma2", "lumina", "gemma2">>,
    <<"qwen_3", "anima", "qwen3">>, <<"qwen2.5vl", "hunyuan", "qwen2_5_vl">>,
    <<"byt5", "hunyuan", "byt5">>, <<"llm_adapter", "anima", "llm_adapter">>,
    <<"ae.", Unknown, "ae">>, <<"lumina..ae", "lumina", "ae">>,
    <<"flux..ae", "flux", "ae">>, <<"qwen_image_vae", "anima", "vae">>,
    <<"hunyuan..vae", "hunyuan", "vae">>, <<"sd3..vae", "sd3", "vae">>,
    <<"sdxl..vae", "sdxl", "vae">>, <<"vae", Unknown, "vae">>,
    <<"chroma", "chroma", "dit">>, <<"flux1", "flux", "dit">>,
    <<"sd3.5", "sd3", "dit">>, <<"sd3", "sd3", "dit">>,
    <<"hunyuan_image", "hunyuan", "dit">>, <<"lumina_image", "lumina", "dit">>,
    <<"anima", "anima", "dit">>, <<"sdxl", "sdxl", "checkpoint">>,
    <<"v2", "sd2", "checkpoint">>, <<"v1", "sd1", "checkpoint">>,
    <<"flux/", "flux", Unknown>>, <<"chroma/", "chroma", Unknown>>,
    <<"sd3/", "sd3", Unknown>>, <<"sdxl/", "sdxl", Unknown>>,
    <<"anima/", "anima", Unknown>>, <<"lumina/", "lumina", Unknown>>,
    <<"hunyuan/", "hunyuan", Unknown>> >>

\* The first matching rule that knows the arch gives the arch; likewise the role.
FirstKnown(f, column) ==
    LET known == {n \in DOMAIN ClassifyRules : /\ ClassifyRules[n][1] \in Hits[f]
                                               /\ ClassifyRules[n][column] # Unknown}
    IN  IF known = {} THEN Unknown
        ELSE ClassifyRules[CHOOSE n \in known : \A m \in known : n <= m][column]

Classify == [f \in File |-> [arch |-> FirstKnown(f, 2), role |-> FirstKnown(f, 3)]]

ArchRoles == [
    sd1     |-> {"checkpoint", "unet", "vae", "lora", "text_encoder"},
    sd2     |-> {"checkpoint", "unet", "vae", "lora", "text_encoder"},
    sdxl    |-> {"checkpoint", "unet", "vae", "lora", "clip_l", "clip_g",
                 "text_encoder"},
    flux    |-> {"dit", "ae", "clip_l", "t5xxl", "lora"},
    chroma  |-> {"dit", "ae", "t5xxl", "lora"},
    sd3     |-> {"dit", "vae", "clip_l", "clip_g", "t5xxl", "lora"},
    anima   |-> {"dit", "vae", "qwen3", "llm_adapter", "lora"},
    lumina  |-> {"dit", "ae", "gemma2", "lora"},
    hunyuan |-> {"dit", "vae", "qwen2_5_vl", "byt5", "lora"}]

Architecture == DOMAIN ArchRoles

\* Any one variant will do, and needs all of its roles.
ArchRequiredRoles == [
    sd1     |-> <<{"checkpoint"}, {"unet", "vae", "text_encoder"}>>,
    sd2     |-> <<{"checkpoint"}, {"unet", "vae", "text_encoder"}>>,
    sdxl    |-> <<{"checkpoint"}, {"unet", "vae", "clip_l", "clip_g"}>>,
    flux    |-> <<{"dit", "ae", "clip_l", "t5xxl"}>>,
    chroma  |-> <<{"dit", "ae", "t5xxl"}>>,
    sd3     |-> <<{"dit", "vae", "clip_l", "clip_g", "t5xxl"}>>,
    anima   |-> <<{"dit", "vae", "qwen3"}>>,
    lumina  |-> <<{"dit", "ae", "gemma2"}>>,
    hunyuan |-> <<{"dit", "vae", "qwen2_5_vl", "byt5"}>>]

\* Mutant: VAEs are looked for beside the autoencoder.
SharedAe(role) == IF role \in {"ae", "vae"} THEN <<"shared", "ae">>
                  ELSE <<"shared", "text_encoders">>

\* shared/ holds what several architectures use, other folders one each.
Shared(role) == CASE role = "ae" -> <<"shared", "ae">>
                  [] role = "vae" -> <<"shared", "vae">>
                  [] OTHER -> <<"shared", "text_encoders">>

ArchRoleDir ==
    LET In(a, sub) == <<a, sub>> IN [
    sd1     |-> [checkpoint |-> <<"sd1">>, unet |-> <<"sd1">>, vae |-> Shared("vae"),
                 lora |-> In("sd1", "lora"), text_encoder |-> In("sd1", "text_encoders")],
    sd2     |-> [checkpoint |-> <<"sd2">>, unet |-> <<"sd2">>, vae |-> Shared("vae"),
                 lora |-> In("sd2", "lora"), text_encoder |-> In("sd2", "text_encoders")],
    sdxl    |-> [checkpoint |-> <<"sdxl">>, unet |-> <<"sdxl">>,
                 vae |-> In("sdxl", "vae"), lora |-> In("sdxl", "lora"),
                 clip_l |-> In("sdxl", "text_encoders"),
                 clip_g |-> In("sdxl", "text_encoders"),
                 text_encoder |-> In("sdxl", "text_encoders")],
    flux    |-> [dit |-> <<"flux">>, ae |-> Shared("ae"), clip_l |-> Shared("clip_l"),
                 t5xxl |-> Shared("t5xxl"), lora |-> In("flux", "lora")],
    chroma  |-> [dit |-> <<"chroma">>, ae |-> Shared("ae"), t5xxl |-> Shared("t5xxl"),
                 lora |-> In("chroma", "lora")],
    sd3     |-> [dit |-> <<"sd3">>, vae |-> In("sd3", "vae"), clip_l |-> Shared("clip_l"),
                 clip_g |-> In("sd3", "text_encoders"), t5xxl |-> Shared("t5xxl"),
                 lora |-> In("sd3", "lora")],
    anima   |-> [dit |-> <<"anima">>, vae |-> In("anima", "vae"),
                 qwen3 |-> In("anima", "text_encoders"),
                 llm_adapter |-> In("anima", "text_encoders"), lora |-> In("anima", "lora")],
    lumina  |-> [dit |-> <<"lumina">>, ae |-> Shared("ae"),
                 gemma2 |-> In("lumina", "text_encoders"), lora |-> In("lumina", "lora")],
    hunyuan |-> [dit |-> <<"hunyuan">>, vae |-> In("hunyuan", "vae"),
                 qwen2_5_vl |-> In("hunyuan", "text_encoders"),
                 byt5 |-> In("hunyuan", "text_encoders"), lora |-> In("hunyuan", "lora")]]

Inside(dir, folder) == IsPrefix(folder, dir)

\* String.startsWith on the joined names: the last one may go on.
StartsWith(dir, folder) ==
    LET n == Len(folder) IN
    /\ Len(dir) >= n
    /\ Front(folder) = SubSeq(dir, 1, n - 1)
    /\ dir[n] = folder[n] \/ <<dir[n], folder[n]>> \in Longer

\* Mutant: any file in the directory will do.
FilesForArchRoleAny(arch, role, cache) ==
    {f \in cache : role \in DOMAIN ArchRoleDir[arch]
                   /\ StartsWith(f.dir, ArchRoleDir[arch][role])}

FilesForArchRole(arch, role, cache) ==
    {f \in cache : /\ Classify[f].role = role
                   /\ role \in DOMAIN ArchRoleDir[arch]
                   /\ StartsWith(f.dir, ArchRoleDir[arch][role])}

\* The smallest of what the variants lack, the first one of those.
Closest(missing) ==
    missing[CHOOSE v \in DOMAIN missing : \A w \in DOMAIN missing \ {v} :
               \/ Cardinality(missing[v]) < Cardinality(missing[w])
               \/ Cardinality(missing[v]) = Cardinality(missing[w]) /\ v < w]

\* The roles the first satisfied variant, or else the closest one, still lacks.
CheckArchReadiness(arch, cache) ==
    LET lacking == Closest([v \in DOMAIN ArchRequiredRoles[arch] |->
                      {r \in ArchRequiredRoles[arch][v] :
                          FilesForArchRole(arch, r, cache) = {}}])
    IN  [ready |-> lacking = {}, missingRoles |-> lacking]

\* Mutant: only the folder of each architecture is looked at.
GetArchesForFileOwn(f) ==
    {a \in Architecture : Inside(f.dir, <<a>>)}

GetArchesForFile(f) ==
    {a \in Architecture : \E r \in DOMAIN ArchRoleDir[a] : Inside(f.dir, ArchRoleDir[a][r])}

\* DownloaderService.resolveDestination, and the file a download leaves.
Destination(request) ==
    [dir  |-> IF request.shared # <<>> THEN request.shared
              ELSE IF request.role \in DOMAIN ArchRoleDir[request.arch]
                   THEN ArchRoleDir[request.arch][request.role]
                   ELSE <<request.arch>>,
     name |-> request.name]
=============================================================================
