---------------------------- MODULE JobFormProofs ----------------------------
(***************************************************************************)
(* The tables of ModelRules, TrainConfig and JobForm agree, for any files, *)
(* any patterns that match them and any requests: what is ready can be     *)
(* trained, what is accepted fits, what a deletion costs is said.          *)
(***************************************************************************)
EXTENDS JobForm, FiniteSetTheorems, WellFoundedInduction, TLAPS

-----------------------------------------------------------------------------
(* The rules of classification *)

\* The role of the base model of an architecture.
BaseRole(arch) == IF arch \in {"sd1", "sd2", "sdxl"} THEN "checkpoint" ELSE "dit"

\* The nine architectures of the tables.
LEMMA ArchitectureIs ==
    Architecture = {"sd1", "sd2", "sdxl", "flux", "chroma", "sd3", "anima", "lumina",
                    "hunyuan"}
BY DEF Architecture, ArchRoles

\* What the table of rules is like: the rules that know an architecture and a
\* role are a part of those that know a role; the last ones know none; a base
\* model is always of a known architecture.
LEMMA RuleTable ==
    /\ DOMAIN ClassifyRules = 1..37
    /\ \A n \in 1..37 :
        /\ n <= 30 <=> ClassifyRules[n][3] # Unknown
        /\ ClassifyRules[n][3] \notin {"text_encoder", "unet"}
        /\ ClassifyRules[n][3] \in MainRoles =>
              /\ ClassifyRules[n][2] \in Architecture
              /\ ClassifyRules[n][3] = BaseRole(ClassifyRules[n][2])
<1>1. DOMAIN ClassifyRules = 1..37
  BY DEF ClassifyRules
<1>2. ASSUME NEW n \in 1..37
      PROVE  /\ n <= 30 <=> ClassifyRules[n][3] # Unknown
             /\ ClassifyRules[n][3] \notin {"text_encoder", "unet"}
             /\ ClassifyRules[n][3] \in MainRoles =>
                   /\ ClassifyRules[n][2] \in Architecture
                   /\ ClassifyRules[n][3] = BaseRole(ClassifyRules[n][2])
  BY ArchitectureIs DEF ClassifyRules, Unknown, MainRoles, BaseRole
<1> QED
  BY <1>1, <1>2

\* A set of rules has a first one.
LEMMA FirstOf ==
    ASSUME NEW S \in SUBSET (1..37), S # {}
    PROVE  \E n \in S : \A m \in S : n <= m
<1> DEFINE upTo(n) == {m \in S : m <= n}
           below == {upTo(n) : n \in S}
<1>1. IsFiniteSet(S)
  BY FS_Interval, FS_Subset, 1 \in Int, 37 \in Int
<1>2. below \in SUBSET FiniteSubsetsOf(S) /\ below # {}
  <2>1. \A n \in S : upTo(n) \in SUBSET S
    OBVIOUS
  <2> HIDE DEF upTo
  <2>2. \A n \in S : IsFiniteSet(upTo(n))
    BY <1>1, <2>1, FS_Subset
  <2> QED
    BY <2>1, <2>2 DEF FiniteSubsetsOf
<1>3. PICK low \in below : \A T \in below : ~(<<T, low>> \in StrictSubsetOrdering(S))
  <2> HIDE DEF below
  <2> QED
    BY <1>2, FS_StrictSubsetOrderingWellFounded, WFMin
<1>4. PICK n \in S : low = upTo(n)
  BY <1>3
<1>5. ASSUME NEW m \in S, m < n PROVE FALSE
  <2>1. upTo(m) \subseteq upTo(n) /\ n \in upTo(n) /\ n \notin upTo(m)
    <3>1. n \in Int /\ m \in Int /\ m < n
      BY <1>5
    <3>2. \A x \in S : x <= m => x <= n
      BY <3>1
    <3>3. n <= n /\ ~(n <= m)
      BY <3>1
    <3> QED
      BY <3>2, <3>3, Zenon
  <2>2. upTo(m) \in below
    OBVIOUS
  <2>3. <<upTo(m), low>> \in StrictSubsetOrdering(S)
    BY <1>4, <2>1 DEF StrictSubsetOrdering
  <2> QED
    BY <1>3, <2>2, <2>3
<1>6. \A m \in S : n <= m
  BY <1>5
<1> QED
  BY <1>6

\* The rules that match a file and know its architecture, or its role.
Known(f, column) == {n \in 1..37 : /\ ClassifyRules[n][1] \in Hits[f]
                                   /\ ClassifyRules[n][column] # Unknown}

\* What is said of a file is said by the first rule that knows.
LEMMA FirstKnownIs ==
    ASSUME NEW f, NEW column
    PROVE  \/ Known(f, column) = {} /\ FirstKnown(f, column) = Unknown
           \/ \E n \in Known(f, column) :
                 /\ \A m \in Known(f, column) : n <= m
                 /\ FirstKnown(f, column) = ClassifyRules[n][column]
<1> DEFINE S == Known(f, column)
           n == CHOOSE n \in S : \A m \in S : n <= m
<1>1. FirstKnown(f, column) = IF S = {} THEN Unknown ELSE ClassifyRules[n][column]
  BY RuleTable DEF FirstKnown, Known
<1>2. S \in SUBSET (1..37)
  BY DEF Known
<1> HIDE DEF S
<1>3. S # {} => n \in S /\ \A m \in S : n <= m
  BY <1>2, FirstOf
<1> QED
  BY <1>1, <1>3 DEF S

\* A base model is of a known architecture and has the role of its base model: the
\* rule that gives the role is the first one that knows the architecture.
LEMMA MainRoleIs ==
    ASSUME NEW f \in File, Classify[f].role \in MainRoles
    PROVE  /\ Classify[f].arch \in Architecture
           /\ Classify[f].role = BaseRole(Classify[f].arch)
<1>1. Classify[f].arch = FirstKnown(f, 2) /\ Classify[f].role = FirstKnown(f, 3)
  BY DEF Classify
<1>2. PICK n \in Known(f, 3) : /\ \A m \in Known(f, 3) : n <= m
                               /\ FirstKnown(f, 3) = ClassifyRules[n][3]
  BY <1>1, FirstKnownIs DEF MainRoles, Unknown
<1>3. n \in 1..37 /\ n <= 30 /\ n \in Known(f, 2)
  BY <1>1, <1>2, RuleTable, ArchitectureIs DEF Known, Unknown
<1>4. PICK k \in Known(f, 2) : /\ \A m \in Known(f, 2) : k <= m
                               /\ FirstKnown(f, 2) = ClassifyRules[k][2]
  BY <1>3, FirstKnownIs
<1>5. k \in 1..37 /\ k <= n
  BY <1>3, <1>4 DEF Known
<1>6. k \in Known(f, 3)
  BY <1>3, <1>4, <1>5, RuleTable DEF Known
<1>7. k = n
  BY <1>2, <1>3, <1>5, <1>6
<1> QED
  BY <1>1, <1>2, <1>3, <1>4, <1>7, RuleTable

\* No rule gives the roles text_encoder and unet.
LEMMA RolesGiven ==
    ASSUME NEW f \in File PROVE Classify[f].role \notin {"text_encoder", "unet"}
<1>1. Classify[f].role = FirstKnown(f, 3)
  BY DEF Classify
<1> QED
  BY <1>1, FirstKnownIs, RuleTable DEF Known, Unknown

-----------------------------------------------------------------------------
(* Readiness *)

\* The roles the variants are made of.
Roles == {"checkpoint", "unet", "dit", "vae", "ae", "clip_l", "clip_g", "t5xxl", "qwen3",
          "gemma2", "qwen2_5_vl", "byt5", "text_encoder"}

\* The roles a variant still lacks.
Missing(arch, v, files) ==
    {r \in ArchRequiredRoles[arch][v] : FilesForArchRole(arch, r, files) = {}}

\* Five things are finitely many.
LEMMA FiveAreFinite ==
    ASSUME NEW a, NEW b, NEW c, NEW d, NEW e PROVE IsFiniteSet({a, b, c, d, e})
<1>1. IsFiniteSet({a}) /\ IsFiniteSet({b}) /\ IsFiniteSet({c}) /\ IsFiniteSet({d})
        /\ IsFiniteSet({e})
  BY FS_Singleton
<1>2. IsFiniteSet({a} \cup {b}) /\ IsFiniteSet({c} \cup {d})
  BY <1>1, FS_Union
<1>3. IsFiniteSet((({a} \cup {b}) \cup ({c} \cup {d})) \cup {e})
  BY <1>1, <1>2, FS_Union
<1>4. {a, b, c, d, e} = (({a} \cup {b}) \cup ({c} \cup {d})) \cup {e}
  OBVIOUS
<1> QED
  BY <1>3, <1>4

\* An architecture has one variant or two, of finitely many roles.
LEMMA VariantsAre ==
    ASSUME NEW arch \in Architecture
    PROVE  /\ DOMAIN ArchRequiredRoles[arch] \in {1..1, 1..2}
           /\ \A v \in DOMAIN ArchRequiredRoles[arch] :
                 IsFiniteSet(ArchRequiredRoles[arch][v])
<1>1. DOMAIN ArchRequiredRoles[arch] \in {1..1, 1..2}
  BY ArchitectureIs DEF ArchRequiredRoles
<1>2. ASSUME NEW v \in DOMAIN ArchRequiredRoles[arch]
      PROVE  ArchRequiredRoles[arch][v] \subseteq Roles
  BY ArchitectureIs DEF ArchRequiredRoles, Roles
<1>3. IsFiniteSet(Roles)
  <2>1. IsFiniteSet({"checkpoint", "unet", "dit", "vae", "ae"})
    BY FiveAreFinite
  <2>2. IsFiniteSet({"clip_l", "clip_g", "t5xxl", "qwen3", "gemma2"})
    BY FiveAreFinite
  <2>3. IsFiniteSet({"qwen2_5_vl", "byt5", "text_encoder", "ae", "vae"})
    BY FiveAreFinite
  <2>4. Roles = ({"checkpoint", "unet", "dit", "vae", "ae"}
                    \cup {"clip_l", "clip_g", "t5xxl", "qwen3", "gemma2"})
                    \cup {"qwen2_5_vl", "byt5", "text_encoder", "ae", "vae"}
    BY DEF Roles
  <2> QED
    BY <2>1, <2>2, <2>3, <2>4, FS_Union
<1> QED
  BY <1>1, <1>2, <1>3, FS_Subset

\* An architecture is ready when a variant lacks no role.
LEMMA ReadyIs ==
    ASSUME NEW arch \in Architecture, NEW files
    PROVE  CheckArchReadiness(arch, files).ready <=>
              \E v \in DOMAIN ArchRequiredRoles[arch] : Missing(arch, v, files) = {}
<1> DEFINE variants == DOMAIN ArchRequiredRoles[arch]
           missing == [v \in variants |-> Missing(arch, v, files)]
           lacks(v) == Cardinality(missing[v])
           Best(v) == \A w \in variants \ {v} : \/ lacks(v) < lacks(w)
                                                \/ lacks(v) = lacks(w) /\ v < w
           best == CHOOSE v \in variants : Best(v)
<1>1. \A v \in variants : /\ missing[v] = Missing(arch, v, files)
                          /\ lacks(v) \in Nat
                          /\ lacks(v) = 0 <=> Missing(arch, v, files) = {}
  <2> SUFFICES ASSUME NEW v \in variants PROVE IsFiniteSet(Missing(arch, v, files))
    BY FS_CardinalityType, FS_EmptySet
  <2> QED
    BY VariantsAre, FS_Subset DEF Missing
<1>2. CheckArchReadiness(arch, files).ready <=> missing[best] = {}
  BY DEF CheckArchReadiness, Closest, Missing
<1>3. \E v \in variants : Best(v)
  <2> HIDE DEF lacks, missing
  <2>1. CASE variants = 1..1
    BY <1>1, <2>1
  <2>2. CASE variants = 1..2
    <3>1. 1 \in variants /\ 2 \in variants /\ \A w \in variants : w = 1 \/ w = 2
      BY <2>2
    <3>2. CASE lacks(1) <= lacks(2)
      BY <1>1, <3>1, <3>2
    <3>3. CASE lacks(2) < lacks(1)
      BY <1>1, <3>1, <3>3
    <3> QED
      BY <1>1, <3>1, <3>2, <3>3
  <2> QED
    BY VariantsAre, <2>1, <2>2
<1> HIDE DEF lacks, best, missing
<1>4. best \in variants /\ Best(best)
  BY <1>3 DEF best
<1>5. ASSUME NEW v \in variants, Missing(arch, v, files) = {} PROVE Missing(arch, best, files) = {}
  <2>1. lacks(v) = 0 /\ lacks(best) \in Nat
    BY <1>1, <1>4, <1>5
  <2>2. lacks(best) < lacks(v) \/ lacks(best) = lacks(v)
    BY <1>4, <1>5
  <2> QED
    BY <1>1, <1>4, <2>1, <2>2
<1> QED
  BY <1>1, <1>2, <1>4, <1>5

-----------------------------------------------------------------------------
(* Deletions *)

\* What an architecture loses was in one of its directories: by its whole path, so
\* that the warnings name the architecture, or by the beginning of a folder's name.
LEMMA LossNamed ==
    ASSUME NEW own, NEW b \in Architecture \ {own}, NEW before, NEW after,
           CheckArchReadiness(b, before).ready, ~CheckArchReadiness(b, after).ready
    PROVE  \/ b \in SharedWarnings(before \ after, own)
           \/ \E f \in before \ after : OnlyByPrefix(f, b)
<1>1. PICK v \in DOMAIN ArchRequiredRoles[b] : Missing(b, v, before) = {}
  BY ReadyIs
<1>2. Missing(b, v, after) # {}
  BY ReadyIs
<1>3. PICK r \in ArchRequiredRoles[b][v] : FilesForArchRole(b, r, after) = {}
  BY <1>2 DEF Missing
<1>4. PICK f \in before : /\ Classify[f].role = r /\ r \in DOMAIN ArchRoleDir[b]
                          /\ StartsWith(f.dir, ArchRoleDir[b][r])
  <2>1. FilesForArchRole(b, r, before) # {}
    BY <1>1 DEF Missing
  <2> QED
    BY <2>1 DEF FilesForArchRole
<1>5. f \in before \ after
  BY <1>3, <1>4 DEF FilesForArchRole
<1>6. CASE Inside(f.dir, ArchRoleDir[b][r])
  <2>1. b \in GetArchesForFile(f) \ {own}
    BY <1>4, <1>6 DEF GetArchesForFile
  <2> QED
    BY <1>5, <2>1 DEF SharedWarnings
<1>7. CASE ~Inside(f.dir, ArchRoleDir[b][r])
  BY <1>4, <1>5, <1>7 DEF OnlyByPrefix
<1> QED
  BY <1>6, <1>7

\* A deletion that costs another architecture its readiness names it, whatever the
\* files, the patterns and the folders are: the search for other users of a file
\* looks at all the directories that readiness looks at (models.service.ts
\* checkArchReadiness, getArchesForFile, deleteOne, deleteArch).
THEOREM LossesAreWarned == SetupSpec => LossIsWarned
<1> DEFINE lost == cache \ cache'
           Named(own, b) == \/ b \in SharedWarnings(lost, own)
                            \/ \E f \in lost : OnlyByPrefix(f, b)
           Warned == lost # {} =>
                        \A b \in Arches :
                           /\ CheckArchReadiness(b, cache).ready
                           /\ ~CheckArchReadiness(b, cache').ready
                           => \A own \in (Arches \cup {Unknown}) \ {b} :
                                 lost \subseteq ListOf(own) => Named(own, b)
<1>1. ASSUME NEW b \in Arches, NEW own \in (Arches \cup {Unknown}) \ {b},
             CheckArchReadiness(b, cache).ready, ~CheckArchReadiness(b, cache').ready
      PROVE  Named(own, b)
  BY <1>1, ArchesAssumption, LossNamed
<1>2. Warned
  <2> HIDE DEF Named
  <2> QED
    BY <1>1
<1>3. [SetupNext]_setupVars => [Warned]_setupVars
  BY <1>2
<1> QED
  BY <1>3, PTL DEF SetupSpec, LossIsWarned

-----------------------------------------------------------------------------
(* What the form holds *)

Main == "pretrained_model_name_or_path"

\* A file a list offers for a field: of the field's role, the base model of the
\* chosen architecture.
Fits(arch, p, f) ==
    /\ f \in File
    /\ p = Main => Classify[f].role \in MainRoles /\ Classify[f].arch = arch
    /\ p = "text_encoder" => Classify[f].role \in {"qwen2_5_vl", "text_encoder"}
    /\ p \notin {Main, "text_encoder"} => Classify[f].role = p

\* The files on disk are known, and a path of the form, whatever became of its
\* file, was offered for the architecture the form is at.
FormInv ==
    /\ cache \subseteq File
    /\ form \in [arch : Architecture, path : [PathField -> File \cup {None}],
                 on : SUBSET Switch]
    /\ \A p \in PathField : form.path[p] # None => Fits(form.arch, p, form.path[p])

\* Every list offers what fits.
LEMMA OfferedFits ==
    ASSUME cache \subseteq File, NEW arch \in Architecture, NEW p \in ShownFields(arch),
           NEW f \in Offered(arch, p)
    PROVE  p \in PathField /\ Fits(arch, p, f)
<1>1. p \in PathField
  BY ArchitectureIs DEF ShownFields, Shown, PathField
<1>2. CASE p = Main
  <2>1. f \in File /\ Classify[f].role \in MainRoles
          /\ (Classify[f].arch = arch \/ Classify[f].arch = Unknown)
    BY <1>2 DEF Offered, MainModels, ByRole, Main
  <2>2. Classify[f].arch # Unknown
    BY <2>1, MainRoleIs, ArchitectureIs DEF Unknown
  <2> QED
    BY <1>1, <1>2, <2>1, <2>2 DEF Fits, Main
<1>3. CASE p \in {"clip_l", "clip_g", "t5xxl", "ae"}
  BY <1>1, <1>3 DEF Offered, ByRole, Fits, Main
<1>4. \A roles, a : ByRoleForArch(a, roles) \subseteq ByRole(roles)
  BY DEF ByRoleForArch
<1>5. CASE p = "text_encoder"
  <2>1. f \in ByRole({"qwen2_5_vl", "text_encoder"})
    BY <1>4, <1>5 DEF Offered
  <2> QED
    BY <1>1, <1>5, <2>1 DEF ByRole, Fits, Main
<1>6. CASE p \in {"vae", "qwen3", "gemma2", "byt5"}
  <2>1. f \in ByRole({p})
    BY <1>4, <1>6 DEF Offered
  <2> QED
    BY <1>1, <1>6, <2>1 DEF ByRole, Fits, Main
<1> QED
  BY <1>1, <1>2, <1>3, <1>5, <1>6 DEF PathField, Main

\* The switches stay switches.
LEMMA OverriddenIs ==
    ASSUME FormInv, NEW switches, DOMAIN switches = Switch
    PROVE  Overridden(switches) \in SUBSET Switch
BY DEF FormInv, Overridden, On

\* Every system preset is about the two switches.
LEMMA PresetDomain == \A arch \in Architecture : DOMAIN SystemPreset[arch] = Switch
<1>1. /\ DOMAIN FluxTraining = Switch /\ DOMAIN ChromaTraining = Switch
      /\ DOMAIN SdxlTraining = Switch /\ DOMAIN Sd1Training = Switch
      /\ DOMAIN Sd2Training = Switch
  BY DEF FluxTraining, ChromaTraining, SdxlTraining, Sd1Training, Sd2Training, FluxBase,
         ModernBase, SdBase
<1>2. /\ DOMAIN Sd3Training = Switch /\ DOMAIN AnimaTraining = Switch
      /\ DOMAIN LuminaTraining = Switch /\ DOMAIN HunyuanTraining = Switch
  BY DEF Sd3Training, AnimaTraining, LuminaTraining, HunyuanTraining, Frozen, ModernBase
<1> QED
  BY <1>1, <1>2, ArchitectureIs DEF SystemPreset

\* The form as it opens.
LEMMA DefaultFormIs ==
    /\ DefaultForm \in [arch : Architecture, path : [PathField -> File \cup {None}],
                        on : SUBSET Switch]
    /\ \A p \in PathField : DefaultForm.path[p] = None
<1>1. On(ArchDefaults("flux")) \subseteq Switch
  BY DEF On, ArchDefaults, Switch
<1>2. NoPaths \in [PathField -> File \cup {None}] /\ \A p \in PathField : NoPaths[p] = None
  BY DEF NoPaths
<1> QED
  BY <1>1, <1>2, ArchitectureIs DEF DefaultForm

\* Files come and go, the form stays.
LEMMA FilesInv ==
    ASSUME FormInv, UNCHANGED form,
           \/ \E q \in Request : Download(q)
           \/ \E f \in ByHand : CopyIn(f)
           \/ \E f \in File : DeleteOne(f)
           \/ \E a \in Arches : DeleteArch(a)
    PROVE  FormInv'
<1>1. cache' \subseteq File
  <2>1. CASE \E q \in Request : Download(q)
    BY <2>1, RequestAssumption DEF Download, FormInv
  <2>2. CASE \E f \in ByHand : CopyIn(f)
    BY <2>2, FilesAssumption DEF CopyIn, FormInv
  <2>3. CASE \E f \in File : DeleteOne(f)
    BY <2>3 DEF DeleteOne, FormInv
  <2>4. CASE \E a \in Arches : DeleteArch(a)
    BY <2>4 DEF DeleteArch, FormInv
  <2> QED
    BY <2>1, <2>2, <2>3, <2>4
<1> QED
  BY <1>1 DEF FormInv, Fits

\* A path is chosen from its list, or cleared.
LEMMA SelectPathInv ==
    ASSUME FormInv, NEW p \in ShownFields(form.arch),
           NEW x \in Offered(form.arch, p) \cup {None}, SelectPath(p, x)
    PROVE  FormInv'
<1>1. form.arch \in Architecture /\ cache \subseteq File
  BY DEF FormInv
<1>2. x # None => p \in PathField /\ Fits(form.arch, p, x)
  BY <1>1, OfferedFits
<1>3. p \in PathField
  BY <1>1, ArchitectureIs DEF ShownFields, Shown, PathField
<1>4. /\ form'.arch = form.arch /\ form'.on = form.on
      /\ form' \in [arch : Architecture, path : [PathField -> File \cup {None}],
                    on : SUBSET Switch]
      /\ \A o \in PathField : form'.path[o] = IF o = p THEN x ELSE form.path[o]
  BY <1>2, <1>3 DEF SelectPath, FormInv, Fits
<1>5. ASSUME NEW o \in PathField, form'.path[o] # None
      PROVE  Fits(form'.arch, o, form'.path[o])
  BY <1>2, <1>4, <1>5 DEF FormInv
<1> QED
  BY <1>4, <1>5 DEF FormInv, Fits, SelectPath

\* Switches and presets leave the paths alone.
LEMMA SwitchesInv ==
    ASSUME FormInv, NEW on \in SUBSET Switch, form' = [form EXCEPT !.on = on],
           UNCHANGED cache
    PROVE  FormInv'
<1>1. /\ form'.arch = form.arch /\ form'.path = form.path
      /\ form' \in [arch : Architecture, path : [PathField -> File \cup {None}],
                    on : SUBSET Switch]
  BY DEF FormInv
<1> QED
  BY <1>1 DEF FormInv, Fits

\* An architecture is chosen: no path of another one is left.
LEMMA HandleArchChangeInv ==
    ASSUME FormInv, NEW a \in Arches, HandleArchChange(a)
    PROVE  FormInv'
<1>1. DOMAIN ArchDefaults(a) = Switch
  BY DEF ArchDefaults, Switch
<1>2. Overridden(ArchDefaults(a)) \in SUBSET Switch
  BY <1>1, OverriddenIs
<1>3. /\ form' \in [arch : Architecture, path : [PathField -> File \cup {None}],
                    on : SUBSET Switch]
      /\ \A p \in PathField : form'.path[p] = None
  BY <1>2, ArchesAssumption DEF HandleArchChange, NoPaths
<1> QED
  BY <1>3 DEF FormInv, Fits, HandleArchChange

-----------------------------------------------------------------------------
(* What is accepted *)

\* What AcceptedFitsArch says of a configuration.
FitsArch(c) ==
    LET used == {p \in PathField \ {Main} : c.path[p] # None}
        main == Classify[c.path[Main]]
        roles == {main.role} \cup {Classify[c.path[p]].role : p \in used}
    IN  /\ main.arch \in {c.arch, Unknown}
        /\ roles \subseteq ArchRoles[c.arch]
        /\ \A p \in used : p = Classify[c.path[p]].role \/ p = "text_encoder"
        /\ c.arch # "sd3" =>
               \E v \in DOMAIN ArchRequiredRoles[c.arch] :
                  ArchRequiredRoles[c.arch][v] \subseteq roles

\* The paths a form sends.
LEMMA SentIs ==
    ASSUME NEW f, NEW arch \in Architecture, f.arch = arch
    PROVE  LET c == BuildTrainConfig(f) IN
           /\ c.arch = arch
           /\ \A p \in PathField :
                 c.path[p] = IF p \in ShownFields(arch) THEN f.path[p] ELSE None
BY DEF BuildTrainConfig

\* A field that is shown is of a role that the architecture uses.
LEMMA ShownIsUsed ==
    ASSUME NEW arch \in Architecture, NEW p \in ShownFields(arch) \ {Main, "text_encoder"}
    PROVE  p \in ArchRoles[arch]
BY ArchitectureIs DEF ShownFields, Shown, ArchRoles, Main

\* The paths validation requires are those of the roles of the first variant,
\* but for SD3.
LEMMA RequiredFill ==
    ASSUME NEW arch \in Architecture \ {"sd3"}
    PROVE  /\ 1 \in DOMAIN ArchRequiredRoles[arch]
           /\ \A r \in ArchRequiredRoles[arch][1] :
                 \/ r = BaseRole(arch)
                 \/ r \in RequiredPaths[arch] /\ r \notin {Main, "text_encoder"}
                 \/ r = "qwen2_5_vl" /\ "text_encoder" \in RequiredPaths[arch]
           /\ RequiredPaths[arch] \subseteq PathField
BY ArchitectureIs DEF ArchRequiredRoles, RequiredPaths, BaseRole, Main, PathField

\* What create() accepts from the form fits.
LEMMA AcceptedFits ==
    ASSUME FormInv, form.path[Main] # None, Accepts(BuildTrainConfig(form))
    PROVE  FitsArch(BuildTrainConfig(form))
<1> DEFINE c == BuildTrainConfig(form)
           arch == form.arch
           used == {p \in PathField \ {Main} : c.path[p] # None}
           role(p) == Classify[c.path[p]].role
<1>1. /\ arch \in Architecture /\ c.arch = arch /\ Main \in ShownFields(arch)
      /\ Main \in PathField
      /\ \A p \in PathField :
            c.path[p] = IF p \in ShownFields(arch) THEN form.path[p] ELSE None
  <2>1. arch \in Architecture
    BY DEF FormInv
  <2> QED
    BY <2>1, SentIs DEF ShownFields, Main, PathField
<1> HIDE DEF c
<1>2. Classify[c.path[Main]].arch = arch /\ role(Main) = BaseRole(arch)
  <2>1. Fits(arch, Main, c.path[Main])
    BY <1>1 DEF FormInv
  <2> QED
    BY <2>1, MainRoleIs DEF Fits
<1>3. ASSUME NEW p \in used
      PROVE  /\ p \in ShownFields(arch) \ {Main} /\ Fits(arch, p, c.path[p])
             /\ p = "text_encoder" => role(p) = "qwen2_5_vl"
             /\ p # "text_encoder" => role(p) = p
  <2>1. p \in PathField /\ p # Main /\ c.path[p] # None
    OBVIOUS
  <2>2. p \in ShownFields(arch) /\ c.path[p] = form.path[p]
    BY <1>1, <2>1
  <2>3. Fits(arch, p, c.path[p])
    BY <2>1, <2>2 DEF FormInv
  <2> QED
    BY <2>1, <2>2, <2>3, RolesGiven DEF Fits
<1>4. BaseRole(arch) \in ArchRoles[arch]
        /\ ("text_encoder" \in ShownFields(arch) => "qwen2_5_vl" \in ArchRoles[arch])
  BY <1>1, ArchitectureIs DEF BaseRole, ArchRoles, ShownFields, Shown
<1>5. \A p \in used : role(p) \in ArchRoles[arch]
  BY <1>1, <1>3, <1>4, ShownIsUsed
<1>6. \A p \in RequiredPaths[arch] : c.path[p] # None
  BY <1>1 DEF Accepts, ValidateTrainConfig, ValidatePaths, c
<1>7. ASSUME arch # "sd3", NEW r \in ArchRequiredRoles[arch][1]
      PROVE  r \in {role(Main)} \cup {role(p) : p \in used}
  <2>1. CASE r = BaseRole(arch)
    BY <1>2, <2>1
  <2>2. CASE r \in RequiredPaths[arch] /\ r \notin {Main, "text_encoder"}
    <3>1. r \in used
      BY <1>1, <1>6, <1>7, <2>2, RequiredFill
    <3> QED
      BY <1>3, <2>2, <3>1
  <2>3. CASE r = "qwen2_5_vl" /\ "text_encoder" \in RequiredPaths[arch]
    <3>1. "text_encoder" \in used
      BY <1>1, <1>6, <1>7, <2>3, RequiredFill DEF Main
    <3> QED
      BY <1>3, <2>3, <3>1
  <2> QED
    BY <1>1, <1>7, <2>1, <2>2, <2>3, RequiredFill
<1>8. arch # "sd3" => \E v \in DOMAIN ArchRequiredRoles[arch] :
                         ArchRequiredRoles[arch][v] \subseteq {role(Main)} \cup {role(p) : p \in used}
  BY <1>1, <1>7, RequiredFill
<1> QED
  BY <1>1, <1>2, <1>3, <1>4, <1>5, <1>8 DEF FitsArch, c

\* The property, said of the last job.
LEMMA FitsIsSaid == AcceptedFitsArch <=> (job # None => FitsArch(job))
BY DEF AcceptedFitsArch, FitsArch, Main

\* The form is submitted: it stays, or what was accepted fits.
LEMMA SubmitInv ==
    ASSUME FormInv, HandleSubmit
    PROVE  FormInv' /\ AcceptedFitsArch'
<1>1. FormInv'
  BY DefaultFormIs DEF FormInv, HandleSubmit, Fits
<1>2. form.path[Main] # None
  BY DEF HandleSubmit, Main
<1>3. CASE Accepts(BuildTrainConfig(form))
  <2>1. job' = BuildTrainConfig(form)
    BY <1>3 DEF HandleSubmit
  <2>2. FitsArch(job')
    BY <1>2, <1>3, <2>1, AcceptedFits
  <2> QED
    BY <1>1, <2>2, FitsIsSaid DEF AcceptedFitsArch, FitsArch, Main
<1>4. CASE ~Accepts(BuildTrainConfig(form))
  BY <1>1, <1>4 DEF HandleSubmit, AcceptedFitsArch
<1> QED
  BY <1>3, <1>4

\* The form as it opens, and no job.
LEMMA SetupInitInv == SetupInit => FormInv /\ AcceptedFitsArch
BY DefaultFormIs DEF SetupInit, FormInv, AcceptedFitsArch

\* Every step keeps both.
LEMMA SetupNextInv ==
    FormInv /\ AcceptedFitsArch /\ [SetupNext]_setupVars => FormInv' /\ AcceptedFitsArch'
<1> SUFFICES ASSUME FormInv, AcceptedFitsArch, [SetupNext]_setupVars
             PROVE  FormInv' /\ AcceptedFitsArch'
  OBVIOUS
<1>1. job' = None => AcceptedFitsArch'
  BY DEF AcceptedFitsArch
<1>2. CASE \/ \E q \in Request : Download(q)
           \/ \E f \in ByHand : CopyIn(f)
           \/ \E f \in File : DeleteOne(f)
           \/ \E a \in Arches : DeleteArch(a)
  <2>1. UNCHANGED form /\ job' = None
    BY <1>2 DEF Download, CopyIn, DeleteOne, DeleteArch
  <2> QED
    BY <1>1, <1>2, <2>1, FilesInv
<1>3. CASE \E p \in ShownFields(form.arch) :
              \E x \in Offered(form.arch, p) \cup {None} : SelectPath(p, x)
  BY <1>1, <1>3, SelectPathInv DEF SelectPath
<1>4. CASE \E s \in Switch : Toggle(s)
  <2>1. PICK s \in Switch : Toggle(s)
    BY <1>4
  <2>2. SymDiff({s}, form.on) \in SUBSET Switch
    BY DEF FormInv, SymDiff
  <2> QED
    BY <1>1, <2>1, <2>2, SwitchesInv DEF Toggle
<1>5. CASE \E a \in Arches : HandleArchChange(a)
  BY <1>1, <1>5, HandleArchChangeInv DEF HandleArchChange
<1>6. CASE \E preset \in UserPreset \cup {SystemPreset[form.arch]} : ApplyPreset(preset)
  <2>1. PICK preset \in UserPreset \cup {SystemPreset[form.arch]} : ApplyPreset(preset)
    BY <1>6
  <2>2. DOMAIN SystemPreset[form.arch] = Switch
    BY PresetDomain DEF FormInv
  <2>3. \A p \in UserPreset : DOMAIN p = Switch
    BY PresetAssumption DEF Switch
  <2>4. Overridden(preset) \in SUBSET Switch
    BY <2>2, <2>3, OverriddenIs
  <2> QED
    BY <1>1, <2>1, <2>4, SwitchesInv DEF ApplyPreset
<1>7. CASE HandleSubmit
  BY <1>7, SubmitInv
<1>8. CASE UNCHANGED setupVars
  BY <1>8 DEF setupVars, FormInv, Fits, AcceptedFitsArch
<1> QED
  BY <1>2, <1>3, <1>4, <1>5, <1>6, <1>7, <1>8 DEF SetupNext

\* From the first state on.
LEMMA FormInvariance == SetupSpec => [](FormInv /\ AcceptedFitsArch)
<1> QED
  BY SetupInitInv, SetupNextInv, PTL DEF SetupSpec

\* What create() accepts from the form trains an architecture with files of that
\* architecture, for any files, patterns, downloads, deletions and presets in any
\* order (NewJobPage handleArchChange, buildTrainConfig; validator.ts).
THEOREM AcceptedFit == SetupSpec => []AcceptedFitsArch
BY FormInvariance, PTL

-----------------------------------------------------------------------------
(* What is ready can be trained *)

\* An architecture has a directory for each role it uses.
LEMMA RoleDirs ==
    ASSUME NEW arch \in Architecture
    PROVE  DOMAIN ArchRoleDir[arch] = ArchRoles[arch]
<1>1. CASE arch = "sd1"
  BY <1>1 DEF ArchRoleDir, ArchRoles
<1>2. CASE arch = "sd2"
  BY <1>2 DEF ArchRoleDir, ArchRoles
<1>3. CASE arch = "sdxl"
  BY <1>3 DEF ArchRoleDir, ArchRoles
<1>4. CASE arch = "flux"
  BY <1>4 DEF ArchRoleDir, ArchRoles
<1>5. CASE arch = "chroma"
  BY <1>5 DEF ArchRoleDir, ArchRoles
<1>6. CASE arch = "sd3"
  BY <1>6 DEF ArchRoleDir, ArchRoles
<1>7. CASE arch = "anima"
  BY <1>7 DEF ArchRoleDir, ArchRoles
<1>8. CASE arch = "lumina"
  BY <1>8 DEF ArchRoleDir, ArchRoles
<1>9. CASE arch = "hunyuan"
  BY <1>9 DEF ArchRoleDir, ArchRoles
<1> QED
  BY <1>1, <1>2, <1>3, <1>4, <1>5, <1>6, <1>7, <1>8, <1>9, ArchitectureIs

\* The role the property asks for is that of the base model.
LEMMA BaseIs ==
    ASSUME NEW arch \in Architecture
    PROVE  (CHOOSE r \in {"dit", "checkpoint"} : r \in DOMAIN ArchRoleDir[arch]) = BaseRole(arch)
<1>1. \A r \in {"dit", "checkpoint"} : r \in DOMAIN ArchRoleDir[arch] <=> r = BaseRole(arch)
  BY ArchitectureIs, RoleDirs DEF ArchRoles, BaseRole
<1> QED
  BY <1>1 DEF BaseRole

\* Any variant but the first needs a role that no file has.
LEMMA FirstVariant ==
    ASSUME NEW arch \in Architecture, NEW v \in DOMAIN ArchRequiredRoles[arch], v # 1
    PROVE  "unet" \in ArchRequiredRoles[arch][v]
BY ArchitectureIs DEF ArchRequiredRoles

\* A ready architecture has a file for each role of its first variant.
LEMMA ReadyHas ==
    ASSUME cache \subseteq File, NEW arch \in Architecture,
           CheckArchReadiness(arch, cache).ready, NEW r \in ArchRequiredRoles[arch][1]
    PROVE  \E f \in cache : /\ Classify[f].role = r
                            /\ StartsWith(f.dir, ArchRoleDir[arch][r])
<1>1. PICK v \in DOMAIN ArchRequiredRoles[arch] : Missing(arch, v, cache) = {}
  BY ReadyIs
<1>2. v = 1
  <2> SUFFICES ASSUME v # 1 PROVE FALSE
    OBVIOUS
  <2>1. FilesForArchRole(arch, "unet", cache) # {}
    BY <1>1, FirstVariant DEF Missing
  <2> QED
    BY <2>1, RolesGiven DEF FilesForArchRole
<1>3. FilesForArchRole(arch, r, cache) # {}
  BY <1>1, <1>2 DEF Missing
<1> QED
  BY <1>3 DEF FilesForArchRole

\* A file of the field's role is offered; one of the role of the text encoder too.
LEMMA RoleIsOffered ==
    ASSUME NEW arch \in Architecture, NEW p \in PathField \ {Main}, NEW f \in cache,
           \/ Classify[f].role = p
           \/ Classify[f].role = "qwen2_5_vl" /\ p = "text_encoder"
    PROVE  Offered(arch, p) # {}
<1>1. \A roles, a : ByRole(roles) # {} => ByRoleForArch(a, roles) # {}
  BY DEF ByRoleForArch
<1>2. f \in ByRole({p}) \/ p = "text_encoder"
  BY DEF ByRole
<1>3. p = "text_encoder" => f \in ByRole({"qwen2_5_vl", "text_encoder"})
  BY DEF ByRole
<1>4. CASE p \in {"clip_l", "clip_g", "t5xxl", "ae"}
  BY <1>2, <1>4 DEF Offered, Main
<1>5. CASE p = "text_encoder"
  BY <1>1, <1>3, <1>5 DEF Offered
<1>6. CASE p \in {"vae", "qwen3", "gemma2", "byt5"}
  BY <1>1, <1>2, <1>6 DEF Offered
<1> QED
  BY <1>4, <1>5, <1>6 DEF PathField, Main

\* The fields that must not be empty, and the roles that fill them.
LEMMA NeededShown ==
    ASSUME NEW arch \in Architecture,
           NEW p \in RequiredPaths[arch]
                        \cup IF arch = "sd3" THEN {"clip_l", "clip_g", "t5xxl"} ELSE {}
    PROVE  /\ p \in ShownFields(arch) /\ p \in PathField \ {Main}
           /\ \/ p \in ArchRequiredRoles[arch][1]
              \/ p = "text_encoder" /\ "qwen2_5_vl" \in ArchRequiredRoles[arch][1]
BY ArchitectureIs DEF RequiredPaths, ShownFields, Shown, PathField, Main, ArchRequiredRoles

\* The form filled from the lists of a ready architecture has all it needs.
LEMMA FilledIs ==
    ASSUME FormInv, NEW arch \in Architecture, CheckArchReadiness(arch, cache).ready,
           \A f \in ByRole(MainRoles) :
              StartsWith(f.dir, ArchRoleDir[arch][BaseRole(arch)]) => Classify[f].arch = arch,
           NEW p \in {Main} \cup RequiredPaths[arch]
                        \cup IF arch = "sd3" THEN {"clip_l", "clip_g", "t5xxl"} ELSE {}
    PROVE  p \in PathField /\ BuildTrainConfig(FilledForm(arch)).path[p] # None
<1>1. cache \subseteq File /\ None \notin File
  BY FilesAssumption DEF FormInv
<1>2. p \in PathField /\ p \in ShownFields(arch) /\ Offered(arch, p) # {}
  <2>1. CASE p = Main
    <3>1. BaseRole(arch) \in ArchRequiredRoles[arch][1] /\ BaseRole(arch) \in MainRoles
      BY ArchitectureIs DEF BaseRole, ArchRequiredRoles, MainRoles
    <3>2. PICK f \in cache : /\ Classify[f].role = BaseRole(arch)
                             /\ StartsWith(f.dir, ArchRoleDir[arch][BaseRole(arch)])
      BY <1>1, <3>1, ReadyHas
    <3>3. f \in MainModels(arch)
      BY <3>1, <3>2 DEF MainModels, ByRole
    <3> QED
      BY <2>1, <3>3 DEF Offered, Main, ShownFields, PathField
  <2>2. CASE p # Main
    <3>1. /\ p \in ShownFields(arch) /\ p \in PathField \ {Main}
          /\ \/ p \in ArchRequiredRoles[arch][1]
             \/ p = "text_encoder" /\ "qwen2_5_vl" \in ArchRequiredRoles[arch][1]
      BY <2>2, NeededShown
    <3>2. \E f \in cache : \/ Classify[f].role = p
                           \/ Classify[f].role = "qwen2_5_vl" /\ p = "text_encoder"
      BY <1>1, <3>1, ReadyHas
    <3> QED
      BY <3>1, <3>2, RoleIsOffered
  <2> QED
    BY <2>1, <2>2
<1>3. BuildTrainConfig(FilledForm(arch)).path[p] = CHOOSE f \in Offered(arch, p) : TRUE
  BY <1>2 DEF BuildTrainConfig, FilledForm, AnyOf
<1>4. BuildTrainConfig(FilledForm(arch)).path[p] \in Offered(arch, p)
  BY <1>2, <1>3
<1>5. BuildTrainConfig(FilledForm(arch)).path[p] \in File
  BY <1>1, <1>2, <1>4, OfferedFits DEF Fits
<1> QED
  BY <1>1, <1>2, <1>5

\* The form filled from the lists is accepted.
LEMMA FilledAccepted ==
    ASSUME FormInv, NEW arch \in Architecture, CheckArchReadiness(arch, cache).ready,
           \A f \in ByRole(MainRoles) :
              StartsWith(f.dir, ArchRoleDir[arch][BaseRole(arch)]) => Classify[f].arch = arch
    PROVE  Accepts(BuildTrainConfig(FilledForm(arch)))
<1> DEFINE c == BuildTrainConfig(FilledForm(arch))
<1>1. /\ c.arch = arch /\ c.given = Common /\ c.attn = None
      /\ c.guidance = CASE arch = "chroma" -> "zero" [] arch = "flux" -> "other"
                        [] OTHER -> "unset"
      /\ c.kind = IF arch = "chroma" THEN "chroma" ELSE None
      /\ c.on = {"network_train_unet_only"}
                   \cup If(arch = "sd2", "v2") \cup If(arch = "chroma", "apply_t5_attn_mask")
                   \cup If(arch = "hunyuan", "network_train_unet_only")
  BY DEF BuildTrainConfig, FilledForm
<1>2. \A p \in {Main} \cup RequiredPaths[arch]
                  \cup IF arch = "sd3" THEN {"clip_l", "clip_g", "t5xxl"} ELSE {} :
         c.path[p] # None
  BY FilledIs
<1>3. arch = "chroma" => c.path["clip_l"] = None
  BY SentIs DEF FilledForm, ShownFields, Shown, PathField
<1> HIDE DEF c
<1>4. /\ "network_train_unet_only" \in c.on
      /\ "v2" \in c.on <=> arch = "sd2"
      /\ "apply_t5_attn_mask" \in c.on <=> arch = "chroma"
      /\ \A s \in {"validate", "cache_latents", "fused_backward_pass", "blocks_to_swap"} :
            s \notin c.on
  BY <1>1 DEF If
<1>5. ValidateCommon(c) = {}
  BY <1>1, <1>4 DEF ValidateCommon, If
<1>6. ValidatePaths(c) = {}
  BY <1>1, <1>2 DEF ValidatePaths, Main
<1>7. ValidateCaching(c) = {}
  BY <1>4 DEF ValidateCaching, If
<1>8. ValidateArch(c) = {}
  <2>1. CASE arch \in {"sd1", "sd2", "sdxl", "lumina"}
    BY <1>1, <1>4, <2>1 DEF ValidateArch, If
  <2>2. CASE arch \in {"flux", "hunyuan"}
    BY <1>1, <1>4, <2>2, NoneAssumption DEF ValidateArch, If
  <2>3. CASE arch = "chroma"
    BY <1>1, <1>3, <1>4, <2>3 DEF ValidateArch, If
  <2>4. CASE arch = "anima"
    BY <1>1, <1>4, <2>4, NoneAssumption DEF ValidateArch, If
  <2>5. CASE arch = "sd3"
    <3>1. {p \in {"clip_l", "clip_g", "t5xxl"} : c.path[p] # None}
             = {"clip_l", "clip_g", "t5xxl"}
      BY <1>2, <2>5
    <3>2. Cardinality({"clip_l", "clip_g", "t5xxl"}) = 3
      <4>1. IsFiniteSet({"clip_l"}) /\ Cardinality({"clip_l"}) = 1
        BY FS_Singleton
      <4>2. /\ IsFiniteSet({"clip_l"} \cup {"clip_g"})
            /\ Cardinality({"clip_l"} \cup {"clip_g"}) = 1 + 1
        BY <4>1, FS_AddElement
      <4>3. Cardinality(({"clip_l"} \cup {"clip_g"}) \cup {"t5xxl"}) = 1 + 1 + 1
        <5>1. "t5xxl" \notin {"clip_l"} \cup {"clip_g"}
          OBVIOUS
        <5> QED
          BY <4>2, <5>1, FS_AddElement
      <4>4. ({"clip_l"} \cup {"clip_g"}) \cup {"t5xxl"} = {"clip_l", "clip_g", "t5xxl"}
        OBVIOUS
      <4> QED
        BY <4>3, <4>4
    <3> DEFINE encoders == Cardinality({p \in {"clip_l", "clip_g", "t5xxl"} : c.path[p] # None})
    <3>3. encoders \notin {1, 2}
      BY <3>1, <3>2
    <3>4. ValidateArch(c) = If(encoders \in {1, 2}, "clip_l / clip_g / t5xxl")
      <4> HIDE DEF If
      <4> QED
        BY <1>1, <2>5 DEF ValidateArch
    <3> HIDE DEF encoders
    <3> QED
      BY <3>3, <3>4 DEF If
  <2> QED
    BY <2>1, <2>2, <2>3, <2>4, <2>5, ArchitectureIs
<1> QED
  BY <1>5, <1>6, <1>7, <1>8 DEF Accepts, ValidateTrainConfig, c

\* An architecture reported as ready can be trained from the form, unless a base
\* model of another one lies in its directory: for any files and patterns, after any
\* downloads and deletions (models.service.ts checkArchReadiness, NewJobPage,
\* validator.ts).
THEOREM ReadyTrains == SetupSpec => []ReadyCanTrain
<1>1. FormInv => ReadyCanTrain
  <2> SUFFICES ASSUME FormInv, NEW arch \in Arches, CheckArchReadiness(arch, cache).ready,
                      {f \in ByRole(MainRoles) :
                          /\ Classify[f].arch # arch
                          /\ StartsWith(f.dir, ArchRoleDir[arch][BaseRole(arch)])} = {}
               PROVE  Accepts(BuildTrainConfig(FilledForm(arch)))
    BY ArchesAssumption, BaseIs DEF ReadyCanTrain
  <2>1. \A f \in ByRole(MainRoles) :
           StartsWith(f.dir, ArchRoleDir[arch][BaseRole(arch)]) => Classify[f].arch = arch
    OBVIOUS
  <2> QED
    BY <2>1, ArchesAssumption, FilledAccepted
<1> QED
  BY <1>1, FormInvariance, PTL
=============================================================================
