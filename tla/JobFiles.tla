-------------------------------- MODULE JobFiles ------------------------------
(***************************************************************************)
(* From the form of a new job to what its trainer reads.  The form keeps   *)
(* the prompts of the sample images and the options of the dataset; the    *)
(* API writes them to prompts.txt and dataset.toml, and adds to the train  *)
(* configuration when to sample.  The trainer numbers the prompts it reads,*)
(* and later the outputs page reads the same file to say which prompt a    *)
(* numbered picture is of, and which two differ in the token only.         *)
(*                                                                         *)
(* A text is the sequence of its pieces: <<"words", w>>, a <<"mark", w>>,  *)
(* which is one word and a separator, <<"blank">>, blanks that the user    *)
(* typed, <<"break">>, the end of a line, <<"flag", v>>, a numeric option  *)
(* such as the seed, and <<"n">>, which makes of the rest of the line a    *)
(* negative prompt.  How the table of options is spelt in TOML is left     *)
(* out; a document is its entries, each <<level, key, value>>.             *)
(***************************************************************************)
EXTENDS Naturals, Sequences, FiniteSets
LOCAL INSTANCE SequencesExt

CONSTANTS
    Texts,          \* what the user may type as a prompt,
    Negatives,      \* as a negative prompt, <<>> for none
    Tokens,         \* and as the token, <<>> for none
    MaxPrompts

VARIABLES
    sample,         \* the prompts of the form, and its token
    sampleBySteps,  \* sample by steps, or by epochs
    data,           \* the options of the dataset section
    debounced,      \* as they were when the previews were asked for
    promptsFile,    \* prompts.txt, a text, <<>> when there is none
    datasetFile,    \* dataset.toml
    trainFile,      \* what the API adds to the train configuration
    submitted

formVars  == <<sample, sampleBySteps, data, debounced>>
filesVars == <<formVars, promptsFile, datasetFile, trainFile, submitted>>

Break == <<"break">>
Space == <<"blank">>
Neg   == <<"n">>
Flag(v) == <<"flag", v>>

\* BLANK_PROMPT: every option has a value.
BlankPrompt == [prompt |-> <<>>, negative |-> <<>>, seed |-> 42, withoutToken |-> FALSE]

DefaultData == [bucket |-> TRUE, minBucket |-> 768, repeats |-> 1, classTokens |-> "",
                flip |-> FALSE, color |-> FALSE]

FilesInit ==
    /\ sample \in [prompts : {<<>>}, token : Tokens]
    /\ sampleBySteps = FALSE
    /\ data = DefaultData /\ debounced = DefaultData
    /\ promptsFile = <<>> /\ datasetFile = {} /\ trainFile = {}
    /\ submitted = FALSE

-----------------------------------------------------------------------------
(* The form *)

Editing == ~submitted /\ UNCHANGED <<promptsFile, datasetFile, trainFile, submitted>>

AddPrompt ==
    /\ Editing
    /\ Len(sample.prompts) < MaxPrompts
    /\ sample' = [sample EXCEPT !.prompts = Append(@, BlankPrompt)]
    /\ UNCHANGED <<sampleBySteps, data, debounced>>

\* PromptRow: one field of one row.
UpdatePrompt(i) ==
    /\ Editing
    /\ \E row \in {[sample.prompts[i] EXCEPT !.prompt = t] : t \in Texts}
              \cup {[sample.prompts[i] EXCEPT !.negative = t] : t \in Negatives}
              \cup {[sample.prompts[i] EXCEPT !.withoutToken = ~@]} :
          sample' = [sample EXCEPT !.prompts[i] = row]
    /\ UNCHANGED <<sampleBySteps, data, debounced>>

RemovePrompt(i) ==
    /\ Editing
    /\ sample' = [sample EXCEPT !.prompts = RemoveAt(@, i)]
    /\ UNCHANGED <<sampleBySteps, data, debounced>>

SetSampling ==
    /\ Editing
    /\ sampleBySteps' = ~sampleBySteps
    /\ UNCHANGED <<sample, data, debounced>>

\* The fields of the dataset section.
SetData ==
    /\ Editing
    /\ data' \in {[data EXCEPT !.bucket = ~@], [data EXCEPT !.flip = ~@], [data EXCEPT !.color = ~@],
                  [data EXCEPT !.repeats = 3 - @], [data EXCEPT !.classTokens = "someone"]}
    /\ UNCHANGED <<sample, sampleBySteps, debounced>>

\* After 400 ms without a change.
Debounce ==
    /\ Editing
    /\ debounced # data
    /\ debounced' = data
    /\ UNCHANGED <<sample, sampleBySteps, data>>

-----------------------------------------------------------------------------
(* prompts.txt *)

Blank(t) == \A n \in DOMAIN t : t[n] \in {Break, Space}

\* buildSampleImages(): blank prompts are left out; what remains is sent as typed.
ValidPrompts == SelectSeq(sample.prompts, LAMBDA p : ~Blank(p.prompt))

\* Mutant: the token goes before every prompt.
PromptLineAlways(p) ==
    sample.token \o p.prompt \o <<Flag(p.seed)>>
        \o (IF p.negative = <<>> THEN <<>> ELSE <<Neg>> \o p.negative)

\* One row of formatPromptsFile(): the numeric options after the text, then the
\* negative prompt.
PromptLine(p) ==
    (IF p.withoutToken THEN <<>> ELSE sample.token) \o p.prompt \o <<Flag(p.seed)>>
        \o (IF p.negative = <<>> THEN <<>> ELSE <<Neg>> \o p.negative)

FormatPromptsFile(ps) == FlattenSeq([n \in DOMAIN ps |-> PromptLine(ps[n]) \o <<Break>>])

\* The file line by line, ...
Lines(t) ==
    FoldLeft(LAMBDA ls, piece : IF piece = Break THEN Append(ls, <<>>)
                                ELSE [ls EXCEPT ![Len(ls)] = Append(@, piece)],
             <<<<>>>>, t)

\* ... without the blanks at the end of a line.  None here begins with blanks.
Trim(line) ==
    LET ends == {n \in 0..Len(line) : \A k \in (n + 1)..Len(line) : line[k] = Space}
    IN  SubSeq(line, 1, CHOOSE n \in ends : \A m \in ends : n <= m)

-----------------------------------------------------------------------------
(* dataset.toml *)

\* Where each option may stand; generateDatasetToml() copies these.
Shared == {"num_repeats", "flip_aug", "color_aug", "caption_extension"}
Allowed(level) ==
    IF level = "subset" THEN Shared \cup {"image_dir", "class_tokens"}
    ELSE Shared \cup {"resolution", "enable_bucket", "min_bucket_reso", "batch_size"}

GenerateDatasetToml(dto) == {e \in dto : e[2] \in Allowed(e[1])}

When(condition, entry) == IF condition THEN {entry} ELSE {}

\* buildDatasetPreviewDto()
PreviewDto(d) ==
    {<<"dataset", "enable_bucket", d.bucket>>, <<"dataset", "batch_size", 1>>,
     <<"dataset", "color_aug", d.color>>, <<"dataset", "flip_aug", d.flip>>,
     <<"subset", "num_repeats", d.repeats>>}
    \cup When(d.bucket, <<"dataset", "min_bucket_reso", d.minBucket>>)
    \cup When(d.classTokens # "", <<"subset", "class_tokens", d.classTokens>>)

\* What the preview of dataset.toml shows.
DatasetPreview == GenerateDatasetToml(PreviewDto(debounced))

\* datasetOptions of handleSubmit(): what the request says.
DatasetOptions ==
    {<<"enable_bucket", data.bucket>>, <<"num_repeats", data.repeats>>}
    \cup When(data.bucket, <<"min_bucket_reso", data.minBucket>>)
    \cup When(data.classTokens # "", <<"class_tokens", data.classTokens>>)

\* resolveDataset() and buildDatasetDto(): bucketing and size on the dataset, the
\* rest on its one subset.
BuildDatasetDto(opts) ==
    {<<IF o[1] \in {"resolution", "enable_bucket", "min_bucket_reso", "batch_size"}
       THEN "dataset" ELSE "subset", o[1], o[2]>> : o \in opts}
    \cup {<<"dataset", "batch_size", 1>>, <<"subset", "caption_extension", ".txt">>}

\* What the trainer takes for an option: the subset's entry before the dataset's.
Taken(document, key) ==
    LET at(level) == {e[3] : e \in {x \in document : x[1] = level /\ x[2] = key}}
    IN  IF at("subset") # {} THEN at("subset") ELSE at("dataset")

-----------------------------------------------------------------------------
(* handleSubmit(), and create() up to the files it writes *)

SubmitJob ==
    /\ ~submitted /\ submitted' = TRUE
    /\ LET ps == ValidPrompts
       IN  /\ promptsFile' = FormatPromptsFile(ps)
           /\ trainFile' = IF ps = <<>> THEN {}
                           ELSE {"sample_prompts", "sample_sampler",
                                 IF sampleBySteps THEN "sample_every_n_steps" ELSE "sample_every_n_epochs"}
    /\ datasetFile' = GenerateDatasetToml(BuildDatasetDto(DatasetOptions))
    /\ UNCHANGED formVars

FilesNext ==
    \/ AddPrompt \/ SetSampling \/ SetData \/ Debounce \/ SubmitJob
    \/ \E i \in DOMAIN sample.prompts : UpdatePrompt(i) \/ RemovePrompt(i)

FilesSpec == FilesInit /\ [][FilesNext]_filesVars

-----------------------------------------------------------------------------
(* The outputs page *)

\* parsePromptLine(): the negative prompt first, when there is something after its
\* mark, then the first value of an option, and of the text what is not an option.
ParsePromptLine(line) ==
    LET cuts == {n \in 1..(Len(line) - 1) : line[n] = Neg}
        cut  == IF cuts = {} THEN Len(line) + 1 ELSE CHOOSE n \in cuts : \A k \in cuts : n <= k
        body == SubSeq(line, 1, cut - 1)
        flag == SelectSeq(body, LAMBDA x : x[1] = "flag")
    IN  [prompt   |-> SelectSeq(body, LAMBDA x : x[1] # "flag"),
         seed     |-> IF flag = <<>> THEN 0 ELSE flag[1][2],
         negative |-> SubSeq(line, cut + 1, Len(line))]

\* parsePromptsFile(): lines that are not empty, numbered as the trainer does.
ParsedPrompts ==
    LET all == Lines(promptsFile)
        ls  == SelectSeq([n \in DOMAIN all |-> Trim(all[n])], LAMBDA l : l # <<>>)
    IN  [n \in DOMAIN ls |-> ParsePromptLine(ls[n])]

\* parseActivationToken(): one word and a separator, and something after it; an
\* article is none.
Articles == {"a", "the", "an", "this", "that"}
HasToken(text) == Len(text) > 1 /\ text[1][1] = "mark" /\ text[1][2] \notin Articles
BaseText(text) == IF HasToken(text) THEN Tail(text) ELSE text

\* findPairPrompt(): the first other prompt of the same text, with a token where
\* this one has none.
PairsOf(ps, k) ==
    {n \in DOMAIN ps \ {k} : /\ BaseText(ps[n].prompt) = BaseText(ps[k].prompt)
                             /\ HasToken(ps[n].prompt) # HasToken(ps[k].prompt)}
FindPairPrompt(ps, k) ==
    IF PairsOf(ps, k) = {} THEN 0
    ELSE CHOOSE n \in PairsOf(ps, k) : \A m \in PairsOf(ps, k) : n <= m

-----------------------------------------------------------------------------
\* One line, no option typed into it.
Plain(t) == \A n \in DOMAIN t : t[n][1] \in {"words", "mark"}

\* What the user typed comes back.  When no prompt has a line break or an option
\* in its text, and no negative prompt is blanks only, the page reads from the
\* file exactly the prompts that are not blank, in the order of the form, each
\* with its own seed and negative prompt and with the token unless it is one
\* without; a comparison is offered for two rows of one text of which one has the
\* token, provided that the token is one word and no article, and never for two of
\* different texts, provided that no text begins like a token itself.  The trainer
\* is told to sample exactly when there is a prompt and by one of the two measures;
\* and of the dataset it takes the bucketing, the repeats and the class tokens of
\* the form (not its two augmentations: AugmentationsReach).
FilesSayForm ==
    submitted =>
      LET ps    == ValidPrompts
          read  == ParsedPrompts
          plain == \A n \in DOMAIN ps : /\ Plain(ps[n].prompt)
                                        /\ Blank(ps[n].negative) => ps[n].negative = <<>>
          tokenOf(p) == IF p.withoutToken THEN <<>> ELSE sample.token
          twins(i, k) == ps[i].prompt = ps[k].prompt /\ ps[i].withoutToken # ps[k].withoutToken
      IN  /\ plain =>
              /\ Len(read) = Len(ps)
              /\ \A n \in DOMAIN ps :
                    read[n] = [prompt |-> tokenOf(ps[n]) \o ps[n].prompt, seed |-> ps[n].seed,
                               negative |-> ps[n].negative]
          /\ plain /\ (\A n \in DOMAIN ps : ~HasToken(ps[n].prompt)) =>
              \A n \in DOMAIN ps :
                  LET k == FindPairPrompt(read, n)
                  IN  /\ k # 0 => twins(n, k)
                      /\ (\E m \in DOMAIN ps : twins(n, m)) /\ HasToken(sample.token \o <<Break>>) => k # 0
          /\ ("sample_prompts" \in trainFile) <=> (read # <<>>)
          /\ Cardinality(trainFile \cap {"sample_every_n_steps", "sample_every_n_epochs"})
               = (IF read = <<>> THEN 0 ELSE 1)
          /\ Taken(datasetFile, "enable_bucket") = {data.bucket}
          /\ Taken(datasetFile, "min_bucket_reso") = (IF data.bucket THEN {data.minBucket} ELSE {})
          /\ Taken(datasetFile, "num_repeats") = {data.repeats}
          /\ Taken(datasetFile, "class_tokens") = (IF data.classTokens = "" THEN {} ELSE {data.classTokens})

\* The two augmentation switches of the form, which say that they create flipped
\* images and change colours, and the preview beside them, which has flip_aug and
\* color_aug: when the job is submitted with the preview up to date, the trainer
\* takes from the file the augmentations that it would take from the preview,
\* absent counting as false.
AugmentationsReach ==
    submitted /\ debounced = data =>
        \A key \in {"flip_aug", "color_aug"} :
            TRUE \in Taken(DatasetPreview, key) <=> TRUE \in Taken(datasetFile, key)
=============================================================================
