------------------------------ MODULE MCJobPages -----------------------------
(* The jobs of the API, and beside them, with nothing shared, the page of a *)
(* job's outputs, and the files of a job, of which the user changes the     *)
(* prompts or the options of the dataset.                                   *)
EXTENDS MCJobs, OutputsPage, JobFiles

CONSTANTS
    Parts       \* the parts of which one moves: of the outputs the lightbox or the downloads

VARIABLE part

pageParts == <<outputsVars, filesVars>>

\* Two prompts that differ in the token only.
MCPair == <<2, 1>>

Words(w) == <<"words", w>>
MCTexts ==
    {<<>>, <<Words("knight")>>, <<<<"mark", "1girl">>, Words("solo")>>,
     <<Words("knight"), Break>>, <<Words("knight"), Break, Words("rain")>>,
     <<Words("knight"), Flag(7)>>, <<Words("knight"), Neg, Words("rain")>>}
MCNegatives == {<<>>, <<Words("blur")>>, <<Space>>}
MCTokens    == {<<>>, <<<<"mark", "zoroj">>>>, <<<<"mark", "the">>>>, <<Words("my char")>>}

JobPagesInit ==
    /\ part \in Parts
    /\ Init /\ OutputsInit /\ FilesInit
    /\ part = "service" \/ \A k, l \in Kill : kjob[k] = kjob[l]
    /\ part = "prompts" \/ sample.token = <<>>

JobPagesNext ==
    /\ part' = part
    /\ \/ part = "service" /\ Next /\ UNCHANGED pageParts
       \/ part = "lightbox" /\ OutputsPageNext /\ pulls' = pulls
                            /\ UNCHANGED <<vars, filesVars>>
       \/ part = "pulls"   /\ OutputsPageNext /\ modal' = modal
                            /\ UNCHANGED <<vars, filesVars>>
       \/ part = "prompts" /\ FilesNext /\ data' = data /\ UNCHANGED <<vars, outputsVars>>
       \/ part = "dataset" /\ FilesNext /\ sample' = sample /\ UNCHANGED <<vars, outputsVars>>

JobPagesSpec == JobPagesInit /\ [][JobPagesNext]_<<part, vars, pageParts>>
=============================================================================
