------------------------------ MODULE UploadPage ------------------------------
(***************************************************************************)
(* The two places of the UI from which a dataset is filled: the page that  *)
(* makes a new one from an archive or from files, and the drawer that adds *)
(* files to one.  An upload is a number of requests, its parts: the whole  *)
(* of a small archive, the pieces of a large one, sent in batches between  *)
(* a request for a session and one that completes it, or one for each      *)
(* file.  The first part that fails fails the upload, and the others go on *)
(* on their own, still reporting progress.                                 *)
(***************************************************************************)
EXTENDS Integers, FiniteSetsExt

CONSTANTS
    Files,          \* what can be dropped on the page, by number
    Pieces,         \* pieces of a large archive
    Concurrency,    \* CHUNK_CONCURRENCY
    Attempt         \* uploads that are started, a bound

ASSUME UploadAssumption ==
    Files \subseteq Nat /\ Pieces \in Nat \ {0} /\ Concurrency \in Nat \ {0}

VARIABLES
    place,      \* which of the two it is
    view,       \* "form" or "result"; the drawer is a "form" or "shut"
    named,      \* the name entered passes validateName
    mode,       \* how to upload
    archive,    \* zipFile: "none", "small" or "large", as against CHUNK_THRESHOLD
    picked,     \* imageFiles or files
    error,      \* an error is displayed
    uploading,  \* uploadState.isUploading of the mutation of each mode
    upload,     \* each upload that was started
    \* history:
    left,       \* uploads under way when the drawer was closed, or begun beside one
    late        \* modes with progress reported for an upload that was over

choiceVars == <<view, named, mode, archive, picked, error>>
uploadVars == <<place, choiceVars, uploading, upload, left, late>>

Mode == {"zip", "files"}
Stage == {"none", "opening", "sending", "completing", "ok", "failed"}

UploadTypeOK ==
    /\ place \in {"page", "drawer"} /\ view \in {"form", "result", "shut"}
    /\ named \in BOOLEAN /\ mode \in Mode /\ archive \in {"none", "small", "large"}
    /\ picked \subseteq Files /\ error \in BOOLEAN
    /\ uploading \in [Mode -> BOOLEAN]
    /\ \A a \in Attempt :
          /\ upload[a].mode \in Mode /\ upload[a].stage \in Stage
          /\ upload[a].chunked \in BOOLEAN /\ upload[a].here \in BOOLEAN
          /\ \A p \in DOMAIN upload[a].part :
                upload[a].part[p] \in {"waiting", "sending", "stored", "lost"}
    /\ left \subseteq Attempt /\ late \subseteq Mode

Unused == [mode |-> "zip", chunked |-> FALSE, stage |-> "none", here |-> FALSE,
           part |-> [p \in {} |-> "waiting"]]

\* The state of the place when it is mounted; the drawer knows its dataset.
Mounted(at) == [view |-> IF at = "page" THEN "form" ELSE "shut", named |-> at = "drawer",
                mode |-> IF at = "page" THEN "zip" ELSE "files"]

Idle == [m \in Mode |-> FALSE]

UploadInit ==
    /\ place \in {"page", "drawer"}
    /\ LET new == Mounted(place) IN view = new.view /\ named = new.named /\ mode = new.mode
    /\ archive = "none" /\ picked = {} /\ error = FALSE
    /\ uploading = Idle
    /\ upload = [a \in Attempt |-> Unused]
    /\ left = {} /\ late = {}

\* isUploading: it disables what the form has, but not the cross of the drawer.
IsUploading == \E m \in Mode : uploading[m]

UnderWay(a) == upload[a].here /\ upload[a].stage \in {"opening", "sending", "completing"}

-----------------------------------------------------------------------------
(* The user *)

EnterName ==
    /\ place = "page" /\ view = "form" /\ ~IsUploading
    /\ named' = ~named
    /\ UNCHANGED <<place, view, mode, archive, picked, error, uploading, upload, left, late>>

ChangeMode ==
    /\ place = "page" /\ view = "form" /\ ~IsUploading
    /\ \E m \in Mode \ {mode} : mode' = m
    /\ error' = FALSE
    /\ UNCHANGED <<place, view, named, archive, picked, uploading, upload, left, late>>

\* An archive on the dropzone, or the button that replaces the dropzone.
ChooseArchive ==
    /\ view = "form" /\ mode = "zip" /\ ~IsUploading
    /\ IF archive = "none" THEN archive' \in {"small", "large"} ELSE archive' = "none"
    /\ UNCHANGED <<place, view, named, mode, picked, error, uploading, upload, left, late>>

\* The dropzone is there only while there is no file.
DropFiles ==
    /\ view = "form" /\ mode = "files" /\ ~IsUploading /\ picked = {}
    /\ picked' \in SUBSET Files \ {{}}
    /\ UNCHANGED <<place, view, named, mode, archive, error, uploading, upload, left, late>>

ClearFiles ==
    /\ view = "form" /\ mode = "files" /\ ~IsUploading /\ picked # {}
    /\ picked' = {}
    /\ UNCHANGED <<place, view, named, mode, archive, error, uploading, upload, left, late>>

\* The i-th batch of the pieces of an archive.
Batch(i) == {p \in 1..Pieces : (p - 1) \div Concurrency = i}

\* handleUpload, with the requests the upload begins with.
Start(a) ==
    /\ view = "form" /\ ~IsUploading /\ named
    /\ IF mode = "zip" THEN archive # "none" ELSE picked # {}
    /\ upload[a].stage = "none" /\ \A b \in Attempt : b < a => upload[b].stage # "none"
    /\ LET large == mode = "zip" /\ archive = "large"
       IN  upload' = [upload EXCEPT ![a] =
              [mode |-> mode, chunked |-> large, here |-> TRUE,
               stage |-> IF large THEN "opening" ELSE "sending",
               part |-> IF large THEN [p \in 1..Pieces |-> "waiting"]
                        ELSE [p \in IF mode = "zip" THEN {1} ELSE picked |-> "sending"]]]
    /\ uploading' = [uploading EXCEPT ![mode] = TRUE]
    /\ left' = IF \E b \in left : UnderWay(b) THEN left \cup {a} ELSE left
    /\ error' = FALSE
    /\ UNCHANGED <<place, view, named, mode, archive, picked, late>>

\* handleReset of the page: upload another.
Another ==
    /\ view = "result"
    /\ view' = "form" /\ named' = FALSE /\ archive' = "none" /\ picked' = {} /\ error' = FALSE
    /\ uploading' = Idle
    /\ late' = {}
    /\ UNCHANGED <<place, mode, upload, left>>

\* Another page is opened, by a link or the buttons of the browser, and later
\* this one again: the uploads go on, with nobody to hear of them.
Leave ==
    /\ \E a \in Attempt : upload[a].here
    /\ LET new == Mounted(place) IN view' = new.view /\ named' = new.named /\ mode' = new.mode
    /\ archive' = "none" /\ picked' = {} /\ error' = FALSE
    /\ uploading' = Idle
    /\ upload' = [a \in Attempt |-> [upload[a] EXCEPT !.here = FALSE]]
    /\ late' = {}
    /\ UNCHANGED <<place, left>>

OpenDrawer ==
    /\ view = "shut"
    /\ view' = "form"
    /\ UNCHANGED <<place, named, mode, archive, picked, error, uploading, upload, left, late>>

\* handleClose, by the cross or the escape key, which nothing disables.
CloseDrawer ==
    /\ place = "drawer" /\ view = "form"
    /\ view' = "shut" /\ picked' = {}
    /\ uploading' = [uploading EXCEPT !["files"] = FALSE]
    /\ left' = left \cup {a \in Attempt : UnderWay(a)}
    /\ late' = {}
    /\ UNCHANGED <<place, named, mode, archive, error, upload>>

-----------------------------------------------------------------------------
(* The requests.  What the page does with an end it does only if it is the *)
(* page the upload was started from.                                       *)

\* onSuccess of the mutation, then the handler that awaited it.
Succeeds(a, u) ==
    /\ upload' = [upload EXCEPT ![a] = [u EXCEPT !.stage = "ok"]]
    /\ IF ~u.here THEN UNCHANGED <<view, picked, uploading, late>>
       ELSE /\ uploading' = [uploading EXCEPT ![u.mode] = FALSE]
            /\ late' = late \ {u.mode}
            /\ IF place = "page" THEN view' = "result" /\ UNCHANGED picked
               ELSE view' = "shut" /\ picked' = {}
    /\ UNCHANGED <<place, named, mode, archive, error, left>>

\* Mutant: the mutation forgets to end the upload when it fails.
FailsUploading(a, u) ==
    /\ upload' = [upload EXCEPT ![a] = [u EXCEPT !.stage = "failed"]]
    /\ error' = (IF u.here /\ place = "page" THEN TRUE ELSE error)
    /\ UNCHANGED <<place, view, named, mode, archive, picked, uploading, left, late>>

\* onError, then the handler: the page displays the error, the drawer nothing.
Fails(a, u) ==
    /\ upload' = [upload EXCEPT ![a] = [u EXCEPT !.stage = "failed"]]
    /\ IF ~u.here THEN UNCHANGED <<uploading, error, late>>
       ELSE /\ uploading' = [uploading EXCEPT ![u.mode] = FALSE]
            /\ late' = late \ {u.mode}
            /\ error' = (IF place = "page" THEN TRUE ELSE error)
    /\ UNCHANGED <<place, view, named, mode, archive, picked, left>>

\* Nothing but the record of the upload changes.
Quietly(a, u) ==
    /\ upload' = [upload EXCEPT ![a] = u]
    /\ UNCHANGED <<place, choiceVars, uploading, left, late>>

Sending(u) == {p \in DOMAIN u.part : u.part[p] = "sending"}

\* Mutant: the next batch is awaited no more than the one before it.
NextBatchAtOnce(u) ==
    LET waiting == {p \in DOMAIN u.part : u.part[p] = "waiting"}
        rest == IF waiting = {} THEN {} ELSE Batch((Min(waiting) - 1) \div Concurrency)
    IN  IF rest = {} THEN [u EXCEPT !.stage = "completing"]
        ELSE [u EXCEPT !.stage = "sending",
                       !.part = [p \in DOMAIN u.part |-> IF p \in rest THEN "sending" ELSE u.part[p]]]

\* The loop over the batches: the next one, or the completion.
NextBatch(u) ==
    LET waiting == {p \in DOMAIN u.part : u.part[p] = "waiting"}
        rest == IF waiting = {} THEN {} ELSE Batch((Min(waiting) - 1) \div Concurrency)
    IN  IF Sending(u) # {} THEN u
        ELSE IF rest = {} THEN [u EXCEPT !.stage = "completing"]
        ELSE [u EXCEPT !.stage = "sending",
                       !.part = [p \in DOMAIN u.part |-> IF p \in rest THEN "sending" ELSE u.part[p]]]

SessionOpened(a) ==
    /\ upload[a].stage = "opening"
    /\ Quietly(a, NextBatch(upload[a])) \/ Fails(a, upload[a])

\* A part has arrived, and its answer: what waits for all of them goes on.
PartStored(a) ==
    \E p \in Sending(upload[a]) :
        LET u == [upload[a] EXCEPT !.part[p] = "stored"]
        IN  IF u.stage # "sending" THEN Quietly(a, u)
            ELSE IF u.chunked THEN Quietly(a, NextBatch(u))
            ELSE IF Sending(u) = {} THEN Succeeds(a, u)
            ELSE Quietly(a, u)

PartLost(a) ==
    \E p \in Sending(upload[a]) :
        LET u == [upload[a] EXCEPT !.part[p] = "lost"]
        IN  IF u.stage = "sending" THEN Fails(a, u) ELSE Quietly(a, u)

\* The progress of a part that is being sent, of whatever upload it is.
Progress(a) ==
    /\ upload[a].here /\ Sending(upload[a]) # {}
    /\ uploading' = [uploading EXCEPT ![upload[a].mode] = TRUE]
    /\ late' = (IF UnderWay(a) THEN late ELSE late \cup {upload[a].mode})
    /\ UNCHANGED <<place, choiceVars, upload, left>>

Completed(a) ==
    /\ upload[a].stage = "completing"
    /\ Succeeds(a, upload[a]) \/ Fails(a, upload[a])

UploadNext ==
    \/ EnterName \/ ChangeMode \/ ChooseArchive \/ DropFiles \/ ClearFiles
    \/ Another \/ Leave \/ OpenDrawer \/ CloseDrawer
    \/ \E a \in Attempt :
          \/ Start(a) \/ SessionOpened(a) \/ PartStored(a) \/ PartLost(a)
          \/ Progress(a) \/ Completed(a)

UploadSpec == UploadInit /\ [][UploadNext]_uploadVars

-----------------------------------------------------------------------------
\* The page says it uploads exactly while one of its uploads is under way, so
\* that there is never a second one beside it, and it is never closed to the
\* user by one that is over: unless a request of a failed upload reports its
\* progress afterwards, or the drawer was closed while it uploaded.
UploadShown ==
    /\ \A a \in Attempt \ left : UnderWay(a) => uploading[upload[a].mode]
    /\ \A m \in Mode \ late :
          uploading[m] => \E a \in Attempt : UnderWay(a) /\ upload[a].mode = m
    /\ \A a, b \in Attempt \ left : UnderWay(a) /\ UnderWay(b) => a = b

\* An upload completes, or is said to have succeeded, only when every part of
\* it is stored; and the files that a success takes from the selection were
\* part of it, unless the drawer was closed meanwhile.
SuccessIsWhole ==
    [][\A a \in Attempt :
          LET u == upload'[a]
          IN  u # upload[a] /\ u.stage \in {"completing", "ok"} =>
                 /\ \A p \in DOMAIN u.part : u.part[p] = "stored"
                 /\ a \in left \/ ~u.here \/ u.mode = "zip" \/ picked \subseteq DOMAIN u.part]_uploadVars
=============================================================================
