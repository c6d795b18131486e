------------------------------- MODULE Datasets -------------------------------
(***************************************************************************)
(* DatasetsService for one dataset name: the directory with its images and *)
(* captions, and the metadata row beside it.                               *)
(*                                                                         *)
(* Every handler awaits between what it checks and what it does, and       *)
(* nothing keeps two of them apart.  A call in Call is one request; its    *)
(* step is what the file system or the database does for it at one await,  *)
(* with the code up to the next.  A caption belongs to a stem, so images   *)
(* of one stem share it.  A caption is the text a user wrote behind some   *)
(* number of prepended tokens.  Reading requests change nothing and are    *)
(* left out.                                                               *)
(***************************************************************************)
EXTENDS Naturals, FiniteSets

CONSTANTS
    Image,      \* image file names
    Stem,       \* their names without extension, which name the captions
    StemOf,     \* the stem of an image
    Call,       \* requests
    Mixes,      \* which request each call may be: the scenarios
    Payloads,   \* the sets of files an upload may bring
    None        \* no caption, no row, no value

DatasetOp == {"upload", "meta", "detect", "remove", "caption", "uncaption",
              "unimage", "replace", "prepend"}

ASSUME StemAssumption == StemOf \in [Image -> Stem] /\ Image \cap Stem = {}
ASSUME PayloadAssumption == Payloads \subseteq SUBSET (Image \cup Stem)
ASSUME FileAssumption == IsFiniteSet(Image) /\ IsFiniteSet(Stem)

VARIABLES
    dir,        \* the directory exists
    images,     \* the images in it
    text,       \* the captions in it
    row,        \* the row of dataset_metas
    op,         \* what a call asks for
    call,       \* where a call stands and what it holds
    crashed,    \* the API has died once and was started again
    \* history:
    before,     \* the captions when a prepend listed the directory
    touched,    \* stems others have written or removed since
    marked,     \* stems prefixed by a call that does not skip what it sees
    stale,      \* the row was saved or deleted after a call looked at it
    want,       \* the metadata acknowledged to users
    risk        \* a removal has met a writer of the row, or was cut short

disk        == <<dir, images, text>>
history     == <<before, touched, marked, stale, want, risk>>
datasetVars == <<disk, row, op, call, crashed, history>>

Body == {"tags", "prose"}
Caption == [body : Body, lead : Nat, opens : BOOLEAN]
Written(b) == [body |-> b, lead |-> 0, opens |-> FALSE]

CaptionType == {"unknown", "tag_list", "natural_language", "mixed"}
Column == {"captionType", "description"}
Columns(type, desc) ==
    [k \in Column |-> IF k = "captionType" THEN type ELSE desc]
Defaults == Columns("unknown", None)
Meta == {Columns(t, d) : t \in CaptionType, d \in Call \cup {None}}
Partial == UNION {[K -> CaptionType \cup Call \cup {None}] : K \in SUBSET Column}
Nothing == [k \in {} |-> None]

\* null is no request, no caption and no row.
ASSUME NoneAssumption == None \notin Call \cup Caption \cup Meta

\* Object.assign(old, new)
Assign(old, new) ==
    [k \in DOMAIN old \cup DOMAIN new |-> IF k \in DOMAIN new THEN new[k] ELSE old[k]]

Ended == {"done", "error", "lost"}
Stage == {"idle", "mkdir", "write", "readdir", "sample", "assert", "find", "select",
          "insert", "update", "rm", "rmdir", "delete", "access", "put", "unlink",
          "untext", "read", "rewrite"} \cup Ended

Fresh == [at |-> "idle", isNew |-> FALSE, todo |-> {},
          skip |-> FALSE, style |-> FALSE, held |-> None, tags |-> 0,
          sampled |-> 0, fields |-> Nothing, entity |-> Nothing, cols |-> {}]

CallRecord ==
    [at : Stage, isNew : BOOLEAN, todo : SUBSET (Image \cup Stem),
     skip : BOOLEAN, style : BOOLEAN,
     held : [stem : Stem, caption : Caption] \cup {None}, tags : Nat,
     sampled : Nat, fields : Partial, entity : Partial, cols : SUBSET Column]

DatasetTypeOK ==
    /\ dir \in BOOLEAN
    /\ images \subseteq Image
    /\ text \in [Stem -> Caption \cup {None}]
    /\ ~dir => images = {} /\ \A s \in Stem : text[s] = None
    /\ row \in Meta \cup {None}
    /\ call \in [Call -> CallRecord]
    /\ \A c \in Call : call[c].tags <= call[c].sampled
    /\ crashed \in BOOLEAN
    /\ touched \in [Call -> SUBSET Stem]
    /\ marked \subseteq Stem
    /\ stale \in [Call -> BOOLEAN]
    /\ want \in Partial
    /\ risk \in BOOLEAN

\* No dataset; one placed by hand, without a row; one the API has made.  Fewer
\* images and captions are a matter of requests.
DatasetInit ==
    /\ dir \in BOOLEAN
    /\ images = IF dir THEN Image ELSE {}
    /\ text = [s \in Stem |-> IF dir THEN Written("prose") ELSE None]
    /\ row \in IF dir THEN {None, Columns("natural_language", None)} ELSE {None}
    /\ op \in Mixes
    /\ call = [c \in Call |-> Fresh]
    /\ crashed = FALSE
    /\ before = [c \in Call |-> [s \in Stem |-> None]]
    /\ touched = [c \in Call |-> {}]
    /\ marked = {}
    /\ stale = [c \in Call |-> FALSE]
    /\ want = Nothing
    /\ risk = FALSE

-----------------------------------------------------------------------------
(* How calls go on, and what they do to the disk and the row *)

At(c, stage) == call[c].at = stage
InFlight(c) == call[c].at \notin Ended \cup {"idle"}
Becomes(c, r) == call' = [call EXCEPT ![c] = r]
Goes(c, stage) == Becomes(c, [call[c] EXCEPT !.at = stage])
Answers(c, result) == Becomes(c, [Fresh EXCEPT !.at = result])

\* Calls of updateMeta(), directly or by detectCaptionType().
Updates(c) == op[c] \in {"meta", "detect"}

\* Calls that will write the row from what they have seen of it or of the disk.
Holding(c) == call[c].at \in {"select", "insert", "update"} \/ call[c].isNew

Touch(c, S) ==
    touched' = [d \in Call |->
                  IF d # c /\ op[d] = "prepend" /\ InFlight(d)
                  THEN touched[d] \cup S ELSE touched[d]]

PutImage(c, i) ==
    /\ images' = images \cup {i}
    /\ Touch(c, {StemOf[i]})
    /\ UNCHANGED <<dir, text, before, marked, stale, want, risk>>

\* A caption is written or, as None, removed.
PutText(c, s, x) ==
    /\ text' = [text EXCEPT ![s] = x]
    /\ Touch(c, {s})
    /\ UNCHANGED <<dir, images, before, marked, stale, want, risk>>

RowChanges(c, new) ==
    /\ row' = new
    /\ stale' = [d \in Call |-> stale[d] \/ (d # c /\ Holding(d))]

\* The save of a call took effect.  An update that looked at the row before
\* another call saved it may bring back what it saw, then the row is all users
\* have left; an upload in that position may do so to the type it detected.
RowSaved(c, new) ==
    /\ RowChanges(c, new)
    /\ \/ (~dir \/ new = None) /\ UNCHANGED want
       \/ /\ dir /\ new # None
          /\ want' = CASE ~stale[c] -> Assign(want, call[c].fields)
                       [] stale[c] /\ Updates(c) -> new
                       [] stale[c] /\ ~Updates(c) ->
                            [k \in DOMAIN want |->
                               IF k = "captionType" THEN new[k] ELSE want[k]]
    /\ UNCHANGED <<disk, before, touched, marked, risk>>

-----------------------------------------------------------------------------
(* uploadZip(), uploadFiles(), extractEntries(), upsertMetaAfterUpload() *)

\* Whether the dataset is new is looked up before its directory is made.
UploadBegins(c, files) ==
    /\ At(c, "idle")
    /\ Becomes(c, [Fresh EXCEPT !.at = "mkdir", !.isNew = ~dir, !.todo = files])
    /\ stale' = [stale EXCEPT ![c] = FALSE]
    /\ UNCHANGED <<disk, row, op, crashed, before, touched, marked, want, risk>>

Mkdir(c) ==
    /\ At(c, "mkdir")
    /\ dir' = TRUE
    /\ Goes(c, "write")
    /\ UNCHANGED <<images, text, row, op, crashed, history>>

\* One file of the upload is written; the directory may have gone meanwhile.
WriteFile(c, f) ==
    /\ At(c, "write")
    /\ f \in call[c].todo
    /\ dir
    /\ IF f \in Image THEN PutImage(c, f) ELSE PutText(c, f, Written("tags"))
    /\ Becomes(c, [call[c] EXCEPT !.todo = @ \ {f}])
    /\ UNCHANGED <<row, op, crashed>>

\* The directory has gone, the disk fails, or the archive cannot be read on.
WriteFails(c) ==
    /\ At(c, "write")
    /\ call[c].todo # {}
    /\ Answers(c, "error")
    /\ UNCHANGED <<disk, row, op, crashed, history>>

FilesWritten(c) ==
    /\ At(c, "write")
    /\ call[c].todo = {}
    /\ Goes(c, IF call[c].isNew THEN "readdir" ELSE "find")
    /\ UNCHANGED <<disk, row, op, crashed, history>>

-----------------------------------------------------------------------------
(* assertExists() and the beginning of the other requests *)

\* What follows assertExists() in the handler of each request.
FirstStage ==
    [remove |-> "rm", caption |-> "access", unimage |-> "access",
     uncaption |-> "untext", replace |-> "put", prepend |-> "readdir",
     detect |-> "readdir", meta |-> "find"]

Begins(c, r) == Becomes(c, [r EXCEPT !.at = FirstStage[op[c]]])

\* What a request may carry: an image, a text, options, metadata.
RequestBegins(c) ==
    \/ op[c] \in {"remove", "detect"} /\ Begins(c, Fresh)
    \/ /\ op[c] \in {"caption", "uncaption", "unimage", "replace"}
       /\ \E i \in Image : Begins(c, [Fresh EXCEPT !.todo = {i}])
    \/ /\ op[c] = "prepend"
       /\ \E s, t \in BOOLEAN : Begins(c, [Fresh EXCEPT !.skip = s, !.style = t])
    \/ /\ op[c] = "meta"
       /\ \/ Begins(c, [Fresh EXCEPT !.fields = [k \in {"description"} |-> c]])
          \/ Begins(c, [Fresh EXCEPT !.fields = [k \in {"captionType"} |-> "mixed"]])

\* Mutant: the metadata of a dataset that is not there can be updated.
AssertExistsLax(c) ==
    /\ At(c, "idle")
    /\ op[c] \in DOMAIN FirstStage
    /\ dir \/ op[c] = "meta"
    /\ RequestBegins(c)
    /\ stale' = [stale EXCEPT ![c] = FALSE]
    /\ UNCHANGED <<disk, row, op, crashed, before, touched, marked, want, risk>>

AssertExists(c) ==
    /\ At(c, "idle")
    /\ op[c] \in DOMAIN FirstStage
    /\ dir
    /\ RequestBegins(c)
    /\ stale' = [stale EXCEPT ![c] = FALSE]
    /\ UNCHANGED <<disk, row, op, crashed, before, touched, marked, want, risk>>

\* 404.  detectCaptionType asks a second time, in updateMeta.
NotFound(c) ==
    /\ (At(c, "idle") /\ op[c] \in DOMAIN FirstStage) \/ At(c, "assert")
    /\ ~dir
    /\ Answers(c, "error")
    /\ UNCHANGED <<disk, row, op, crashed, history>>

AssertAgain(c) ==
    /\ At(c, "assert")
    /\ dir
    /\ Goes(c, "find")
    /\ UNCHANGED <<disk, row, op, crashed, history>>

-----------------------------------------------------------------------------
(* readdir, detectCaptionTypeFromDir() and the metadata *)

ListDir(c) ==
    LET captions == {s \in Stem : text[s] # None}
    IN  /\ At(c, "readdir")
        /\ dir
        /\ IF op[c] = "prepend"
           THEN /\ Becomes(c, [call[c] EXCEPT !.at = "read", !.todo = images])
                /\ before' = [before EXCEPT ![c] = text]
                /\ touched' = [touched EXCEPT ![c] = {}]
           ELSE /\ Becomes(c, [call[c] EXCEPT !.at = "sample", !.todo = captions,
                                              !.sampled = Cardinality(captions)])
                /\ UNCHANGED <<before, touched>>
        /\ UNCHANGED <<disk, row, op, crashed, marked, stale, want, risk>>

ListFails(c) ==
    /\ At(c, "readdir")
    /\ ~dir
    /\ Answers(c, "error")
    /\ UNCHANGED <<disk, row, op, crashed, history>>

\* One caption of the sample is read; one that is gone reads as empty.
SampleCaption(c, s) ==
    /\ At(c, "sample")
    /\ s \in call[c].todo
    /\ Becomes(c, [call[c] EXCEPT
                     !.todo = @ \ {s},
                     !.tags = @ + IF text[s] # None /\ text[s].body = "tags" THEN 1 ELSE 0])
    /\ UNCHANGED <<disk, row, op, crashed, history>>

\* At least 0.6 of the sample are tag lists, at most 0.2, or between.
DetectedType(tags, n) ==
    CASE n = 0 -> "unknown"
      [] n > 0 /\ 5 * tags >= 3 * n -> "tag_list"
      [] n > 0 /\ 5 * tags <= n -> "natural_language"
      [] OTHER -> "mixed"

\* An upload saves the type itself; detectCaptionType hands it to updateMeta.
SampleDone(c) ==
    LET type == [k \in {"captionType"} |-> DetectedType(call[c].tags, call[c].sampled)]
    IN  /\ At(c, "sample")
        /\ call[c].todo = {}
        /\ Becomes(c, IF op[c] = "detect"
                      THEN [call[c] EXCEPT !.at = "assert", !.fields = type]
                      ELSE [call[c] EXCEPT !.at = "select", !.entity = type])
        /\ UNCHANGED <<disk, row, op, crashed, history>>

\* findOne: an upload of a dataset with a row has done its work; an update goes
\* on with a copy of the row, or with its fields alone.
FindRow(c) ==
    /\ At(c, "find")
    /\ \/ /\ Updates(c)
          /\ Becomes(c, [call[c] EXCEPT
                           !.at = "select",
                           !.entity = IF row = None THEN call[c].fields
                                      ELSE Assign(row, call[c].fields)])
       \/ ~Updates(c) /\ row # None /\ Answers(c, "done")
       \/ ~Updates(c) /\ row = None /\ Goes(c, "select")
    /\ UNCHANGED <<disk, row, op, crashed, history>>

\* save() reads the row again and settles whether it inserts or which columns
\* it updates: those of the entity that differ.
SelectRow(c) ==
    /\ At(c, "select")
    /\ Becomes(c, IF row = None THEN [call[c] EXCEPT !.at = "insert"]
                  ELSE [call[c] EXCEPT
                          !.at = "update",
                          !.cols = {k \in DOMAIN call[c].entity : call[c].entity[k] # row[k]}])
    /\ UNCHANGED <<disk, row, op, crashed, history>>

\* Mutant: an insert that finds the row taken is tried again.
InsertRowRetried(c) ==
    /\ At(c, "insert")
    /\ IF row = None
       THEN RowSaved(c, Assign(Defaults, call[c].entity)) /\ Answers(c, "done")
       ELSE UNCHANGED <<disk, row, call, history>>
    /\ UNCHANGED <<op, crashed>>

\* The name is the primary key: the second of two inserts fails.
InsertRow(c) ==
    /\ At(c, "insert")
    /\ IF row = None
       THEN RowSaved(c, Assign(Defaults, call[c].entity)) /\ Answers(c, "done")
       ELSE Answers(c, "error") /\ UNCHANGED <<disk, row, history>>
    /\ UNCHANGED <<op, crashed>>

\* Mutant: an update writes the row as a new one, its other columns by default.
UpdateRowWhole(c) ==
    /\ At(c, "update")
    /\ RowSaved(c, IF row = None THEN None ELSE Assign(Defaults, call[c].entity))
    /\ Answers(c, "done")
    /\ UNCHANGED <<op, crashed>>

\* An update of a row that has gone changes nothing and says nothing.
UpdateRow(c) ==
    /\ At(c, "update")
    /\ RowSaved(c, IF row = None THEN None
                   ELSE [k \in Column |-> IF k \in call[c].cols
                                          THEN call[c].entity[k] ELSE row[k]])
    /\ Answers(c, "done")
    /\ UNCHANGED <<op, crashed>>

-----------------------------------------------------------------------------
(* remove() *)

\* fs.rm empties the directory, then takes it away unless a file has come.
RmFiles(c) ==
    /\ At(c, "rm")
    /\ images' = {}
    /\ text' = [s \in Stem |-> None]
    /\ Touch(c, Stem)
    /\ Goes(c, "rmdir")
    /\ UNCHANGED <<dir, row, op, crashed, before, marked, stale, want, risk>>

RowWriter(c) == op[c] \notin DOMAIN FirstStage \/ Updates(c)

RmDir(c) ==
    /\ At(c, "rmdir")
    /\ images = {} /\ \A s \in Stem : text[s] = None
    /\ dir' = FALSE
    /\ want' = Nothing
    /\ risk' = (risk \/ \E d \in Call : RowWriter(d) /\ InFlight(d))
    /\ Goes(c, "delete")
    /\ UNCHANGED <<images, text, row, op, crashed, before, touched, marked, stale>>

RmDirFails(c) ==
    /\ At(c, "rmdir")
    /\ images # {} \/ \E s \in Stem : text[s] # None
    /\ Answers(c, "error")
    /\ UNCHANGED <<disk, row, op, crashed, history>>

\* The delete of the row; its failure is only logged.
DeleteRow(c) ==
    /\ At(c, "delete")
    /\ RowChanges(c, None)
    /\ want' = Nothing
    /\ Answers(c, "done")
    /\ UNCHANGED <<disk, op, crashed, before, touched, marked, risk>>

DeleteRowFails(c) ==
    /\ At(c, "delete")
    /\ risk' = TRUE
    /\ Answers(c, "done")
    /\ UNCHANGED <<disk, row, op, crashed, before, touched, marked, stale, want>>

-----------------------------------------------------------------------------
(* upsertCaption(), deleteCaption(), deleteImage(), replaceImage() *)

Target(c) == CHOOSE i \in call[c].todo : TRUE

\* fs.access of the image.
AccessImage(c) ==
    /\ At(c, "access")
    /\ IF Target(c) \notin images THEN Answers(c, "error")
       ELSE Goes(c, IF op[c] = "caption" THEN "put" ELSE "unlink")
    /\ UNCHANGED <<disk, row, op, crashed, history>>

\* replaceImage() does not ask whether there is an image to replace.
WriteTarget(c) ==
    /\ At(c, "put")
    /\ IF ~dir THEN Answers(c, "error") /\ UNCHANGED <<disk, history>>
       ELSE /\ Answers(c, "done")
            /\ IF op[c] = "replace" THEN PutImage(c, Target(c))
               ELSE PutText(c, StemOf[Target(c)], Written("tags"))
    /\ UNCHANGED <<row, op, crashed>>

UnlinkImage(c) ==
    /\ At(c, "unlink")
    /\ IF Target(c) \notin images
       THEN Answers(c, "error") /\ UNCHANGED <<images, touched>>
       ELSE /\ images' = images \ {Target(c)}
            /\ Touch(c, {StemOf[Target(c)]})
            /\ Goes(c, "untext")
    /\ UNCHANGED <<dir, text, row, op, crashed, before, marked, stale, want, risk>>

\* The caption goes, also when another image has the stem; none is no error.
UnlinkCaption(c) ==
    /\ At(c, "untext")
    /\ PutText(c, StemOf[Target(c)], None)
    /\ Answers(c, "done")
    /\ UNCHANGED <<row, op, crashed>>

-----------------------------------------------------------------------------
(* prependToken() *)

\* Mutant: skipExisting skips every caption that exists.
ReadCaptionSkipsAll(c, i) ==
    LET x == text[StemOf[i]]
        r == [call[c] EXCEPT !.todo = @ \ {i}]
    IN  /\ At(c, "read")
        /\ i \in call[c].todo
        /\ Becomes(c, IF x = None \/ call[c].skip THEN r
                      ELSE [r EXCEPT !.at = "rewrite",
                                     !.held = [stem |-> StemOf[i], caption |-> x]])
        /\ UNCHANGED <<disk, row, op, crashed, history>>

\* The next image is looked at: its caption is missing, or is skipped as it
\* begins with the token, or is held for rewriting.
ReadCaption(c, i) ==
    LET x == text[StemOf[i]]
        r == [call[c] EXCEPT !.todo = @ \ {i}]
    IN  /\ At(c, "read")
        /\ i \in call[c].todo
        /\ Becomes(c, IF x = None \/ (call[c].skip /\ x.opens) THEN r
                      ELSE [r EXCEPT !.at = "rewrite",
                                     !.held = [stem |-> StemOf[i], caption |-> x]])
        /\ UNCHANGED <<disk, row, op, crashed, history>>

\* buildPrependedCaption(): nl_style is the one mode that does not put the
\* token first, so that a later call would see it.
Prepended(x, style) == [x EXCEPT !.lead = @ + 1, !.opens = ~style]

\* The held caption is written with its prefix, whatever has become of the file:
\* it may bring back what a user has replaced or removed since.
RewriteCaption(c) ==
    LET s == call[c].held.stem
    IN  /\ At(c, "rewrite")
        /\ dir
        /\ text' = [text EXCEPT ![s] = Prepended(call[c].held.caption, call[c].style)]
        /\ marked' = IF call[c].skip /\ ~call[c].style THEN marked ELSE marked \cup {s}
        /\ Becomes(c, [call[c] EXCEPT !.at = "read", !.held = None])
        /\ IF s \in touched[c] THEN Touch(c, {s}) ELSE UNCHANGED touched
        /\ UNCHANGED <<dir, images, row, op, crashed, before, stale, want, risk>>

RewriteFails(c) ==
    /\ At(c, "rewrite")
    /\ ~dir
    /\ Answers(c, "error")
    /\ UNCHANGED <<disk, row, op, crashed, history>>

PrependDone(c) ==
    /\ At(c, "read")
    /\ call[c].todo = {}
    /\ Answers(c, "done")
    /\ UNCHANGED <<disk, row, op, crashed, history>>

-----------------------------------------------------------------------------
\* The API dies: requests are lost, the disk and SQLite stay.
CallsLost == call' = [c \in Call |-> IF InFlight(c) THEN [Fresh EXCEPT !.at = "lost"]
                                     ELSE call[c]]

Crash ==
    /\ ~crashed
    /\ crashed' = TRUE
    /\ CallsLost
    /\ risk' = (risk \/ \E c \in Call : At(c, "delete"))
    /\ UNCHANGED <<disk, row, op, before, touched, marked, stale, want>>

Uploads(c) ==
    /\ op[c] = "upload"
    /\ \E files \in Payloads : UploadBegins(c, files)

Requests(c) == AssertExists(c) \/ NotFound(c)

Proceeds(c) ==
    \/ Mkdir(c)
    \/ \E f \in Image \cup Stem : WriteFile(c, f)
    \/ WriteFails(c) \/ FilesWritten(c)
    \/ AssertAgain(c) \/ ListDir(c) \/ ListFails(c)
    \/ \E s \in Stem : SampleCaption(c, s)
    \/ SampleDone(c) \/ FindRow(c) \/ SelectRow(c) \/ InsertRow(c) \/ UpdateRow(c)
    \/ RmFiles(c) \/ RmDir(c) \/ RmDirFails(c) \/ DeleteRow(c) \/ DeleteRowFails(c)
    \/ AccessImage(c) \/ WriteTarget(c) \/ UnlinkImage(c) \/ UnlinkCaption(c)
    \/ \E i \in Image : ReadCaption(c, i)
    \/ RewriteCaption(c) \/ RewriteFails(c) \/ PrependDone(c)

DatasetNext ==
    \/ \E c \in Call : Uploads(c) \/ Requests(c) \/ Proceeds(c)
    \/ Crash

DatasetSpec == DatasetInit /\ [][DatasetNext]_datasetVars

-----------------------------------------------------------------------------
\* A prepend that ends has put the token before every caption of an image that
\* was there when it listed the directory and that nobody else has written or
\* removed since, and has kept the text; one whose caption it found prefixed
\* already, by itself or by others, counts as well.
PrependReaches ==
    [][\A c \in Call :
          op[c] = "prepend" /\ At(c, "read") /\ call'[c].at = "done" =>
              \A s \in {StemOf[i] : i \in images} \ touched[c] :
                  before[c][s] # None =>
                      text[s].lead > 0 /\ text[s].body = before[c][s].body]_datasetVars

\* Calls that skip captions which begin with the token, and that put it where
\* the next one sees it, never write it twice: not one after the other, not
\* overlapping, not for two images of one stem, not repeated after a failure.
PrefixedOnce ==
    \A s \in Stem \ marked : text[s] # None => text[s].lead <= 1

\* A token is prepended to every caption, and to each once.
PrependIsExact == PrependReaches /\ []PrefixedOnce

\* There is no metadata row without its directory, except until the removal that
\* is on its way has deleted it; or else a removal was cut short or failed in the
\* database, or took the directory from under a call that writes the row.
RowHasDirectory ==
    row # None /\ ~dir => risk \/ \E c \in Call : At(c, "delete")

\* What the API has acknowledged to a user as saved stays in the row until the
\* dataset is removed, through uploads, detections and crashes, unless an update
\* is written that had looked at the row before another call saved it; an upload
\* that made the directory may in that position change the type, and no more.
AcknowledgedKept ==
    /\ row = None => want = Nothing
    /\ row # None => \A k \in DOMAIN want : row[k] = want[k]
=============================================================================
