---------------------------- MODULE ChunkedUpload ----------------------------
(***************************************************************************)
(* Uploading a large archive in pieces, above Datasets: one session, its   *)
(* temporary directory, the requests that store a chunk in it and those    *)
(* that complete it.                                                       *)
(*                                                                         *)
(* Completion joins the chunks into assembled.zip, unpacks that into the   *)
(* dataset as any upload does, and removes the session, whatever came of   *)
(* that.  The archive has its list of files in its last chunk.  A request  *)
(* that stores a chunk writes it in one step.                              *)
(*                                                                         *)
(* The stream that writes assembled.zip is opened beside all that, and may *)
(* still be on its way when the completion has given up; its errors have a *)
(* listener only once the last chunk is read.                              *)
(***************************************************************************)
EXTENDS Datasets

CONSTANTS
    Chunks      \* how many chunks the archive was cut into

ASSUME ChunksAssumption == Chunks \in Nat \ {0}

VARIABLES
    session,    \* the temporary directory exists
    chunks,     \* the chunks stored in it
    zip,        \* the call that has opened assembled.zip last
    whole,      \* that file holds the whole archive
    part,       \* where a chunk or a completion stands
    had,        \* history: the chunks that were stored when a completion began
    raced       \* history: a file came into the session while it was removed

sessionVars == <<session, chunks, zip, whole>>
uploadVars  == <<datasetVars, sessionVars, part, had, raced>>

Chunk == 0..(Chunks - 1)
Settled == {"done", "failed", "unwritten", "refused", "lost"}
Part == [at : {"idle", "storing", "assembling", "extract", "opening", "unpacking",
               "cleaning", "removing"} \cup Settled,
         next : 0..Chunks, total : 0..Chunks, stream : {"none", "opening", "open"}]
Unsent == [at |-> "idle", next |-> 0, total |-> 0, stream |-> "none"]

UploadTypeOK ==
    /\ DatasetTypeOK
    /\ session \in BOOLEAN
    /\ chunks \subseteq Chunk
    /\ zip \in Call \cup {None}
    /\ whole \in BOOLEAN
    /\ ~session => chunks = {} /\ zip = None
    /\ whole => zip # None
    /\ part \in [Call -> Part]
    /\ had \in [Call -> SUBSET Chunk]
    /\ raced \in BOOLEAN

\* initChunkedUpload has made the session; any chunks may be there already.
UploadInit ==
    /\ DatasetInit
    /\ session = TRUE
    /\ chunks \in IF \E c \in Call : op[c] \in {"chunk", "complete"}
                  THEN SUBSET Chunk ELSE {{}}
    /\ zip = None
    /\ whole = FALSE
    /\ part = [c \in Call |-> Unsent]
    /\ had = [c \in Call |-> {}]
    /\ raced = FALSE

Standing(c, stage) == part[c].at = stage
Busy(c) == part[c].at \notin Settled \cup {"idle"}
Moves(c, stage) == part' = [part EXCEPT ![c].at = stage]

-----------------------------------------------------------------------------
(* saveChunk() *)

ChunkAccepted(c, i) ==
    /\ Standing(c, "idle")
    /\ session
    /\ part' = [part EXCEPT ![c] = [Unsent EXCEPT !.at = "storing", !.next = i]]
    /\ UNCHANGED <<datasetVars, sessionVars, had, raced>>

\* 400: no such session, for a chunk or a completion.
Refused(c) ==
    /\ Standing(c, "idle")
    /\ ~session
    /\ Moves(c, "refused")
    /\ UNCHANGED <<datasetVars, sessionVars, had, raced>>

StoreChunk(c) ==
    /\ Standing(c, "storing")
    /\ IF session THEN chunks' = chunks \cup {part[c].next} /\ Moves(c, "done")
       ELSE UNCHANGED chunks /\ Moves(c, "failed")
    /\ UNCHANGED <<datasetVars, session, zip, whole, had, raced>>

-----------------------------------------------------------------------------
(* completeChunkedUpload() *)

\* The session is there; the open of assembled.zip is on its way.
CompleteBegins(c, n) ==
    /\ Standing(c, "idle")
    /\ session
    /\ part' = [part EXCEPT ![c] = [Unsent EXCEPT !.at = "assembling", !.total = n, !.stream = "opening"]]
    /\ had' = [had EXCEPT ![c] = chunks]
    /\ UNCHANGED <<datasetVars, sessionVars, raced>>

\* The open creates the file or empties the one another completion writes.  A
\* stream that was destroyed meanwhile is closed at once.
OpenZip(c) ==
    /\ part[c].stream = "opening"
    /\ session
    /\ zip' = c
    /\ whole' = FALSE
    /\ part' = [part EXCEPT ![c].stream = IF Standing(c, "assembling") THEN "open" ELSE "none"]
    /\ UNCHANGED <<datasetVars, session, chunks, had, raced>>

AllLost ==
    /\ CallsLost
    /\ part' = [c \in Call |-> IF Busy(c) THEN [Unsent EXCEPT !.at = "lost"]
                               ELSE [part[c] EXCEPT !.stream = "none"]]
    /\ crashed' = TRUE
    /\ risk' = (risk \/ \E c \in Call : At(c, "delete"))
    /\ UNCHANGED <<disk, row, op, before, touched, marked, stale, want, sessionVars,
                   had, raced>>

\* All chunks are read, and the stream has its listeners.
Heard(c) == Standing(c, "assembling") /\ part[c].next = part[c].total

\* The session was removed before the open, by another completion or by the one
\* that missed a chunk.  The stream has no error listener while the chunks are
\* read, nor after it was destroyed: the API dies.
OpenUnheard(c) ==
    /\ part[c].stream = "opening"
    /\ ~session
    /\ ~Heard(c)
    /\ AllLost

\* The open fails, or a write: the completion is rejected before the try whose
\* finally removes the session.
StreamFails(c) ==
    /\ Heard(c)
    /\ part[c].stream = "open" \/ ~session
    /\ part' = [part EXCEPT ![c].at = "unwritten", ![c].stream = "none"]
    /\ UNCHANGED <<datasetVars, sessionVars, had, raced>>

\* A chunk is missing: the stream is destroyed, which waits for its open.
GivesUp(c) ==
    part' = [part EXCEPT ![c].at = "cleaning", ![c].stream = IF @ = "opening" THEN @ ELSE "none"]

\* Mutant: chunks are counted from one.
ReadChunkFromOne(c) ==
    /\ Standing(c, "assembling")
    /\ part[c].next < part[c].total
    /\ IF part[c].next + 1 \in chunks
       THEN part' = [part EXCEPT ![c].next = @ + 1]
       ELSE GivesUp(c)
    /\ UNCHANGED <<datasetVars, sessionVars, had, raced>>

\* The next chunk is read, or missing.
ReadChunk(c) ==
    /\ Standing(c, "assembling")
    /\ part[c].next < part[c].total
    /\ IF part[c].next \in chunks
       THEN part' = [part EXCEPT ![c].next = @ + 1]
       ELSE GivesUp(c)
    /\ UNCHANGED <<datasetVars, sessionVars, had, raced>>

\* The stream has finished.  Too small a number of chunks gives no archive, and
\* one that another completion has emptied since is whole again or not.
Assembled(c) ==
    /\ Heard(c)
    /\ part[c].stream = "open"
    /\ LET all == zip # None /\ part[c].total = Chunks
       IN  whole' \in IF zip = c THEN {all} ELSE {whole, whole \/ all}
    /\ part' = [part EXCEPT ![c].at = "extract", ![c].stream = "none"]
    /\ UNCHANGED <<datasetVars, session, chunks, zip, had, raced>>

\* extractZipFile(): a dataset that is there is a conflict unless overwrite.
Conflict(c) ==
    /\ Standing(c, "extract")
    /\ dir
    /\ Moves(c, "cleaning")
    /\ UNCHANGED <<datasetVars, sessionVars, had, raced>>

Extract(c) ==
    /\ Standing(c, "extract")
    /\ \E files \in Payloads : UploadBegins(c, files)
    /\ Moves(c, "opening")
    /\ UNCHANGED <<sessionVars, had, raced>>

\* unzipper.Open.file, after the mkdir: it finds the list of files, or fails.
ListZip(c) ==
    /\ Standing(c, "opening")
    /\ At(c, "write")
    /\ whole
    /\ Moves(c, "unpacking")
    /\ UNCHANGED <<datasetVars, sessionVars, had, raced>>

\* The archive, or the entry that is next, cannot be read any more.
ZipFails(c) ==
    /\ At(c, "write")
    /\ Standing(c, "opening") \/ (Standing(c, "unpacking") /\ call[c].todo # {})
    /\ ~whole
    /\ Answers(c, "error")
    /\ UNCHANGED <<disk, row, op, crashed, history, sessionVars, part, had, raced>>

\* Files are unpacked from the archive as long as it is whole; what follows is
\* the end of any upload.
Unpacks(c) ==
    /\ op[c] = "complete"
    /\ \/ Mkdir(c)
       \/ Standing(c, "unpacking") /\ whole /\ \E f \in Image \cup Stem : WriteFile(c, f)
       \/ Standing(c, "unpacking") /\ (WriteFails(c) \/ FilesWritten(c))
       \/ ListDir(c) \/ ListFails(c)
       \/ \E s \in Stem : SampleCaption(c, s)
       \/ SampleDone(c) \/ FindRow(c) \/ SelectRow(c) \/ InsertRow(c) \/ UpdateRow(c)
    /\ UNCHANGED <<sessionVars, part, had, raced>>

Unpacked(c) == part[c].at \in {"opening", "unpacking"} /\ call[c].at \in Ended
Outcome(c) == IF At(c, "done") THEN "done" ELSE "failed"

\* fs.rm: the session is listed and its files are unlinked ...
Sweep(c) ==
    /\ Standing(c, "cleaning") \/ Unpacked(c)
    /\ Moves(c, "removing")
    /\ chunks' = {} /\ zip' = None /\ whole' = FALSE
    /\ UNCHANGED <<datasetVars, session, had, raced>>

\* Mutant: the session is removed after a successful extraction only.
CleanOnSuccess(c) ==
    /\ Standing(c, "removing")
    /\ Moves(c, Outcome(c))
    /\ LET left == chunks # {} \/ zip # None
       IN  /\ session' = (session /\ (left \/ Outcome(c) = "failed"))
           /\ raced' = (raced \/ left)
    /\ UNCHANGED <<datasetVars, chunks, zip, whole, had>>

\* ... and its directory is removed.  That fails if a chunk or an archive has come
\* in between, and is ignored.
Clean(c) ==
    /\ Standing(c, "removing")
    /\ Moves(c, Outcome(c))
    /\ LET left == chunks # {} \/ zip # None
       IN  /\ session' = (session /\ left)
           /\ raced' = (raced \/ left)
    /\ UNCHANGED <<datasetVars, chunks, zip, whole, had>>

-----------------------------------------------------------------------------
Dies == ~crashed /\ AllLost

ChunkStep(c) ==
    /\ op[c] = "chunk"
    /\ (\E i \in Chunk : ChunkAccepted(c, i)) \/ Refused(c)

CompleteStep(c) ==
    /\ op[c] = "complete"
    /\ (\E n \in 1..Chunks : CompleteBegins(c, n)) \/ Refused(c)

SessionProceeds(c) ==
    \/ StoreChunk(c) \/ OpenZip(c) \/ OpenUnheard(c) \/ StreamFails(c) \/ ReadChunk(c) \/ Assembled(c)
    \/ Conflict(c) \/ Extract(c) \/ ListZip(c) \/ ZipFails(c) \/ Unpacks(c)
    \/ Sweep(c) \/ Clean(c)

DatasetStep(c) ==
    /\ op[c] \notin {"chunk", "complete"}
    /\ Proceeds(c) \/ (At(c, "assert") /\ NotFound(c))
    /\ UNCHANGED <<sessionVars, part, had, raced>>

UploadNext ==
    \/ \E c \in Call :
          \/ ChunkStep(c) \/ CompleteStep(c) \/ SessionProceeds(c) \/ DatasetStep(c)
          \/ (Uploads(c) \/ Requests(c)) /\ UNCHANGED <<sessionVars, part, had, raced>>
    \/ Dies

\* As long as a request is pending the event loop, the disk or the database goes
\* on with some request.  Nobody has to send one.
UploadFairness == WF_uploadVars(\E c \in Call : SessionProceeds(c) \/ DatasetStep(c))

UploadSpec == UploadInit /\ [][UploadNext]_uploadVars
FairUploadSpec == UploadSpec /\ UploadFairness

-----------------------------------------------------------------------------
\* A completion gives up for a missing chunk only when that chunk had not been
\* stored before it began, or when another completion removes or has removed the
\* session: a client that waits for its chunks, as the UI does, is never told
\* otherwise.
MissingIsReal ==
    [][\A c \in Call :
          Standing(c, "assembling") /\ part'[c].at = "cleaning" =>
              \/ part[c].next \notin had[c]
              \/ ~session \/ raced \/ \E d \in Call : Standing(d, "removing")]_uploadVars

\* A completion that was answered, well or not, has left no temporary directory
\* behind, unless a chunk or an archive on its way arrived in the middle of the
\* removal.  One whose archive could not be written is not answered by way of the
\* removal, and leaves the directory with all its chunks.
SessionGone ==
    \A c \in Call :
        op[c] = "complete" /\ part[c].at \in {"done", "failed"} => ~session \/ raced

Pending(c) == InFlight(c) \/ Busy(c)

\* Every request that has begun is answered, or the API has died under it:
\* removals, uploads and completions do not wait for each other.
RequestEnds == (\E c \in Call : Pending(c)) ~> (\A c \in Call : ~Pending(c))
=============================================================================
