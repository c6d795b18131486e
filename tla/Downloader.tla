----------------------------- MODULE Downloader -----------------------------
(***************************************************************************)
(* DownloaderService: downloads that write below the models directory, and *)
(* end in a rescan by ModelsService.                                       *)
(*                                                                         *)
(* Nothing reserves a destination.  start() looks whether the file is      *)
(* there, and the file only appears when the answer to the request has     *)
(* come and its stream is open; until then further downloads of the same   *)
(* destination start as well, and all of them write, truncate and unlink   *)
(* by path.  A file on disk is therefore named after the download whose    *)
(* open created it; another open of the same path shares and truncates it. *)
(*                                                                         *)
(* File operations run on the thread pool: each takes effect in a step of  *)
(* its own, in no fixed order.  A download is a member of Call, and its    *)
(* rescan is the scan of that call.                                        *)
(***************************************************************************)
EXTENDS ModelsCache

CONSTANTS
    Download,   \* calls of start(), each used once
    Old         \* what a file holds that was there before

ASSUME DownloadAssumption ==
    /\ Download \subseteq Call
    /\ Content = Download \cup {Old}
    /\ Old \notin Download

VARIABLES
    dest,       \* the destination of a download
    status,     \* DownloadJob.status, "none" before the job exists
    fetch,      \* where fetchToFile() stands
    aborts,     \* the keys of the aborts map
    opens,      \* downloads whose open is on the thread pool
    unlinks,    \* downloads whose unlink is on the thread pool
    wrote,      \* the file a stream writes to, NoFile before its open
    owner,      \* the last download that opened (and truncated) a file
    whole,      \* files that hold everything their last opener received
    \* history:
    met,        \* downloads that shared their destination with another call
    late        \* downloads whose own unlink came before their open

downloadVars == <<status, fetch, aborts, opens, unlinks, wrote, owner, whole,
                  late>>
vars == <<cacheVars, downloadVars, dest, met>>

Request == Call \ Download

DownloadStatus ==
    {"downloading", "completed", "failed", "cancelled", "skipped"}
FetchStage == {"idle", "request", "stream", "cleanup", "over"}
Final == {"completed", "failed", "skipped"}

TypeOK ==
    /\ CacheTypeOK
    /\ dest \in [Download -> File]
    /\ status \in [Download -> DownloadStatus \cup {"none"}]
    /\ fetch \in [Download -> FetchStage]
    /\ aborts \subseteq Download
    /\ opens \subseteq Download
    /\ unlinks \subseteq Download
    /\ wrote \in [Download -> Download \cup {NoFile}]
    /\ owner \in [Download -> Download]
    /\ whole \subseteq Download
    /\ met \subseteq Download
    /\ late \subseteq Download

Init ==
    /\ CacheInit
    /\ \A f \in File : disk[f] \in {NoFile, Old}
    /\ dest \in [Download -> File]
    /\ status = [d \in Download |-> "none"]
    /\ fetch = [d \in Download |-> "idle"]
    /\ aborts = {}
    /\ opens = {}
    /\ unlinks = {}
    /\ wrote = [d \in Download |-> NoFile]
    /\ owner = [d \in Download |-> d]
    /\ whole = {}
    /\ met = {}
    /\ late = {}

-----------------------------------------------------------------------------
\* A download that may still touch its destination.
Touching(d) == fetch[d] \in {"request", "stream"} \/ d \in opens \cup unlinks

Rivals(d) == {e \in Download \ {d} : dest[e] = dest[d] /\ Touching(e)}

\* start() after its mkdir: the file is there, the job is born skipped.
Skip(d) ==
    /\ fetch[d] = "idle"
    /\ dest[d] \in OnDisk
    /\ fetch' = [fetch EXCEPT ![d] = "over"]
    /\ status' = [status EXCEPT ![d] = "skipped"]
    /\ UNCHANGED <<cacheVars, dest, aborts, opens, unlinks, wrote, owner, whole,
                   met, late>>

\* start() finds no file: runDownload() registers its AbortController and sends
\* the request, all before its first await.
Start(d) ==
    /\ fetch[d] = "idle"
    /\ dest[d] \notin OnDisk
    /\ fetch' = [fetch EXCEPT ![d] = "request"]
    /\ status' = [status EXCEPT ![d] = "downloading"]
    /\ aborts' = aborts \cup {d}
    /\ met' = IF Rivals(d) = {} THEN met ELSE met \cup {d} \cup Rivals(d)
    /\ UNCHANGED <<cacheVars, dest, opens, unlinks, wrote, owner, whole, late>>

\* The answer is a 200, after any number of redirects: the stream is created
\* and its open issued.  Nothing looks whether the signal is already aborted.
Respond(d) ==
    /\ fetch[d] = "request"
    /\ fetch' = [fetch EXCEPT ![d] = "stream"]
    /\ opens' = opens \cup {d}
    /\ UNCHANGED <<cacheVars, dest, status, aborts, unlinks, wrote, owner,
                   whole, met, late>>

\* The open takes effect: it creates the file, or truncates the one it finds.
Open(d) ==
    LET f == dest[d]
        file == IF disk[f] \in Download THEN disk[f] ELSE d
    IN  /\ d \in opens
        /\ opens' = opens \ {d}
        /\ Put(f, file)
        /\ wrote' = [wrote EXCEPT ![d] = file]
        /\ owner' = [owner EXCEPT ![file] = d]
        /\ whole' = whole \ {file}
        /\ UNCHANGED <<cache, callVars, dest, status, fetch, aborts, unlinks,
                       met, late>>

\* Mutant: the whole file is announced before its stream is open.
FinishEarly(d) ==
    /\ fetch[d] = "stream"
    /\ fetch' = [fetch EXCEPT ![d] = "over"]
    /\ status' = [status EXCEPT ![d] = "completed"]
    /\ ScanBegins(d)
    /\ UNCHANGED <<disk, cache, strict, victims, gone, dest, aborts, opens,
                   unlinks, wrote, owner, whole, met, late>>

\* The stream finishes: the job is completed and the rescan begins, in one turn
\* of the event loop.  What was truncated under the stream is missing.
Finish(d) ==
    /\ fetch[d] = "stream"
    /\ d \notin opens
    /\ fetch' = [fetch EXCEPT ![d] = "over"]
    /\ status' = [status EXCEPT ![d] = "completed"]
    /\ whole' = IF owner[wrote[d]] = d THEN whole \cup {wrote[d]} ELSE whole
    /\ ScanBegins(d)
    /\ UNCHANGED <<disk, cache, strict, victims, gone, dest, aborts, opens,
                   unlinks, wrote, owner, met, late>>

\* Mutant: a failed download leaves its file.
FailKeepsFile(d) ==
    /\ fetch[d] \in {"request", "stream"}
    /\ fetch' = [fetch EXCEPT ![d] = "over"]
    /\ status' = [status EXCEPT ![d] = "failed"]
    /\ aborts' = aborts \ {d}
    /\ UNCHANGED <<cacheVars, dest, opens, unlinks, wrote, owner, whole, met,
                   late>>

\* The request is refused, or the connection, the open or a write fails: Failed,
\* even after a cancel, and the destination is unlinked whoever has put it there.
Fail(d) ==
    /\ fetch[d] \in {"request", "stream"}
    /\ fetch' = [fetch EXCEPT ![d] = "cleanup"]
    /\ status' = [status EXCEPT ![d] = "failed"]
    /\ unlinks' = unlinks \cup {d}
    /\ \E left \in {opens, opens \ {d}} : opens' = left
    /\ UNCHANGED <<cacheVars, dest, aborts, wrote, owner, whole, met, late>>

\* Mutant: cancel() takes a completed download as well.
CancelAny(d) ==
    /\ status[d] \in {"downloading", "completed"}
    /\ status' = [status EXCEPT ![d] = "cancelled"]
    /\ fetch' = [fetch EXCEPT ![d] = IF @ = "stream" THEN "over" ELSE @]
    /\ IF fetch[d] = "stream"
       THEN aborts' = aborts \ {d} /\ unlinks' = unlinks \cup {d}
       ELSE UNCHANGED <<aborts, unlinks>>
    /\ UNCHANGED <<cacheVars, dest, opens, wrote, owner, whole, met, late>>

\* cancel(): with a stream, its abort listener destroys it, issues the unlink
\* and rejects, which ends runDownload().  Before the answer nobody listens to
\* the signal, and the download goes on.
Cancel(d) ==
    /\ status[d] = "downloading"
    /\ status' = [status EXCEPT ![d] = "cancelled"]
    /\ fetch' = [fetch EXCEPT ![d] = IF @ = "stream" THEN "over" ELSE @]
    /\ IF fetch[d] = "stream"
       THEN aborts' = aborts \ {d} /\ unlinks' = unlinks \cup {d}
       ELSE UNCHANGED <<aborts, unlinks>>
    /\ UNCHANGED <<cacheVars, dest, opens, wrote, owner, whole, met, late>>

\* The unlink takes effect, or finds nothing.
Cleanup(d) ==
    /\ d \in unlinks
    /\ unlinks' = unlinks \ {d}
    /\ Remove(dest[d])
    /\ late' = IF d \in opens THEN late \cup {d} ELSE late
    /\ IF fetch[d] = "cleanup"
       THEN fetch' = [fetch EXCEPT ![d] = "over"] /\ aborts' = aborts \ {d}
       ELSE UNCHANGED <<fetch, aborts>>
    /\ UNCHANGED <<cache, callVars, dest, status, opens, wrote, owner, whole,
                   met>>

\* The rescan after a completed download; its end is the end of runDownload().
Rescan(d) ==
    /\ ScanStep(d)
    /\ aborts' = IF stage'[d] = "done" THEN aborts \ {d} ELSE aborts
    /\ UNCHANGED <<status, fetch, opens, unlinks, wrote, owner, whole, late,
                   dest, met>>

-----------------------------------------------------------------------------
(* ModelsService beside the downloads *)

\* A user deletes a file: downloads of that destination are met.
DeleteFile(c, f) ==
    /\ Unlink(c, f)
    /\ met' = met \cup {d \in Download : dest[d] = f /\ fetch[d] # "idle"}
    /\ UNCHANGED <<downloadVars, dest>>

ModelsStep(c) ==
    /\ \/ ScanStep(c)
       \/ Refresh(c) \/ Deleted(c)
       \/ \E f \in File : DeleteOne(c, f) \/ UnlinkFails(c, f)
       \/ \E a \in Arch : DeleteArch(c, a)
    /\ UNCHANGED <<downloadVars, dest, met>>

DownloadStep(d) ==
    \/ Skip(d) \/ Start(d) \/ Respond(d) \/ Open(d) \/ Finish(d) \/ Fail(d)
    \/ Cancel(d) \/ Cleanup(d) \/ Rescan(d)

Next ==
    \/ \E d \in Download : DownloadStep(d)
    \/ \E c \in Request : ModelsStep(c) \/ \E f \in File : DeleteFile(c, f)

Spec == Init /\ [][Next]_vars

-----------------------------------------------------------------------------
\* A completed download that met no other call at its destination has all of
\* its file on disk, cancelled too early or not.
CompletedIsWhole ==
    \A d \in Download \ met :
        status[d] = "completed" => disk[dest[d]] = d /\ d \in whole

\* A download that failed or was cancelled leaves no file of its own, once its
\* file operations are through, whatever other calls it met; unless its unlink
\* overtook its open.
NoPartialLeft ==
    \A d \in Download \ late :
        status[d] \in {"failed", "cancelled"} /\ ~Touching(d)
            => disk[dest[d]] # d

\* What the status of a download says of its file is true of the disk.
StatusTellsDisk == CompletedIsWhole /\ NoPartialLeft

\* A download is skipped for a whole file; for part of one only while another
\* download is at work on it, or after an unlink that overtook its open.
SkippedIsWhole ==
    [][\A d \in Download :
          status[d] = "none" /\ status'[d] = "skipped" =>
              LET file == disk[dest[d]]
              IN  \/ file = Old \/ file \in whole
                  \/ Rivals(d) # {}
                  \/ owner[file] \in late]_vars

\* Completed, Failed and Skipped are final: no late event and no cancel changes
\* them.
FinalStatus ==
    [][\A d \in Download : status[d] \in Final => status'[d] = status[d]]_vars

\* The rescan of a completed download lists its file, whatever scans and other
\* downloads run beside it, if it met no other call and no file vanished.
ListedWhenRescanned ==
    [][\A d \in Download \ met :
          stage[d] = "scanning" /\ stage'[d] = "done" /\ ~gone[d]
              => dest[d] \in cache']_vars

(* What the repository says and the code does not do *)

\* downloader.controller.ts: a pending or in-progress download that is cancelled
\* is stopped, so it never completes.
CancelStopsDownload ==
    [][\A d \in Download :
          status[d] = "cancelled" => status'[d] # "completed"]_vars

\* downloader.service.ts: the rescan makes the new file appear in GET /models.
NewFileListed ==
    \A d \in Download :
        /\ status[d] = "completed" /\ dest[d] \in OnDisk
        /\ stage[d] = "done"
        /\ \A c \in Call : stage[c] \notin {"deleting", "scanning"}
        => dest[d] \in cache
=============================================================================
