-------------------------- MODULE DownloaderProofs --------------------------
(***************************************************************************)
(* What downloads leave on disk and in the list, for any downloads, files  *)
(* and requests.  Nothing reserves a destination, so the argument goes by  *)
(* who can touch it: a download that met no other call has been alone with *)
(* its file from its start on, and once it is completed the file keeps     *)
(* others from starting.                                                   *)
(***************************************************************************)
EXTENDS Downloader, ModelsPages, FiniteSetTheorems, TLAPS

-----------------------------------------------------------------------------
(* The scans of ModelsCache, whatever else the calls do *)

\* What a scan in progress has seen, and what is left for it to see; a call
\* that is not scanning holds nothing of a scan.
ScanInv(c) ==
    IF stage[c] = "scanning"
    THEN /\ found[c] \cup listed[c] \cup OnDisk \subseteq ever[c]
         /\ always[c] \subseteq OnDisk
         /\ always[c] \subseteq
              found[c] \cup listed[c] \cup {f \in File : DirOf[f] \in unread[c]}
         /\ listed[c] \subseteq OnDisk \/ gone[c]
    ELSE /\ found[c] = {} /\ listed[c] = {} /\ always[c] = {}
         /\ ~gone[c]

CacheInv == CacheTypeOK /\ \A c \in Call : ScanInv(c)

\* The first state: no call has begun.
LEMMA CacheInitInv == CacheInit => CacheInv
BY DEF CacheInit, CacheInv, CacheTypeOK, ScanInv, OnDisk, CallStage

\* A call of refresh(), or a deletion that is through, begins to scan.
LEMMA ScanBeginsInv ==
    ASSUME CacheInv, NEW i \in Call, stage[i] # "scanning", ScanBegins(i),
           UNCHANGED <<disk, cache, strict, victims, gone>>
    PROVE  CacheInv'
<1> USE DEF CacheInv, ScanBegins
<1>1. CacheTypeOK'
  BY DEF CacheTypeOK, CallStage, OnDisk
<1>2. ASSUME NEW c \in Call PROVE ScanInv(c)'
  <2>1. OnDisk' = OnDisk
    BY DEF OnDisk
  <2>2. CASE c = i
    <3>1. stage'[i] = "scanning" /\ ever'[i] = OnDisk /\ always'[i] = OnDisk
            /\ unread'[i] = Dir
      BY DEF CacheTypeOK
    <3>2. found'[i] = {} /\ listed'[i] = {}
      BY DEF ScanInv
    <3>3. \A f \in File : DirOf[f] \in Dir
      BY PlaceAssumption
    <3> QED
      BY <2>1, <2>2, <3>1, <3>2, <3>3 DEF ScanInv, OnDisk
  <2>3. CASE c # i
    BY <2>1, <2>3 DEF CacheTypeOK, ScanInv
  <2> QED
    BY <2>2, <2>3
<1> QED
  BY <1>1, <1>2

\* A directory read: its files move from unread to listed.
LEMMA ReadDirInv ==
    ASSUME CacheInv, NEW i \in Call, NEW d \in Dir, ReadDir(i, d)
    PROVE  CacheInv'
<1> USE DEF CacheInv, ReadDir, history
<1>1. CacheTypeOK'
  BY DEF CacheTypeOK, OnDisk
<1>2. ASSUME NEW c \in Call PROVE ScanInv(c)'
  <2>1. OnDisk' = OnDisk
    BY DEF OnDisk
  <2>2. CASE c = i
    <3>1. /\ unread'[i] = unread[i] \ {d}
          /\ listed'[i] = listed[i] \cup {f \in OnDisk : DirOf[f] = d}
      BY DEF CacheTypeOK
    <3>2. ScanInv(i)
      OBVIOUS
    <3>3. OnDisk \subseteq File
      BY DEF OnDisk
    <3> QED
      BY <2>1, <2>2, <3>1, <3>2, <3>3 DEF ScanInv
  <2>3. CASE c # i
    BY <2>1, <2>3 DEF CacheTypeOK, ScanInv
  <2> QED
    BY <2>2, <2>3
<1> QED
  BY <1>1, <1>2

\* A file with its stat moves from listed to found.
LEMMA StatFileInv ==
    ASSUME CacheInv, NEW i \in Call, NEW f \in File, StatFile(i, f)
    PROVE  CacheInv'
<1> USE DEF CacheInv, StatFile, history
<1>1. CacheTypeOK'
  BY DEF CacheTypeOK, OnDisk
<1>2. ASSUME NEW c \in Call PROVE ScanInv(c)'
  <2>1. OnDisk' = OnDisk
    BY DEF OnDisk
  <2>2. CASE c = i
    <3>1. /\ listed'[i] = listed[i] \ {f}
          /\ found'[i] = found[i] \cup {f}
      BY DEF CacheTypeOK
    <3>2. ScanInv(i)
      OBVIOUS
    <3> QED
      BY <2>1, <2>2, <3>1, <3>2 DEF ScanInv
  <2>3. CASE c # i
    BY <2>1, <2>3 DEF CacheTypeOK, ScanInv
  <2> QED
    BY <2>2, <2>3
<1> QED
  BY <1>1, <1>2

\* The end of a scan, whatever it leaves in the list.
LEMMA ScanResultInv ==
    ASSUME CacheInv, NEW i \in Call, NEW files \in SUBSET File,
           ScanResult(i, files)
    PROVE  CacheInv'
<1> USE DEF CacheInv, ScanResult
<1>1. CacheTypeOK'
  BY DEF CacheTypeOK, CallStage
<1>2. ASSUME NEW c \in Call PROVE ScanInv(c)'
  <2>1. OnDisk' = OnDisk
    BY DEF OnDisk
  <2> QED
    BY <2>1 DEF CacheTypeOK, ScanInv
<1> QED
  BY <1>1, <1>2

\* A file that appears was there at some time.
LEMMA PutInv ==
    ASSUME CacheInv, NEW f \in File, NEW x \in Content, Put(f, x),
           UNCHANGED <<cache, callVars>>
    PROVE  CacheInv'
<1> USE DEF CacheInv, Put, callVars, scanVars
<1>1. CacheTypeOK'
  BY DEF CacheTypeOK
<1>2. ASSUME NEW c \in Call PROVE ScanInv(c)'
  <2>1. OnDisk' = OnDisk \cup {f}
    BY NoFileAssumption DEF OnDisk, CacheTypeOK
  <2>2. CASE stage[c] = "scanning"
    <3>1. ever'[c] = ever[c] \cup {f}
      BY <2>2
    <3>2. ScanInv(c)
      OBVIOUS
    <3> QED
      BY <2>1, <2>2, <3>1, <3>2 DEF ScanInv
  <2>3. CASE stage[c] # "scanning"
    BY <2>3 DEF ScanInv
  <2> QED
    BY <2>2, <2>3
<1> QED
  BY <1>1, <1>2

\* A file that vanishes was not there all the time, and marks the scans.
LEMMA RemoveInv ==
    ASSUME CacheInv, NEW f \in File, Remove(f),
           UNCHANGED <<cache, stage, strict, scanVars>>,
           victims' \in [Call -> SUBSET File]
    PROVE  CacheInv'
<1> USE DEF CacheInv, Remove, scanVars
<1>1. CacheTypeOK'
  BY DEF CacheTypeOK
<1>2. ASSUME NEW c \in Call PROVE ScanInv(c)'
  <2>1. OnDisk' = OnDisk \ {f}
    BY DEF OnDisk, CacheTypeOK
  <2>2. ScanInv(c)
    OBVIOUS
  <2>3. always'[c] = always[c] \ {f}
          /\ gone'[c] = (gone[c] \/ (stage[c] = "scanning" /\ f \in OnDisk))
    OBVIOUS
  <2>4. CASE stage[c] = "scanning"
    BY <2>1, <2>2, <2>3, <2>4 DEF ScanInv
  <2>5. CASE stage[c] # "scanning"
    BY <2>2, <2>3, <2>5 DEF ScanInv
  <2> QED
    BY <2>4, <2>5
<1> QED
  BY <1>1, <1>2

\* A step that only moves a call between stages outside a scan.
LEMMA StageInv ==
    ASSUME CacheInv, NEW i \in Call, stage[i] # "scanning",
           NEW s \in CallStage \ {"scanning"},
           stage' = [stage EXCEPT ![i] = s],
           strict' \in [Call -> BOOLEAN], victims' \in [Call -> SUBSET File],
           UNCHANGED <<disk, cache, scanVars, history>>
    PROVE  CacheInv'
<1> USE DEF CacheInv, scanVars, history
<1>1. CacheTypeOK'
  BY DEF CacheTypeOK
<1>2. ASSUME NEW c \in Call PROVE ScanInv(c)'
  <2>1. OnDisk' = OnDisk
    BY DEF OnDisk
  <2> QED
    BY <2>1 DEF CacheTypeOK, ScanInv
<1> QED
  BY <1>1, <1>2

\* A scan in progress.
LEMMA ScanStepInv ==
    ASSUME CacheInv, NEW i \in Call, ScanStep(i)
    PROVE  CacheInv'
<1>1. CASE \E d \in Dir : ReadDir(i, d)
  BY <1>1, ReadDirInv
<1>2. CASE \E f \in File : StatFile(i, f)
  BY <1>2, StatFileInv
<1>3. ASSUME NEW f \in File, StatGone(i, f) PROVE CacheInv'
  BY <1>3, ScanResultInv DEF StatGone
<1>4. CASE ScanEnd(i)
  <2>1. found[i] \in SUBSET File
    BY DEF CacheInv, CacheTypeOK
  <2> QED
    BY <1>4, <2>1, ScanResultInv DEF ScanEnd
<1> QED
  BY <1>1, <1>2, <1>3, <1>4 DEF ScanStep

\* refresh(), deleteOne() and deleteArch() up to their scan.
LEMMA RequestStepInv ==
    ASSUME CacheInv, NEW i \in Call, RequestStep(i)
    PROVE  CacheInv'
<1>1. CacheTypeOK
  BY DEF CacheInv
<1>2. CASE Refresh(i)
  BY <1>2, ScanBeginsInv DEF Refresh
<1>3. ASSUME NEW f \in File, DeleteOne(i, f) PROVE CacheInv'
  BY <1>1, <1>3, StageInv DEF DeleteOne, CallStage, CacheTypeOK
<1>4. ASSUME NEW f \in File, Unlink(i, f) PROVE CacheInv'
  BY <1>1, <1>4, RemoveInv DEF Unlink, CacheTypeOK
<1>5. ASSUME NEW f \in File, UnlinkFails(i, f) PROVE CacheInv'
  BY <1>1, <1>5, StageInv DEF UnlinkFails, CallStage, CacheTypeOK
<1>6. ASSUME NEW a \in Arch, DeleteArch(i, a) PROVE CacheInv'
  <2> DEFINE files == {f \in cache : ArchOf[f] = a}
  <2>1. victims' \in [Call -> SUBSET File] /\ strict' \in [Call -> BOOLEAN]
    BY <1>1, <1>6 DEF DeleteArch, CacheTypeOK
  <2>2. PICK s \in {"done", "deleting"} : stage' = [stage EXCEPT ![i] = s]
    BY <1>6 DEF DeleteArch
  <2>3. /\ stage[i] # "scanning"
        /\ UNCHANGED <<disk, cache, scanVars, history>>
    BY <1>6 DEF DeleteArch
  <2> QED
    BY <2>1, <2>2, <2>3, StageInv DEF CallStage
<1>7. CASE Deleted(i)
  BY <1>7, ScanBeginsInv DEF Deleted
<1> QED
  BY <1>2, <1>3, <1>4, <1>5, <1>6, <1>7 DEF RequestStep

\* Every step.
LEMMA CacheNextInv == CacheInv /\ [CacheNext]_cacheVars => CacheInv'
<1> SUFFICES ASSUME CacheInv, [CacheNext]_cacheVars PROVE CacheInv'
  OBVIOUS
<1>1. ASSUME NEW f \in File, FileAppears(f) PROVE CacheInv'
  BY <1>1, PutInv DEF FileAppears
<1>2. ASSUME NEW f \in File, FileVanishes(f) PROVE CacheInv'
  BY <1>2, RemoveInv DEF FileVanishes, callVars, CacheInv, CacheTypeOK
<1>3. CASE UNCHANGED cacheVars
  BY <1>3 DEF cacheVars, callVars, scanVars, history, CacheInv, CacheTypeOK,
     ScanInv, OnDisk
<1> QED
  BY <1>1, <1>2, <1>3, ScanStepInv, RequestStepInv DEF CacheNext

-----------------------------------------------------------------------------
\* The invariant of the scans holds in every reachable state.
THEOREM CacheInvariance == CacheSpec => []CacheInv
<1> QED
  BY CacheInitInv, CacheNextInv, PTL DEF CacheSpec

\* Every variable keeps to its domain: the list holds model files only, a scan
\* reads directories and stats files.
THEOREM CacheTypeCorrect == CacheSpec => []CacheTypeOK
<1>1. CacheInv => CacheTypeOK
  BY DEF CacheInv
<1> QED
  BY <1>1, CacheInvariance, PTL

\* Whatever runs beside it, a scan leaves in the list all files that were there
\* all the while and none that never was; or an empty list, and then a file has
\* vanished under it.
THEOREM ScansAreFaithful == CacheSpec => ScanFaithful
<1>1. ASSUME CacheInv, [CacheNext]_cacheVars, NEW c \in Call,
             stage[c] = "scanning", stage'[c] = "done"
      PROVE  \/ always[c] \subseteq cache' /\ cache' \subseteq ever[c]
             \/ cache' = {} /\ gone[c]
  <2>1. ScanInv(c) /\ CacheTypeOK
    BY <1>1 DEF CacheInv
  <2>2. ASSUME NEW i \in Call, NEW files, ScanResult(i, files) PROVE i = c
    BY <1>1, <2>1, <2>2 DEF ScanResult, CacheTypeOK
  <2>3. ASSUME NEW i \in Call, ScanEnd(i)
        PROVE  always[c] \subseteq cache' /\ cache' \subseteq ever[c]
    <3>1. i = c /\ cache' = found[c] /\ unread[c] = {} /\ listed[c] = {}
      BY <2>2, <2>3 DEF ScanEnd, ScanResult
    <3> QED
      BY <1>1, <2>1, <3>1 DEF ScanInv
  <2>4. ASSUME NEW i \in Call, NEW f \in File, StatGone(i, f)
        PROVE  cache' = {} /\ gone[c]
    <3>1. i = c /\ cache' = {} /\ f \in listed[c] \ OnDisk
      BY <2>2, <2>4 DEF StatGone, ScanResult
    <3> QED
      BY <1>1, <2>1, <3>1 DEF ScanInv
  <2>5. ASSUME NEW i \in Call, RequestStep(i) PROVE FALSE
    BY <1>1, <2>1, <2>5 DEF RequestStep, Refresh, ScanBegins, DeleteOne, Unlink,
       UnlinkFails, DeleteArch, Deleted, CacheTypeOK
  <2>6. ASSUME NEW i \in Call, NEW d \in Dir, ReadDir(i, d) PROVE FALSE
    BY <1>1, <2>6 DEF ReadDir
  <2>7. ASSUME NEW i \in Call, NEW f \in File, StatFile(i, f) PROVE FALSE
    BY <1>1, <2>7 DEF StatFile
  <2>8. ASSUME NEW f \in File, FileAppears(f) \/ FileVanishes(f) PROVE FALSE
    BY <1>1, <2>8 DEF FileAppears, FileVanishes, callVars
  <2>9. ~UNCHANGED cacheVars
    BY <1>1 DEF cacheVars, callVars
  <2> QED
    BY <1>1, <2>3, <2>4, <2>5, <2>6, <2>7, <2>8, <2>9 DEF CacheNext, ScanStep
<1>2. CacheInv /\ [CacheNext]_cacheVars =>
        [\A c \in Call :
           stage[c] = "scanning" /\ stage'[c] = "done" =>
               \/ always[c] \subseteq cache' /\ cache' \subseteq ever[c]
               \/ cache' = {} /\ gone[c]]_cacheVars
  BY <1>1
<1> QED
  BY <1>2, CacheInvariance, PTL DEF CacheSpec, ScanFaithful

-----------------------------------------------------------------------------
(* Downloads *)

\* How status, fetch and the operations on the thread pool go together.
StageTrue(d) ==
    /\ status[d] = "none" <=> fetch[d] = "idle"
    /\ status[d] = "downloading" => fetch[d] \in {"request", "stream"}
    /\ status[d] = "failed" => fetch[d] \in {"cleanup", "over"}
    /\ status[d] = "skipped" => fetch[d] = "over"
    /\ status[d] = "completed" => fetch[d] = "over" /\ d \notin opens \cup unlinks
    /\ fetch[d] \in {"idle", "request"} => d \notin opens /\ wrote[d] = NoFile
    /\ fetch[d] \in {"idle", "request", "stream"} => d \notin unlinks
    /\ fetch[d] = "cleanup" => d \in unlinks
    /\ d \in opens => wrote[d] = NoFile
    /\ fetch[d] = "stream" /\ d \notin opens => wrote[d] # NoFile
    /\ d \in opens /\ fetch[d] = "over" => d \in unlinks \cup late
    /\ stage[d] # "idle" => status[d] = "completed"

\* A file was made at its path, its last opener writes to it, and it is whole
\* unless that opener is still at work or opened it after its own unlink.
FileTrue(f) ==
    disk[f] \in Download =>
        LET x == disk[f]
            o == owner[x]
        IN  /\ dest[x] = f /\ dest[o] = f /\ wrote[o] = x
            /\ x \in whole \/ o \in late \/ Touching(o)

FilesTrue == \A f \in File : FileTrue(f)

\* A download that met no other call is alone with its destination.
AloneTrue(d) ==
    d \notin met =>
        /\ Touching(d) \/ status[d] = "completed" => Rivals(d) = {}
        /\ fetch[d] = "request" \/ d \in opens => disk[dest[d]] = NoFile
        /\ fetch[d] = "stream" /\ d \notin opens =>
              disk[dest[d]] = d /\ wrote[d] = d /\ owner[d] = d
        /\ status[d] = "completed" => disk[dest[d]] = d /\ d \in whole
        /\ stage[d] = "scanning" => dest[d] \in always[d]

CleanTrue(d) ==
    d \notin late /\ status[d] \in {"failed", "cancelled"} /\ ~Touching(d)
        => disk[dest[d]] # d

DownloadInv ==
    /\ TypeOK
    /\ CacheInv
    /\ FilesTrue
    /\ \A d \in Download : StageTrue(d) /\ AloneTrue(d) /\ CleanTrue(d)

-----------------------------------------------------------------------------
LEMMA NoFileIsNoDownload == Download \subseteq Content /\ NoFile \notin Download
BY DownloadAssumption, NoFileAssumption

LEMMA DownloadInitInv == Init => DownloadInv
<1> SUFFICES ASSUME Init PROVE DownloadInv
  OBVIOUS
<1> USE NoFileIsNoDownload, DownloadAssumption DEF Init
<1>1. CacheInv
  BY CacheInitInv
<1>2. TypeOK
  BY <1>1 DEF CacheInv, TypeOK, FetchStage, DownloadStatus
<1>3. FilesTrue
  BY DEF FilesTrue, FileTrue
<1>4. ASSUME NEW d \in Download PROVE StageTrue(d) /\ AloneTrue(d) /\ CleanTrue(d)
  <2>1. stage[d] = "idle"
    BY DEF CacheInit
  <2> QED
    BY <2>1 DEF StageTrue, AloneTrue, CleanTrue, Touching
<1> QED
  BY <1>1, <1>2, <1>3, <1>4 DEF DownloadInv

\* Steps that leave the disk and the downloads alone, but for the rescan of one
\* and its entry in the aborts map.
LEMMA QuietInv ==
    ASSUME DownloadInv, CacheInv', UNCHANGED <<disk, dest, met>>,
           UNCHANGED <<status, fetch, opens, unlinks, wrote, owner, whole, late>>,
           aborts' \subseteq Download,
           \A d \in Download : /\ stage'[d] # "idle" => stage[d] # "idle"
                               /\ stage'[d] = "scanning" =>
                                     stage[d] = "scanning" /\ always'[d] = always[d]
    PROVE  DownloadInv'
<1> USE DEF DownloadInv
<1>1. TypeOK'
  BY DEF TypeOK, CacheInv
<1>2. FilesTrue'
  BY DEF FilesTrue, FileTrue, Touching
<1>3. ASSUME NEW d \in Download PROVE (StageTrue(d) /\ AloneTrue(d) /\ CleanTrue(d))'
  <2>1. StageTrue(d)'
    BY DEF StageTrue
  <2>2. Rivals(d)' = Rivals(d) /\ Touching(d)' = Touching(d)
    BY DEF Rivals, Touching
  <2>3. AloneTrue(d)'
    BY <2>2 DEF AloneTrue
  <2>4. CleanTrue(d)'
    BY <2>2 DEF CleanTrue
  <2> QED
    BY <2>1, <2>3, <2>4
<1> QED
  BY <1>1, <1>2, <1>3

\* A step of one scan leaves the disk and the other calls alone.
LEMMA ScanStepKeeps ==
    ASSUME CacheTypeOK, NEW i \in Call, ScanStep(i)
    PROVE  /\ disk' = disk /\ stage[i] = "scanning"
           /\ \A c \in Call \ {i} : stage'[c] = stage[c] /\ always'[c] = always[c]
           /\ stage'[i] = "scanning" => always'[i] = always[i]
<1> USE DEF CacheTypeOK
<1>1. ASSUME NEW d \in Dir, ReadDir(i, d)
      PROVE  UNCHANGED <<disk, stage, always>> /\ stage[i] = "scanning"
  BY <1>1 DEF ReadDir, history
<1>2. ASSUME NEW f \in File, StatFile(i, f)
      PROVE  UNCHANGED <<disk, stage, always>> /\ stage[i] = "scanning"
  BY <1>2 DEF StatFile, history
<1>3. ASSUME NEW files, ScanResult(i, files), stage[i] = "scanning"
      PROVE  /\ disk' = disk /\ stage'[i] = "done"
             /\ \A c \in Call \ {i} : stage'[c] = stage[c] /\ always'[c] = always[c]
  BY <1>3 DEF ScanResult
<1>4. ASSUME NEW f \in File, StatGone(i, f)
      PROVE  ScanResult(i, {}) /\ stage[i] = "scanning"
  BY <1>4 DEF StatGone
<1>5. ASSUME ScanEnd(i) PROVE ScanResult(i, found[i]) /\ stage[i] = "scanning"
  BY <1>5 DEF ScanEnd
<1>6. CASE \E d \in Dir : ReadDir(i, d)
  BY <1>1, <1>6
<1>7. CASE \E f \in File : StatFile(i, f)
  BY <1>2, <1>7
<1>8. CASE \E f \in File : StatGone(i, f)
  BY <1>3, <1>4, <1>8
<1>9. CASE ScanEnd(i)
  BY <1>3, <1>5, <1>9
<1> QED
  BY <1>6, <1>7, <1>8, <1>9 DEF ScanStep

LEMMA RescanInv ==
    ASSUME DownloadInv, NEW i \in Download, Rescan(i) PROVE DownloadInv'
<1> USE DEF Rescan
<1>1. i \in Call /\ CacheTypeOK
  BY DownloadAssumption DEF DownloadInv, CacheInv
<1>2. /\ disk' = disk /\ stage[i] = "scanning"
      /\ \A c \in Call \ {i} : stage'[c] = stage[c] /\ always'[c] = always[c]
      /\ stage'[i] = "scanning" => always'[i] = always[i]
  BY <1>1, ScanStepKeeps
<1>3. CacheInv'
  BY <1>1, ScanStepInv DEF DownloadInv
<1>4. aborts' \subseteq Download
  BY DEF DownloadInv, TypeOK
<1> QED
  BY <1>2, <1>3, <1>4, QuietInv, DownloadAssumption

\* The requests of users but for what they unlink.
LEMMA ModelsStepInv ==
    ASSUME DownloadInv, NEW i \in Request, ModelsStep(i) PROVE DownloadInv'
<1> USE DEF ModelsStep, downloadVars
<1>1. i \in Call /\ i \notin Download /\ CacheTypeOK
  BY DownloadAssumption DEF DownloadInv, CacheInv, Request
<1>2. CacheInv'
  BY <1>1, ScanStepInv, RequestStepInv DEF DownloadInv, RequestStep
<1>3. disk' = disk /\ \A c \in Call \ {i} : stage'[c] = stage[c] /\ always'[c] = always[c]
  <2>1. CASE ScanStep(i)
    BY <1>1, <2>1, ScanStepKeeps
  <2>2. CASE Refresh(i) \/ Deleted(i)
    BY <1>1, <2>2 DEF Refresh, Deleted, ScanBegins, CacheTypeOK
  <2>3. CASE \E f \in File : DeleteOne(i, f) \/ UnlinkFails(i, f)
    BY <1>1, <2>3 DEF DeleteOne, UnlinkFails, history, CacheTypeOK
  <2>4. CASE \E a \in Arch : DeleteArch(i, a)
    BY <1>1, <2>4 DEF DeleteArch, history, CacheTypeOK
  <2> QED
    BY <2>1, <2>2, <2>3, <2>4
<1>4. aborts' \subseteq Download
  BY DEF DownloadInv, TypeOK
<1> QED
  BY <1>1, <1>2, <1>3, <1>4, QuietInv, DownloadAssumption

\* A user's unlink: the downloads of that destination are met from now on.
LEMMA DeleteFileInv ==
    ASSUME DownloadInv, NEW i \in Request, NEW f \in File, DeleteFile(i, f)
    PROVE  DownloadInv'
<1> USE DEF DownloadInv, DeleteFile, downloadVars
<1>0. /\ Unlink(i, f) /\ i \in Call
      /\ UNCHANGED <<status, fetch, aborts, opens, unlinks, wrote, owner, whole, late>>
      /\ UNCHANGED <<dest, stage>>
      /\ met' = met \cup {d \in Download : dest[d] = f /\ fetch[d] # "idle"}
  BY DEF Unlink, Request
<1>1. CacheInv'
  BY <1>0, RequestStepInv DEF RequestStep
<1>2. TypeOK'
  BY <1>0, <1>1 DEF TypeOK, CacheInv
<1>3. /\ disk' = [disk EXCEPT ![f] = NoFile]
      /\ \A d \in Download : always'[d] = always[d] \ {f}
      /\ disk \in [File -> Content \cup {NoFile}]
  BY <1>0, DownloadAssumption DEF Unlink, Remove, CacheInv, CacheTypeOK
<1>4. FilesTrue'
  BY <1>0, <1>3, NoFileIsNoDownload DEF FilesTrue, FileTrue, Touching
<1>5. ASSUME NEW d \in Download PROVE (StageTrue(d) /\ AloneTrue(d) /\ CleanTrue(d))'
  <2>1. StageTrue(d) /\ AloneTrue(d) /\ CleanTrue(d) /\ dest[d] \in File
    BY DEF TypeOK
  <2>2. StageTrue(d)'
    BY <1>0, <2>1 DEF StageTrue
  <2>3. Rivals(d)' = Rivals(d) /\ Touching(d)' = Touching(d)
    BY <1>0 DEF Rivals, Touching
  <2>4. AloneTrue(d)'
    <3> SUFFICES ASSUME d \notin met' PROVE AloneTrue(d)'
      BY DEF AloneTrue
    <3>1. CASE dest[d] # f
      BY <1>0, <1>3, <2>1, <2>3, <3>1 DEF AloneTrue
    <3>2. CASE dest[d] = f
      <4>1. fetch[d] = "idle" /\ ~Touching(d)
        BY <1>0, <2>1, <3>2 DEF StageTrue, Touching
      <4> QED
        BY <1>0, <2>1, <2>2, <2>3, <4>1 DEF AloneTrue, StageTrue
    <3> QED
      BY <3>1, <3>2
  <2>5. CleanTrue(d)'
    BY <1>0, <1>3, <2>1, <2>3, NoFileIsNoDownload DEF CleanTrue
  <2> QED
    BY <2>2, <2>4, <2>5
<1> QED
  BY <1>1, <1>2, <1>4, <1>5

LEMMA SkipInv ==
    ASSUME DownloadInv, NEW i \in Download, Skip(i) PROVE DownloadInv'
<1> USE DEF DownloadInv, Skip, cacheVars, callVars, scanVars, history
<1>1. CacheInv'
  BY DEF CacheInv, CacheTypeOK, ScanInv, OnDisk
<1>2. TypeOK'
  BY <1>1 DEF TypeOK, CacheInv, FetchStage, DownloadStatus
<1>3. /\ fetch'[i] = "over" /\ status'[i] = "skipped"
      /\ \A d \in Download \ {i} : fetch'[d] = fetch[d] /\ status'[d] = status[d]
  BY DEF TypeOK
<1>4. StageTrue(i)
  OBVIOUS
<1>5. \A d \in Download : Touching(d)' <=> Touching(d)
  BY <1>3, <1>4 DEF Touching, StageTrue
<1>6. FilesTrue'
  BY <1>5 DEF FilesTrue, FileTrue, TypeOK
<1>7. ASSUME NEW d \in Download PROVE (StageTrue(d) /\ AloneTrue(d) /\ CleanTrue(d))'
  <2>1. StageTrue(d)'
    BY <1>3, <1>4 DEF StageTrue
  <2>2. Rivals(d)' = Rivals(d)
    BY <1>5 DEF Rivals
  <2>3. AloneTrue(d)'
    BY <1>3, <1>4, <1>5, <2>2 DEF AloneTrue, StageTrue
  <2>4. CleanTrue(d)'
    BY <1>3, <1>5 DEF CleanTrue
  <2> QED
    BY <2>1, <2>3, <2>4
<1> QED
  BY <1>1, <1>2, <1>6, <1>7

\* A start: whoever is at work on the destination is met from now on.
LEMMA StartInv ==
    ASSUME DownloadInv, NEW i \in Download, Start(i) PROVE DownloadInv'
<1> USE DEF DownloadInv, Start, cacheVars, callVars, scanVars, history
<1>1. CacheInv'
  BY DEF CacheInv, CacheTypeOK, ScanInv, OnDisk
<1>2. TypeOK'
  BY <1>1 DEF TypeOK, CacheInv, FetchStage, DownloadStatus, Rivals
<1>3. /\ fetch'[i] = "request" /\ status'[i] = "downloading"
      /\ \A d \in Download \ {i} : fetch'[d] = fetch[d] /\ status'[d] = status[d]
  BY DEF TypeOK
<1>4. StageTrue(i) /\ dest[i] \in File
  BY DEF TypeOK
<1>5. /\ Touching(i)'
      /\ \A d \in Download \ {i} : Touching(d)' <=> Touching(d)
  BY <1>3 DEF Touching
<1>6. FilesTrue'
  BY <1>5 DEF FilesTrue, FileTrue, TypeOK
<1>7. ASSUME NEW d \in Download PROVE (StageTrue(d) /\ AloneTrue(d) /\ CleanTrue(d))'
  <2>1. StageTrue(d)'
    BY <1>3, <1>4 DEF StageTrue
  <2>2. CleanTrue(d)'
    BY <1>3, <1>5 DEF CleanTrue
  <2>3. AloneTrue(d)'
    <3> SUFFICES ASSUME d \notin met' PROVE AloneTrue(d)'
      BY DEF AloneTrue
    <3>1. d \notin met /\ (d = i => Rivals(i) = {}) /\ d \notin Rivals(i)
      OBVIOUS
    <3>2. CASE d = i
      <4>1. Rivals(i)' = {}
        BY <1>5, <3>1, <3>2 DEF Rivals
      <4>2. disk[dest[i]] = NoFile
        BY <1>4 DEF OnDisk
      <4>3. status'[i] # "completed" /\ fetch'[i] = "request" /\ i \notin opens
        BY <1>3, <1>4 DEF StageTrue
      <4>4. stage[i] = "idle"
        BY <1>4 DEF StageTrue
      <4> QED
        BY <3>2, <4>1, <4>2, <4>3, <4>4 DEF AloneTrue
    <3>3. CASE d # i
      <4>1. (Touching(d) \/ status[d] = "completed") /\ dest[d] = dest[i] => FALSE
        <5>1. CASE Touching(d) /\ dest[d] = dest[i]
          BY <3>1, <3>3, <5>1 DEF Rivals
        <5>2. CASE status[d] = "completed" /\ dest[d] = dest[i]
          <6>1. disk[dest[d]] = d
            BY <3>1, <5>2 DEF AloneTrue
          <6> QED
            BY <1>4, <5>2, <6>1, NoFileIsNoDownload DEF OnDisk
        <5> QED
          BY <5>1, <5>2
      <4>2. Touching(d) \/ status[d] = "completed" => Rivals(d)' = Rivals(d)
        BY <1>5, <3>3, <4>1 DEF Rivals
      <4> QED
        BY <1>3, <1>5, <3>1, <3>3, <4>2 DEF AloneTrue
    <3> QED
      BY <3>2, <3>3
  <2> QED
    BY <2>1, <2>2, <2>3
<1> QED
  BY <1>1, <1>2, <1>6, <1>7

LEMMA RespondInv ==
    ASSUME DownloadInv, NEW i \in Download, Respond(i) PROVE DownloadInv'
<1> USE DEF DownloadInv, Respond, cacheVars, callVars, scanVars, history
<1>1. CacheInv'
  BY DEF CacheInv, CacheTypeOK, ScanInv, OnDisk
<1>2. TypeOK'
  BY <1>1 DEF TypeOK, CacheInv, FetchStage
<1>3. /\ fetch'[i] = "stream" /\ \A d \in Download \ {i} : fetch'[d] = fetch[d]
      /\ opens' = opens \cup {i}
  BY DEF TypeOK
<1>4. StageTrue(i)
  OBVIOUS
<1>5. \A d \in Download : Touching(d)' <=> Touching(d)
  BY <1>3 DEF Touching
<1>6. FilesTrue'
  BY <1>5 DEF FilesTrue, FileTrue, TypeOK
<1>7. ASSUME NEW d \in Download PROVE (StageTrue(d) /\ AloneTrue(d) /\ CleanTrue(d))'
  <2>1. StageTrue(d)'
    BY <1>3, <1>4 DEF StageTrue
  <2>2. CleanTrue(d)'
    BY <1>5 DEF CleanTrue
  <2>3. Rivals(d)' = Rivals(d)
    BY <1>5 DEF Rivals
  <2>4. AloneTrue(d)'
    BY <1>3, <1>5, <2>3 DEF AloneTrue
  <2> QED
    BY <2>1, <2>2, <2>4
<1> QED
  BY <1>1, <1>2, <1>6, <1>7

\* An open: it shares the file it finds, or makes one.
LEMMA OpenInv ==
    ASSUME DownloadInv, NEW i \in Download, Open(i) PROVE DownloadInv'
<1> DEFINE f == dest[i]
           file == IF disk[f] \in Download THEN disk[f] ELSE i
<1> USE DEF DownloadInv
<1>0. /\ i \in opens /\ opens' = opens \ {i} /\ Put(f, file)
      /\ wrote' = [wrote EXCEPT ![i] = file]
      /\ owner' = [owner EXCEPT ![file] = i]
      /\ whole' = whole \ {file}
      /\ UNCHANGED <<cache, callVars>>
      /\ UNCHANGED <<dest, status, fetch, aborts, unlinks, met, late, stage>>
  BY DEF Open, callVars
<1> HIDE DEF file
<1>1. f \in File /\ file \in Download /\ file \in Content /\ StageTrue(i)
  BY NoFileIsNoDownload DEF TypeOK, file
<1>2. CacheInv'
  BY <1>0, <1>1, PutInv
<1>3. TypeOK'
  BY <1>0, <1>1, <1>2 DEF TypeOK, CacheInv
<1>4. /\ disk'[f] = file /\ \A g \in File \ {f} : disk'[g] = disk[g]
      /\ wrote'[i] = file /\ \A d \in Download \ {i} : wrote'[d] = wrote[d]
      /\ owner'[file] = i /\ \A d \in Download \ {file} : owner'[d] = owner[d]
      /\ always' = always
  BY <1>0, <1>1 DEF Put, TypeOK, CacheTypeOK
<1>5. /\ \A d \in Download \ {i} : Touching(d)' <=> Touching(d)
      /\ Touching(i)
      /\ Touching(i)' \/ i \in late
  <2>1. fetch[i] \in FetchStage
    BY DEF TypeOK
  <2> QED
    BY <1>0, <1>1, <2>1 DEF Touching, StageTrue, FetchStage
<1>6. dest[file] = f
  BY <1>1 DEF FilesTrue, FileTrue, file
<1>7. FilesTrue'
  <2> SUFFICES ASSUME NEW g \in File, disk'[g] \in Download PROVE FileTrue(g)'
    BY DEF FilesTrue, FileTrue
  <2>1. CASE g = f
    <3>1. disk'[g] = file /\ owner'[file] = i /\ wrote'[i] = file
      BY <1>4, <2>1
    <3>2. \/ fetch'[i] \in {"request", "stream"} \/ i \in opens' \cup unlinks'
          \/ i \in late'
      BY <1>0, <1>5 DEF Touching
    <3> HIDE DEF f
    <3> QED
      BY <1>0, <1>6, <2>1, <3>1, <3>2 DEF FileTrue, Touching, f
  <2>2. CASE g # f
    <3>1. PICK y \in Download, o \in Download : disk[g] = y /\ owner[y] = o
      BY <1>4, <2>2 DEF TypeOK
    <3>2. /\ dest[y] = g /\ dest[o] = g /\ wrote[o] = y
          /\ y \in whole \/ o \in late \/ Touching(o)
      BY <1>4, <2>2, <3>1 DEF FilesTrue, FileTrue
    <3>3. y # file /\ o # i
      BY <1>6, <2>2, <3>2
    <3>4. disk'[g] = y /\ owner'[y] = o /\ wrote'[o] = y /\ (y \in whole => y \in whole')
      BY <1>0, <1>4, <2>2, <3>1, <3>2, <3>3
    <3>5. \/ y \in whole' \/ o \in late'
          \/ fetch'[o] \in {"request", "stream"} \/ o \in opens' \cup unlinks'
      BY <1>0, <3>2, <3>3, <3>4 DEF Touching
    <3> QED
      BY <1>0, <3>2, <3>4, <3>5 DEF FileTrue, Touching
  <2> QED
    BY <2>1, <2>2
<1>8. ASSUME NEW d \in Download PROVE (StageTrue(d) /\ AloneTrue(d) /\ CleanTrue(d))'
  <2>1. StageTrue(d)'
    BY <1>0, <1>1, <1>4, NoFileIsNoDownload DEF StageTrue
  <2>2. dest[d] \in File
    BY DEF TypeOK
  <2>3. CleanTrue(d)'
    <3>1. CASE d = i
      BY <1>0, <1>5, <3>1 DEF CleanTrue
    <3>2. CASE d # i
      BY <1>0, <1>4, <1>5, <2>2, <3>2 DEF CleanTrue, file
    <3> QED
      BY <3>1, <3>2
  <2>4. AloneTrue(d)'
    <3> SUFFICES ASSUME d \notin met PROVE AloneTrue(d)'
      BY <1>0 DEF AloneTrue
    <3>1. CASE d = i
      <4>1. disk[f] = NoFile /\ Rivals(i) = {}
        BY <1>0, <1>5, <3>1 DEF AloneTrue
      <4>2. file = i
        BY <4>1, NoFileIsNoDownload DEF file
      <4>3. Rivals(i)' = {}
        BY <1>0, <1>5, <4>1 DEF Rivals
      <4>4. status[i] # "completed" /\ fetch[i] # "request" /\ i \notin opens'
        BY <1>0, <1>1 DEF StageTrue
      <4>5. stage[i] # "scanning"
        BY <1>1, <4>4 DEF StageTrue
      <4> QED
        BY <1>0, <1>4, <3>1, <4>2, <4>3, <4>4, <4>5 DEF AloneTrue
    <3>2. CASE d # i /\ dest[d] = f
      <4>1. ~Touching(d) /\ status[d] # "completed"
        BY <1>5, <3>2 DEF AloneTrue, Rivals
      <4>2. d \notin opens' /\ fetch[d] \notin {"request", "stream"}
        BY <1>0, <4>1 DEF Touching
      <4>3. stage[d] # "scanning"
        BY <4>1 DEF StageTrue
      <4> QED
        BY <1>0, <1>5, <3>2, <4>1, <4>2, <4>3 DEF AloneTrue
    <3>3. CASE dest[d] # f
      <4>1. Rivals(d)' = Rivals(d)
        BY <1>0, <1>5, <3>3 DEF Rivals
      <4>2. d # i /\ d # file
        BY <1>6, <3>3
      <4> QED
        BY <1>0, <1>4, <1>5, <2>2, <3>3, <4>1, <4>2 DEF AloneTrue
    <3> QED
      BY <3>1, <3>2, <3>3
  <2> QED
    BY <2>1, <2>3, <2>4
<1> QED
  BY <1>2, <1>3, <1>7, <1>8

\* The end of a stream: its file is whole if nobody has opened it since.
LEMMA FinishInv ==
    ASSUME DownloadInv, NEW i \in Download, Finish(i) PROVE DownloadInv'
<1> USE DEF DownloadInv
<1>0. /\ fetch[i] = "stream" /\ i \notin opens /\ i \in Call
      /\ fetch' = [fetch EXCEPT ![i] = "over"]
      /\ status' = [status EXCEPT ![i] = "completed"]
      /\ whole' = IF owner[wrote[i]] = i THEN whole \cup {wrote[i]} ELSE whole
      /\ ScanBegins(i)
      /\ UNCHANGED <<disk, cache, strict, victims, gone>>
      /\ UNCHANGED <<dest, aborts, opens, unlinks, wrote, owner, met, late>>
  BY DownloadAssumption DEF Finish
<1>1. StageTrue(i) /\ dest[i] \in File
  BY DEF TypeOK
<1>2. stage[i] = "idle" /\ i \notin unlinks
  BY <1>0, <1>1 DEF StageTrue
<1>3. CacheInv'
  BY <1>0, <1>2, ScanBeginsInv
<1>4. /\ fetch'[i] = "over" /\ status'[i] = "completed"
      /\ \A d \in Download \ {i} : fetch'[d] = fetch[d] /\ status'[d] = status[d]
  BY <1>0 DEF TypeOK
<1>5. /\ stage'[i] = "scanning" /\ always'[i] = OnDisk
      /\ \A d \in Download \ {i} : stage'[d] = stage[d] /\ always'[d] = always[d]
  BY <1>0, DownloadAssumption DEF ScanBegins, TypeOK, CacheTypeOK
<1>6. wrote[i] \in Download \cup {NoFile}
  BY DEF TypeOK
<1>7. /\ \A d \in Download \ {i} : Touching(d)' <=> Touching(d)
      /\ Touching(i) /\ ~Touching(i)'
  BY <1>0, <1>2, <1>4 DEF Touching
<1>8. FilesTrue'
  <2> SUFFICES ASSUME NEW g \in File, disk[g] \in Download PROVE FileTrue(g)'
    BY <1>0 DEF FilesTrue, FileTrue
  <2>1. PICK y \in Download, o \in Download : disk[g] = y /\ owner[y] = o
    BY DEF TypeOK
  <2>2. /\ dest[y] = g /\ dest[o] = g /\ wrote[o] = y
        /\ y \in whole \/ o \in late \/ Touching(o)
    BY <2>1 DEF FilesTrue, FileTrue
  <2>3. o = i => y \in whole'
    BY <1>0, <2>1, <2>2
  <2>4. y \in whole' \/ o \in late' \/ fetch'[o] \in {"request", "stream"}
        \/ o \in opens' \cup unlinks'
    BY <1>0, <1>4, <2>2, <2>3 DEF Touching
  <2> QED
    BY <1>0, <2>1, <2>2, <2>4 DEF FileTrue, Touching
<1>9. ASSUME NEW d \in Download PROVE (StageTrue(d) /\ AloneTrue(d) /\ CleanTrue(d))'
  <2>1. StageTrue(d)'
    BY <1>0, <1>1, <1>2, <1>4, <1>5 DEF StageTrue
  <2>2. CleanTrue(d)'
    BY <1>0, <1>4, <1>7 DEF CleanTrue
  <2>3. AloneTrue(d)'
    <3> SUFFICES ASSUME d \notin met PROVE AloneTrue(d)'
      BY <1>0 DEF AloneTrue
    <3>1. CASE d = i
      <4>1. /\ Rivals(i) = {}
            /\ disk[dest[i]] = i /\ wrote[i] = i /\ owner[i] = i
        BY <1>0, <1>7, <3>1 DEF AloneTrue
      <4>2. Rivals(i)' = {}
        BY <1>0, <1>7, <4>1 DEF Rivals
      <4>3. i \in whole' /\ dest[i] \in OnDisk
        BY <1>0, <1>1, <4>1, NoFileIsNoDownload DEF OnDisk
      <4> QED
        BY <1>0, <1>4, <1>5, <3>1, <4>1, <4>2, <4>3 DEF AloneTrue
    <3>2. CASE d # i
      <4>1. Rivals(d)' \subseteq Rivals(d)
        BY <1>0, <1>7 DEF Rivals
      <4>2. whole \subseteq whole'
        BY <1>0
      <4> QED
        BY <1>0, <1>4, <1>5, <1>7, <3>2, <4>1, <4>2 DEF AloneTrue
    <3> QED
      BY <3>1, <3>2
  <2> QED
    BY <2>1, <2>2, <2>3
<1>10. TypeOK'
  <2>1. whole' \subseteq Download
    BY <1>0, <1>1, <1>6 DEF StageTrue, TypeOK
  <2> QED
    BY <1>0, <1>3, <2>1 DEF TypeOK, CacheInv, FetchStage, DownloadStatus
<1> QED
  BY <1>3, <1>8, <1>9, <1>10

\* A failure or a cancel: the file stays until the unlink takes effect.
LEMMA FailInv ==
    ASSUME DownloadInv, NEW i \in Download, Fail(i) PROVE DownloadInv'
<1> USE DEF DownloadInv, Fail, cacheVars, callVars, scanVars, history
<1>1. CacheInv'
  BY DEF CacheInv, CacheTypeOK, ScanInv, OnDisk
<1>2. TypeOK'
  BY <1>1 DEF TypeOK, CacheInv, FetchStage, DownloadStatus
<1>3. /\ fetch'[i] = "cleanup" /\ status'[i] = "failed"
      /\ \A d \in Download \ {i} : fetch'[d] = fetch[d] /\ status'[d] = status[d]
      /\ unlinks' = unlinks \cup {i} /\ opens' \in {opens, opens \ {i}}
  BY DEF TypeOK
<1>4. StageTrue(i)
  OBVIOUS
<1>5. /\ \A d \in Download \ {i} : Touching(d)' <=> Touching(d)
      /\ Touching(i) /\ Touching(i)'
  BY <1>3 DEF Touching
<1>6. FilesTrue'
  BY <1>5 DEF FilesTrue, FileTrue, TypeOK
<1>7. ASSUME NEW d \in Download PROVE (StageTrue(d) /\ AloneTrue(d) /\ CleanTrue(d))'
  <2>1. StageTrue(d)'
    BY <1>3, <1>4 DEF StageTrue
  <2>2. CleanTrue(d)'
    BY <1>3, <1>5 DEF CleanTrue
  <2>3. Rivals(d)' = Rivals(d)
    BY <1>5 DEF Rivals
  <2>4. AloneTrue(d)'
    <3>1. stage[d] = "scanning" => status[d] = "completed"
      BY DEF StageTrue
    <3> QED
      BY <1>3, <1>5, <2>3, <3>1 DEF AloneTrue
  <2> QED
    BY <2>1, <2>2, <2>4
<1> QED
  BY <1>1, <1>2, <1>6, <1>7

LEMMA CancelInv ==
    ASSUME DownloadInv, NEW i \in Download, Cancel(i) PROVE DownloadInv'
<1> USE DEF DownloadInv, Cancel, cacheVars, callVars, scanVars, history
<1>1. CacheInv'
  BY DEF CacheInv, CacheTypeOK, ScanInv, OnDisk
<1>2. TypeOK'
  BY <1>1 DEF TypeOK, CacheInv, FetchStage, DownloadStatus
<1>3. /\ status'[i] = "cancelled"
      /\ fetch'[i] = IF fetch[i] = "stream" THEN "over" ELSE fetch[i]
      /\ \A d \in Download \ {i} : fetch'[d] = fetch[d] /\ status'[d] = status[d]
      /\ unlinks' = IF fetch[i] = "stream" THEN unlinks \cup {i} ELSE unlinks
  BY DEF TypeOK
<1>4. StageTrue(i) /\ fetch[i] \in {"request", "stream"}
  BY DEF StageTrue
<1>5. /\ \A d \in Download \ {i} : Touching(d)' <=> Touching(d)
      /\ Touching(i) /\ Touching(i)'
  BY <1>3, <1>4 DEF Touching
<1>6. FilesTrue'
  BY <1>5 DEF FilesTrue, FileTrue, TypeOK
<1>7. ASSUME NEW d \in Download PROVE (StageTrue(d) /\ AloneTrue(d) /\ CleanTrue(d))'
  <2>1. StageTrue(d)'
    BY <1>3, <1>4 DEF StageTrue
  <2>2. CleanTrue(d)'
    BY <1>3, <1>5 DEF CleanTrue
  <2>3. Rivals(d)' = Rivals(d)
    BY <1>5 DEF Rivals
  <2>4. AloneTrue(d)'
    BY <1>3, <1>5, <2>3 DEF AloneTrue
  <2> QED
    BY <2>1, <2>2, <2>4
<1> QED
  BY <1>1, <1>2, <1>6, <1>7

\* An unlink: whoever is not alone with the destination loses the file too.
LEMMA CleanupInv ==
    ASSUME DownloadInv, NEW i \in Download, Cleanup(i) PROVE DownloadInv'
<1> USE DEF DownloadInv
<1>0. /\ i \in unlinks /\ unlinks' = unlinks \ {i}
      /\ Remove(dest[i])
      /\ late' = IF i \in opens THEN late \cup {i} ELSE late
      /\ fetch' = IF fetch[i] = "cleanup" THEN [fetch EXCEPT ![i] = "over"] ELSE fetch
      /\ aborts' = aborts \/ aborts' = aborts \ {i}
      /\ UNCHANGED <<cache, callVars>>
      /\ UNCHANGED <<dest, status, opens, wrote, owner, whole, met, stage>>
  BY DEF Cleanup, callVars
<1>1. dest[i] \in File /\ StageTrue(i)
  BY DEF TypeOK
<1>2. CacheInv'
  <2>1. victims' \in [Call -> SUBSET File] /\ UNCHANGED <<cache, stage, strict, scanVars>>
    BY <1>0 DEF callVars, TypeOK, CacheTypeOK
  <2> QED
    BY <1>0, <1>1, <2>1, RemoveInv
<1>3. TypeOK'
  BY <1>0, <1>2 DEF TypeOK, CacheInv, FetchStage
<1>4. /\ disk'[dest[i]] = NoFile
      /\ \A g \in File \ {dest[i]} : disk'[g] = disk[g]
      /\ \A d \in Download : always'[d] = always[d] \ {dest[i]}
  BY <1>0, <1>1, DownloadAssumption DEF Remove, TypeOK, CacheTypeOK
<1>5. /\ \A d \in Download \ {i} : fetch'[d] = fetch[d] /\ (Touching(d)' <=> Touching(d))
      /\ Touching(i) /\ fetch[i] \in {"cleanup", "over"} /\ fetch'[i] = "over"
  <2>1. fetch[i] \in FetchStage
    BY DEF TypeOK
  <2> QED
    BY <1>0, <1>1, <2>1 DEF Touching, TypeOK, FetchStage, StageTrue
<1>6. FilesTrue'
  <2> SUFFICES ASSUME NEW g \in File, disk'[g] \in Download PROVE FileTrue(g)'
    BY DEF FilesTrue, FileTrue
  <2>1. g # dest[i]
    BY <1>4, NoFileIsNoDownload
  <2>2. PICK y \in Download, o \in Download : disk[g] = y /\ owner[y] = o
    BY <1>4, <2>1 DEF TypeOK
  <2>3. /\ dest[y] = g /\ dest[o] = g /\ wrote[o] = y
        /\ y \in whole \/ o \in late \/ Touching(o)
    BY <2>2 DEF FilesTrue, FileTrue
  <2>4. o # i /\ disk'[g] = y
    BY <1>4, <2>1, <2>2, <2>3
  <2>5. y \in whole' \/ o \in late' \/ fetch'[o] \in {"request", "stream"}
        \/ o \in opens' \cup unlinks'
    BY <1>0, <1>5, <2>3, <2>4 DEF Touching
  <2> QED
    BY <1>0, <2>2, <2>3, <2>4, <2>5 DEF FileTrue, Touching
<1>7. ASSUME NEW d \in Download PROVE (StageTrue(d) /\ AloneTrue(d) /\ CleanTrue(d))'
  <2>1. StageTrue(d)'
    BY <1>0, <1>1, <1>5 DEF StageTrue
  <2>2. dest[d] \in File
    BY DEF TypeOK
  <2>3. CleanTrue(d)'
    <3>1. CASE dest[d] = dest[i]
      BY <1>0, <1>4, <3>1, NoFileIsNoDownload DEF CleanTrue
    <3>2. CASE dest[d] # dest[i]
      <4>1. d # i /\ disk'[dest[d]] = disk[dest[d]]
        BY <1>4, <2>2, <3>2
      <4> QED
        BY <1>0, <1>5, <4>1 DEF CleanTrue
    <3> QED
      BY <3>1, <3>2
  <2>4. AloneTrue(d)'
    <3> SUFFICES ASSUME d \notin met PROVE AloneTrue(d)'
      BY <1>0 DEF AloneTrue
    <3>1. CASE d = i
      <4>1. Rivals(i) = {} /\ (i \in opens => disk[dest[i]] = NoFile)
        BY <1>5, <3>1 DEF AloneTrue
      <4>2. Rivals(i)' = {}
        BY <1>0, <1>5, <4>1 DEF Rivals
      <4>3. status[i] # "completed" /\ stage[i] # "scanning"
        BY <1>0, <1>1 DEF StageTrue
      <4> QED
        BY <1>0, <1>4, <1>5, <3>1, <4>1, <4>2, <4>3 DEF AloneTrue
    <3>2. CASE d # i /\ dest[d] = dest[i]
      <4>1. ~Touching(d) /\ status[d] # "completed"
        BY <1>5, <3>2 DEF AloneTrue, Rivals
      <4>2. d \notin opens' /\ fetch'[d] \notin {"request", "stream"}
        BY <1>0, <1>5, <3>2, <4>1 DEF Touching
      <4>3. stage[d] # "scanning"
        BY <4>1 DEF StageTrue
      <4> QED
        BY <1>0, <1>5, <3>2, <4>1, <4>2, <4>3 DEF AloneTrue
    <3>3. CASE dest[d] # dest[i]
      <4>1. Rivals(d)' = Rivals(d) /\ d # i
        BY <1>0, <1>5, <3>3 DEF Rivals
      <4>2. disk'[dest[d]] = disk[dest[d]]
        BY <1>4, <2>2, <3>3
      <4>3. dest[d] \in always[d] => dest[d] \in always'[d]
        BY <1>4, <3>3
      <4> QED
        BY <1>0, <1>5, <4>1, <4>2, <4>3 DEF AloneTrue
    <3> QED
      BY <3>1, <3>2, <3>3
  <2> QED
    BY <2>1, <2>3, <2>4
<1> QED
  BY <1>2, <1>3, <1>6, <1>7

LEMMA DownloadStutter ==
    ASSUME DownloadInv, UNCHANGED vars PROVE DownloadInv'
<1> USE DEF DownloadInv, vars, cacheVars, callVars, scanVars, history, downloadVars
<1>1. CacheInv'
  BY DEF CacheInv, CacheTypeOK, ScanInv, OnDisk
<1>2. aborts' \subseteq Download
  BY DEF TypeOK
<1> QED
  BY <1>1, <1>2, QuietInv

LEMMA DownloadNextInv == DownloadInv /\ [Next]_vars => DownloadInv'
<1> SUFFICES ASSUME DownloadInv, [Next]_vars PROVE DownloadInv'
  OBVIOUS
<1>1. CASE UNCHANGED vars
  BY <1>1, DownloadStutter
<1>2. CASE \E d \in Download : DownloadStep(d)
  <2> PICK d \in Download : DownloadStep(d)
    BY <1>2
  <2>1. CASE Skip(d) \/ Start(d) \/ Respond(d)
    BY <2>1, SkipInv, StartInv, RespondInv
  <2>2. CASE Open(d) \/ Finish(d)
    BY <2>2, OpenInv, FinishInv
  <2>3. CASE Fail(d) \/ Cancel(d)
    BY <2>3, FailInv, CancelInv
  <2>4. CASE Cleanup(d) \/ Rescan(d)
    BY <2>4, CleanupInv, RescanInv
  <2> QED
    BY <2>1, <2>2, <2>3, <2>4 DEF DownloadStep
<1>3. CASE \E c \in Request : ModelsStep(c) \/ \E f \in File : DeleteFile(c, f)
  BY <1>3, ModelsStepInv, DeleteFileInv
<1> QED
  BY <1>1, <1>2, <1>3 DEF Next

-----------------------------------------------------------------------------
\* The invariant of the downloads holds in every reachable state.
THEOREM DownloadInvariance == Spec => []DownloadInv
<1> QED
  BY DownloadInitInv, DownloadNextInv, PTL DEF Spec

\* Every variable of the downloads and of the list keeps to its domain.
THEOREM DownloadTypeCorrect == Spec => []TypeOK
<1>1. DownloadInv => TypeOK
  BY DEF DownloadInv
<1> QED
  BY <1>1, DownloadInvariance, PTL

\* "completed" means that the file is on disk and whole, if no other call met
\* the download at its destination.
THEOREM CompletedAreWhole == Spec => []CompletedIsWhole
<1>1. DownloadInv => CompletedIsWhole
  BY DEF DownloadInv, AloneTrue, CompletedIsWhole
<1> QED
  BY <1>1, DownloadInvariance, PTL

\* A failed or cancelled download cleans up its file, whatever it met, unless
\* its unlink overtook its open.
THEOREM NoPartialsAreLeft == Spec => []NoPartialLeft
<1>1. DownloadInv => NoPartialLeft
  BY DEF DownloadInv, CleanTrue, NoPartialLeft
<1> QED
  BY <1>1, DownloadInvariance, PTL

\* The status of a download tells what the disk holds of its file, for any number
\* of downloads, scans and deletions.
THEOREM StatusTellsTheDisk == Spec => []StatusTellsDisk
BY CompletedAreWhole, NoPartialsAreLeft, PTL DEF StatusTellsDisk

\* A download is skipped for a whole file, or for one that another download is
\* still at work on, or that was opened after its own unlink.
THEOREM SkippedAreWhole == Spec => SkippedIsWhole
<1>1. ASSUME DownloadInv, [Next]_vars, NEW d \in Download,
             status[d] = "none", status'[d] = "skipped"
      PROVE  \/ disk[dest[d]] = Old \/ disk[dest[d]] \in whole
             \/ Rivals(d) # {}
             \/ owner[disk[dest[d]]] \in late
  <2>1. fetch[d] = "idle" /\ ~Touching(d) /\ dest[d] \in File
    BY <1>1 DEF DownloadInv, StageTrue, Touching, TypeOK
  <2>2. status \in [Download -> DownloadStatus \cup {"none"}]
    BY <1>1 DEF DownloadInv, TypeOK
  <2>3. ~UNCHANGED status
    BY <1>1
  <2>4. dest[d] \in OnDisk
    <3>1. PICK e \in Download : Skip(e) \/ Start(e) \/ Finish(e) \/ Fail(e) \/ Cancel(e)
      BY <1>1, <2>3 DEF Next, DownloadStep, Respond, Open, Cleanup, Rescan,
         ModelsStep, DeleteFile, vars, downloadVars
    <3>2. CASE Skip(e)
      <4>1. e = d
        BY <1>1, <2>2, <3>2 DEF Skip
      <4> QED
        BY <3>2, <4>1 DEF Skip
    <3>3. CASE Start(e) \/ Finish(e) \/ Fail(e) \/ Cancel(e)
      BY <1>1, <2>2, <3>3 DEF Start, Finish, Fail, Cancel
    <3> QED
      BY <3>1, <3>2, <3>3
  <2>5. disk[dest[d]] \in Download \cup {Old}
    BY <1>1, <2>1, <2>4, DownloadAssumption DEF OnDisk, DownloadInv, TypeOK, CacheTypeOK
  <2>6. CASE disk[dest[d]] \in Download
    <3>1. PICK x \in Download, o \in Download : disk[dest[d]] = x /\ owner[x] = o
      BY <1>1, <2>6 DEF DownloadInv, TypeOK
    <3>2. dest[o] = dest[d] /\ (x \in whole \/ o \in late \/ Touching(o))
      BY <1>1, <2>1, <3>1 DEF DownloadInv, FilesTrue, FileTrue
    <3>3. Touching(o) => o \in Rivals(d)
      BY <2>1, <3>2 DEF Rivals
    <3> QED
      BY <3>1, <3>2, <3>3
  <2> QED
    BY <2>5, <2>6
<1>2. DownloadInv /\ [Next]_vars =>
        [\A d \in Download :
            status[d] = "none" /\ status'[d] = "skipped" =>
                LET file == disk[dest[d]]
                IN  \/ file = Old \/ file \in whole
                    \/ Rivals(d) # {}
                    \/ owner[file] \in late]_vars
  BY <1>1
<1> QED
  BY <1>2, DownloadInvariance, PTL DEF Spec, SkippedIsWhole

\* No late event and no cancel changes a download that is completed, failed or
\* skipped.
THEOREM FinalStays == Spec => FinalStatus
<1>1. ASSUME DownloadInv, [Next]_vars, NEW d \in Download, status[d] \in Final
      PROVE  status'[d] = status[d]
  <2>1. StageTrue(d) /\ status \in [Download -> DownloadStatus \cup {"none"}]
    BY <1>1 DEF DownloadInv, TypeOK
  <2>2. fetch[d] \in {"cleanup", "over"}
    BY <1>1, <2>1 DEF StageTrue, Final
  <2>3. CASE UNCHANGED status
    BY <2>3
  <2>4. CASE \E e \in Download : Skip(e) \/ Start(e) \/ Finish(e) \/ Fail(e)
    BY <2>1, <2>2, <2>4 DEF Skip, Start, Finish, Fail
  <2>5. CASE \E e \in Download : Cancel(e)
    BY <1>1, <2>1, <2>5 DEF Cancel, Final
  <2> QED
    BY <1>1, <2>3, <2>4, <2>5 DEF Next, DownloadStep, Respond, Open, Cleanup, Rescan,
       ModelsStep, DeleteFile, vars, downloadVars
<1>2. DownloadInv /\ [Next]_vars =>
        [\A d \in Download : status[d] \in Final => status'[d] = status[d]]_vars
  BY <1>1
<1> QED
  BY <1>2, DownloadInvariance, PTL DEF Spec, FinalStatus

\* The rescan that ends a completed download lists its file, whatever runs
\* beside it, if no file vanished under the scan and the download met nobody.
THEOREM NewFilesAreListed == Spec => ListedWhenRescanned
<1>1. ASSUME DownloadInv, [Next]_vars, NEW d \in Download, d \notin met,
             stage[d] = "scanning", stage'[d] = "done", ~gone[d]
      PROVE  dest[d] \in cache'
  <2>1. d \in Call /\ ScanInv(d) /\ dest[d] \in always[d] /\ CacheTypeOK
    BY <1>1, DownloadAssumption DEF DownloadInv, CacheInv, AloneTrue
  <2>2. ASSUME NEW c \in Call, ScanStep(c) PROVE dest[d] \in cache'
    <3>1. stage'[c] = "done" /\ c = d
      BY <1>1, <2>1, <2>2, ScanStepKeeps DEF CacheTypeOK
    <3>2. CASE ScanEnd(d)
      <4>1. cache' = found[d] /\ unread[d] = {} /\ listed[d] = {}
        BY <3>2 DEF ScanEnd, ScanResult
      <4> QED
        BY <1>1, <2>1, <4>1 DEF ScanInv
    <3>3. CASE \E f \in File : StatGone(d, f)
      BY <1>1, <2>1, <3>3 DEF StatGone, ScanInv
    <3>4. CASE \E f \in Dir : ReadDir(d, f)
      BY <1>1, <3>4 DEF ReadDir
    <3>5. CASE \E f \in File : StatFile(d, f)
      BY <1>1, <3>5 DEF StatFile
    <3> QED
      BY <2>2, <3>1, <3>2, <3>3, <3>4, <3>5 DEF ScanStep
  <2>3. CASE stage' = stage
    BY <1>1, <2>3
  <2>4. CASE \E e \in Download : Rescan(e)
    BY <2>2, <2>4, DownloadAssumption DEF Rescan
  <2>5. CASE \E e \in Download : Finish(e)
    BY <1>1, <2>1, <2>5, DownloadAssumption DEF Finish, ScanBegins, CacheTypeOK
  <2>6. CASE \E c \in Request : ModelsStep(c)
    <3> PICK c \in Request : ModelsStep(c)
      BY <2>6
    <3>1. c \in Call /\ c # d
      BY DEF Request
    <3>2. CASE ScanStep(c)
      BY <2>2, <3>1, <3>2
    <3>3. CASE Refresh(c) \/ Deleted(c)
      BY <1>1, <2>1, <3>1, <3>3 DEF Refresh, Deleted, ScanBegins, CacheTypeOK
    <3>4. CASE \E f \in File : DeleteOne(c, f) \/ UnlinkFails(c, f)
      BY <1>1, <2>1, <3>1, <3>4 DEF DeleteOne, UnlinkFails, CacheTypeOK
    <3>5. CASE \E a \in Arch : DeleteArch(c, a)
      BY <1>1, <2>1, <3>1, <3>5 DEF DeleteArch, CacheTypeOK
    <3> QED
      BY <3>2, <3>3, <3>4, <3>5 DEF ModelsStep
  <2>7. CASE \E c \in Request, f \in File : DeleteFile(c, f)
    BY <2>3, <2>7 DEF DeleteFile, Unlink
  <2>8. CASE UNCHANGED vars
    BY <2>3, <2>8 DEF vars, cacheVars, callVars
  <2>9. CASE \E e \in Download : Skip(e) \/ Start(e) \/ Respond(e) \/ Open(e)
                                \/ Fail(e) \/ Cancel(e) \/ Cleanup(e)
    BY <2>3, <2>9 DEF Skip, Start, Respond, Open, Fail, Cancel, Cleanup, cacheVars, callVars
  <2> QED
    BY <1>1, <2>4, <2>5, <2>6, <2>7, <2>8, <2>9 DEF Next, DownloadStep
<1>2. DownloadInv /\ [Next]_vars =>
        [\A d \in Download \ met :
            stage[d] = "scanning" /\ stage'[d] = "done" /\ ~gone[d]
                => dest[d] \in cache']_vars
  BY <1>1
<1> QED
  BY <1>2, DownloadInvariance, PTL DEF Spec, ListedWhenRescanned

-----------------------------------------------------------------------------
(***************************************************************************)
(* The two pages about models, for any models, requests and failures.      *)
(* What a query holds is the answer of the API, unless a request that has  *)
(* changed it is still to invalidate the query, or nothing tells the page. *)
(***************************************************************************)
JobStatus == {"downloading", "completed", "cancelled", "none", "failed", "skipped"}
Value == (SUBSET Model) \cup BOOLEAN \cup Seq(JobStatus)
Entry == [data : {<<>>} \cup {<<v>> : v \in Value},
          fetch : {<<>>, <<"asked">>} \cup {<<"read", v>> : v \in Value},
          invalid : BOOLEAN]
Post == [kind : {"delete", "clear", "refresh", "start", "custom", "cancel"},
         models : SUBSET Model, of : Nat, here : BOOLEAN,
         state : {"sent", "scan", "handled", "failed", "done"},
         job : {"none", "requested", "writing", "completed", "listed", "failed", "skipped",
                "cancelled", "unheard"}]

PagesTyped ==
    /\ stored \subseteq Model /\ known \subseteq Model
    /\ query \in [Query -> Entry]
    /\ posted \in Seq(Post)
    /\ \A n \in DOMAIN posted : posted[n].state = "scan" => posted[n].kind \in {"delete", "clear"}

\* The answer to this request will invalidate the list and the readiness.
Telling(n) == posted[n].state = "handled" /\ posted[n].kind \in {"delete", "clear", "refresh"}
SomeTelling == \E n \in DOMAIN posted : Telling(n)

\* What a query holds is the answer of the API.
DataTrue ==
    \A q \in Query \ unseen : q = "jobs" \/ ~SomeTelling =>
        /\ Len(query[q].fetch) = 2 => query[q].fetch[2] = Answer[q]
        /\ query[q].fetch = <<>> /\ query[q].data # <<>> /\ ~query[q].invalid =>
              query[q].data = <<Answer[q]>>

\* The starts whose buttons may spin.
Mine(n) == posted[n].kind = "start" /\ posted[n].here /\ Unanswered(n)

\* A spinning button has its start, and one start at a time the button.
ButtonTrue ==
    /\ starting # None => \E n \in DOMAIN posted : Mine(n)
    /\ ~crossed => \A m, n \in DOMAIN posted :
                      Mine(m) /\ Mine(n) => m = n /\ posted[n].models = {starting}

PagesInv == PagesTyped /\ DataTrue /\ ButtonTrue

LEMMA AnswerIs ==
    /\ Answer["list"] = known /\ Answer["ready"] = (Model \subseteq known)
    /\ Answer["jobs"] = [n \in DOMAIN posted |-> StatusOf(posted[n].job)]
BY DEF Answer

LEMMA AnswerTyped == ASSUME PagesTyped, NEW q \in Query PROVE Answer[q] \in Value
<1>1. known \in SUBSET Model /\ (Model \subseteq known) \in BOOLEAN
  BY DEF PagesTyped
<1>2. [n \in DOMAIN posted |-> StatusOf(posted[n].job)] \in Seq(JobStatus)
  <2>1. DOMAIN posted = 1..Len(posted) /\ Len(posted) \in Nat
    BY DEF PagesTyped
  <2>2. \A n \in DOMAIN posted : posted[n] \in Post
    BY DEF PagesTyped
  <2>3. \A n \in DOMAIN posted : StatusOf(posted[n].job) \in JobStatus
    <3>1. \A job \in {"requested", "writing"} : StatusOf(job) = "downloading"
      BY DEF StatusOf
    <3>2. \A job \in {"completed", "listed"} : StatusOf(job) = "completed"
      BY DEF StatusOf
    <3>3. \A job \in {"cancelled", "unheard"} : StatusOf(job) = "cancelled"
      BY DEF StatusOf
    <3>4. \A job \in {"none", "failed", "skipped"} : StatusOf(job) = job
      BY DEF StatusOf
    <3>5. ASSUME NEW n \in DOMAIN posted PROVE StatusOf(posted[n].job) \in JobStatus
      <4>1. posted[n].job \in {"none", "requested", "writing", "completed", "listed", "failed",
                               "skipped", "cancelled", "unheard"}
        BY <2>2 DEF Post
      <4> QED
        BY <3>1, <3>2, <3>3, <3>4, <4>1 DEF JobStatus
    <3> QED
      BY <3>5
  <2>4. [n \in DOMAIN posted |-> StatusOf(posted[n].job)] \in [1..Len(posted) -> JobStatus]
    BY <2>1, <2>3
  <2> QED
    BY <2>1, <2>4
<1> QED
  BY <1>1, <1>2, AnswerIs DEF Query, Value

\* What the API answers changes with the list, or with the status of a download.
LEMMA SameAnswer ==
    /\ known' = known => \A q \in {"list", "ready"} : Answer'[q] = Answer[q]
    /\ /\ DOMAIN posted' = DOMAIN posted
       /\ \A n \in DOMAIN posted : StatusOf(posted'[n].job) = StatusOf(posted[n].job)
       => Answer'["jobs"] = Answer["jobs"]
<1>1. known' = known => \A q \in {"list", "ready"} : Answer'[q] = Answer[q]
  BY DEF Answer
<1>2. ASSUME DOMAIN posted' = DOMAIN posted,
             \A n \in DOMAIN posted : StatusOf(posted'[n].job) = StatusOf(posted[n].job)
      PROVE  Answer'["jobs"] = Answer["jobs"]
  <2>1. Answer'["jobs"] = [n \in DOMAIN posted' |-> StatusOf(posted'[n].job)]
    BY DEF Answer
  <2>2. Answer["jobs"] = [n \in DOMAIN posted |-> StatusOf(posted[n].job)]
    BY DEF Answer
  <2> QED
    BY <1>2, <2>1, <2>2
<1> QED
  BY <1>1, <1>2

\* Requests whose kind, models and place stay, one of which may move on; no query
\* hears of it yet.
LEMMA RequestMoves ==
    ASSUME PagesInv, stored' \subseteq Model, known' \subseteq Model,
           posted' \in Seq(Post), DOMAIN posted' = DOMAIN posted,
           \A n \in DOMAIN posted :
              /\ posted'[n].kind = posted[n].kind /\ posted'[n].models = posted[n].models
              /\ posted'[n].here = posted[n].here
              /\ posted'[n].state = "done" <=> posted[n].state = "done"
              /\ posted'[n].state = "scan" => posted[n].kind \in {"delete", "clear"}
              /\ Telling(n) => Telling(n)',
           UNCHANGED <<query, starting, crossed>>, unseen \subseteq unseen',
           known' = known \/ {"list", "ready"} \subseteq unseen' \/ SomeTelling',
           \/ "jobs" \in unseen'
           \/ \A n \in DOMAIN posted : StatusOf(posted'[n].job) = StatusOf(posted[n].job)
    PROVE  PagesInv'
<1> USE DEF PagesInv
<1>1. PagesTyped'
  BY DEF PagesTyped
<1>2. ButtonTrue'
  <2>1. \A n \in DOMAIN posted : Mine(n)' <=> Mine(n)
    BY DEF Mine, Unanswered
  <2> QED
    BY <2>1 DEF ButtonTrue
<1>3. DataTrue'
  <2>1. SomeTelling => SomeTelling'
    BY DEF SomeTelling
  <2>2. ASSUME NEW q \in Query \ unseen', q = "jobs" \/ ~SomeTelling'
        PROVE  Answer'[q] = Answer[q]
    BY <2>2, SameAnswer DEF Query
  <2>3. ASSUME NEW q \in Query \ unseen', q = "jobs" \/ ~SomeTelling'
        PROVE  /\ Len(query[q].fetch) = 2 => query[q].fetch[2] = Answer'[q]
               /\ query[q].fetch = <<>> /\ query[q].data # <<>> /\ ~query[q].invalid =>
                     query[q].data = <<Answer'[q]>>
    BY <2>1, <2>2, <2>3 DEF DataTrue
  <2> QED
    BY <2>3 DEF DataTrue
<1> QED
  BY <1>1, <1>2, <1>3

\* One request.
LEMMA OnePost ==
    ASSUME PagesTyped, NEW n \in DOMAIN posted, NEW req \in Post, posted' = [posted EXCEPT ![n] = req]
    PROVE  /\ posted' \in Seq(Post) /\ DOMAIN posted' = DOMAIN posted
           /\ posted'[n] = req /\ \A m \in DOMAIN posted \ {n} : posted'[m] = posted[m]
BY DEF PagesTyped

LEMMA PagesInitInv == PagesInit => PagesInv
<1> SUFFICES ASSUME PagesInit PROVE PagesInv
  OBVIOUS
<1>1. stored \subseteq Model /\ known \subseteq Model /\ posted = <<>> /\ starting = None
  BY DEF PagesInit
<1>2. \A q \in Query : query[q] = Unfetched
  BY DEF PagesInit
<1>3. Unfetched \in Entry /\ Unfetched.fetch = <<>> /\ Unfetched.data = <<>>
  BY DEF Unfetched, Entry
<1>4. PagesTyped
  <2>1. query \in [Query -> Entry]
    BY <1>3 DEF PagesInit
  <2>2. posted \in Seq(Post)
    BY <1>1
  <2> QED
    BY <1>1, <2>1, <2>2 DEF PagesTyped
<1>5. DataTrue
  <2>1. Len(<<>>) # 2
    OBVIOUS
  <2> QED
    BY <1>2, <1>3, <2>1 DEF DataTrue
<1>6. ButtonTrue
  BY <1>1 DEF ButtonTrue
<1> QED
  BY <1>4, <1>5, <1>6 DEF PagesInv

\* One query moves on by itself: it is asked for, or what was read arrives.
LEMMA QueryMoves ==
    ASSUME PagesInv, NEW q \in Query, NEW e \in Entry, query' = [query EXCEPT ![q] = e],
           UNCHANGED <<stored, known, posted, starting, crossed>>,
           unseen \ {q} \subseteq unseen',
           q \notin unseen' /\ (q = "jobs" \/ ~SomeTelling) =>
              /\ Len(e.fetch) = 2 => e.fetch[2] = Answer[q]
              /\ e.fetch = <<>> /\ e.data # <<>> /\ ~e.invalid => e.data = <<Answer[q]>>
    PROVE  PagesInv'
<1> USE DEF PagesInv
<1>1. query' \in [Query -> Entry] /\ query'[q] = e /\ \A p \in Query \ {q} : query'[p] = query[p]
  BY DEF PagesTyped
<1>2. PagesTyped'
  BY <1>1 DEF PagesTyped
<1>3. ButtonTrue'
  BY DEF ButtonTrue, Mine, Unanswered
<1>4. Answer' = Answer /\ (SomeTelling' <=> SomeTelling)
  BY DEF Answer, SomeTelling, Telling
<1>5. DataTrue'
  <2>1. ASSUME NEW p \in Query \ unseen', p = "jobs" \/ ~SomeTelling
        PROVE  /\ Len(query'[p].fetch) = 2 => query'[p].fetch[2] = Answer[p]
               /\ query'[p].fetch = <<>> /\ query'[p].data # <<>> /\ ~query'[p].invalid =>
                     query'[p].data = <<Answer[p]>>
    <3>1. CASE p = q
      BY <1>1, <2>1, <3>1
    <3>2. CASE p # q
      <4>1. p \in Query \ unseen /\ query'[p] = query[p]
        BY <1>1, <2>1, <3>2
      <4> QED
        BY <2>1, <4>1 DEF DataTrue
    <3> QED
      BY <3>1, <3>2
  <2> QED
    BY <1>4, <2>1 DEF DataTrue
<1> QED
  BY <1>2, <1>3, <1>5

LEMMA QueryStepInv ==
    ASSUME PagesInv, NEW q \in Query,
           Fetch(q) \/ FetchAnswered(q) \/ Fetched(q) \/ FetchFails(q)
    PROVE  PagesInv'
<1> USE DEF PagesInv
<1>1. query[q] \in Entry /\ query \in [Query -> Entry]
  BY DEF PagesTyped
<1>2. Len(<<>>) = 0 /\ Len(<<"asked">>) = 1 /\ <<"asked">> # <<>>
  OBVIOUS
<1>3. CASE Fetch(q)
  <2> DEFINE e == [query[q] EXCEPT !.fetch = <<"asked">>]
  <2>1. e \in Entry /\ e.fetch = <<"asked">>
    BY <1>1 DEF Entry
  <2>2. /\ query' = [query EXCEPT ![q] = e]
        /\ UNCHANGED <<stored, known, posted, starting, crossed, unseen>>
    BY <1>1, <1>3 DEF Fetch, serverVars
  <2> HIDE DEF e
  <2> QED
    <3>1. Len(e.fetch) # 2 /\ e.fetch # <<>>
      BY <1>2, <2>1
    <3> QED
      BY <2>1, <2>2, <3>1, QueryMoves
<1>4. CASE FetchAnswered(q)
  <2>1. PICK v \in Value : v = Answer[q]
    BY AnswerTyped
  <2> DEFINE e == [query[q] EXCEPT !.fetch = <<"read", v>>]
  <2>2. e \in Entry /\ e.fetch = <<"read", v>>
    BY <1>1 DEF Entry
  <2>3. /\ query' = [query EXCEPT ![q] = e] /\ unseen' = unseen \ {q}
        /\ UNCHANGED <<stored, known, posted, starting, crossed>>
    BY <1>1, <1>4, <2>1 DEF FetchAnswered, serverVars
  <2> HIDE DEF e
  <2>4. e.fetch # <<>> /\ e.fetch[2] = Answer[q]
    BY <2>1, <2>2
  <2> QED
    BY <2>2, <2>3, <2>4, QueryMoves
<1>5. CASE Fetched(q)
  <2>1. PICK v \in Value : query[q].fetch = <<"read", v>>
    BY <1>1, <1>2, <1>5 DEF Fetched, Entry
  <2> DEFINE e == [data |-> <<v>>, fetch |-> <<>>, invalid |-> FALSE]
  <2>2. e \in Entry /\ e.fetch = <<>> /\ e.data = <<v>>
    BY DEF Entry
  <2>3. /\ query' = [query EXCEPT ![q] = e] /\ Len(query[q].fetch) = 2 /\ query[q].fetch[2] = v
        /\ UNCHANGED <<stored, known, posted, starting, crossed, unseen>>
    BY <1>5, <2>1 DEF Fetched, serverVars
  <2> HIDE DEF e
  <2>4. q \notin unseen /\ (q = "jobs" \/ ~SomeTelling) => v = Answer[q]
    BY <2>3 DEF DataTrue
  <2> QED
    <3>1. Len(e.fetch) # 2
      BY <1>2, <2>2
    <3> QED
      BY <2>2, <2>3, <2>4, <3>1, QueryMoves
<1>6. CASE FetchFails(q)
  <2> DEFINE none == IF q = "list" THEN {} ELSE <<>>
             e == IF q = "ready" THEN [query[q] EXCEPT !.fetch = <<>>]
                  ELSE [data |-> <<none>>, fetch |-> <<>>, invalid |-> FALSE]
  <2>1. e \in Entry
    <3>1. {} \in SUBSET Model /\ <<>> \in Seq(JobStatus)
      OBVIOUS
    <3>2. none \in Value
      BY <3>1 DEF Value
    <3> HIDE DEF none
    <3> QED
      BY <1>1, <3>2 DEF Entry
  <2>2. /\ query' = [query EXCEPT ![q] = e] /\ q \in unseen' /\ unseen \subseteq unseen'
        /\ UNCHANGED <<stored, known, posted, starting, crossed>>
    BY <1>1, <1>6 DEF FetchFails, serverVars
  <2> HIDE DEF e
  <2> QED
    BY <2>1, <2>2, QueryMoves
<1> QED
  BY <1>3, <1>4, <1>5, <1>6

\* A request is sent.
LEMMA SentInv ==
    ASSUME PagesInv, NEW new \in Post, posted' = Append(posted, new), new.state = "sent", new.here,
           UNCHANGED <<stored, known, query>>, unseen' = unseen \cup {"jobs"},
           \/ new.kind # "start" /\ UNCHANGED <<starting, crossed>>
           \/ /\ new.kind = "start" /\ new.models = {starting'}
              /\ crossed' = (crossed \/ \E n \in DOMAIN posted : Mine(n))
    PROVE  PagesInv'
<1> USE DEF PagesInv
<1>1. PICK last \in Nat :
         /\ posted' \in Seq(Post) /\ DOMAIN posted' = DOMAIN posted \cup {last} /\ last \notin DOMAIN posted
         /\ \A n \in DOMAIN posted : posted'[n] = posted[n]
         /\ posted'[last] = new
  <2> DEFINE end == Len(posted) + 1
  <2>1. posted \in Seq(Post)
    BY DEF PagesTyped
  <2>2. /\ posted' \in Seq(Post) /\ DOMAIN posted' = DOMAIN posted \cup {end} /\ end \notin DOMAIN posted
        /\ \A n \in DOMAIN posted : posted'[n] = posted[n]
        /\ posted'[end] = new /\ end \in Nat
    BY <2>1
  <2> HIDE DEF end
  <2> QED
    BY <2>2
<1>2. PagesTyped'
  BY <1>1 DEF PagesTyped
<1>3. SomeTelling' <=> SomeTelling
  BY <1>1 DEF SomeTelling, Telling
<1>4. DataTrue'
  <2>1. ASSUME NEW q \in Query \ unseen', ~SomeTelling'
        PROVE  /\ Len(query[q].fetch) = 2 => query[q].fetch[2] = Answer'[q]
               /\ query[q].fetch = <<>> /\ query[q].data # <<>> /\ ~query[q].invalid =>
                     query[q].data = <<Answer'[q]>>
    <3>1. q \in {"list", "ready"} /\ Answer'[q] = Answer[q]
      BY <2>1, SameAnswer DEF Query
    <3> QED
      BY <1>3, <2>1, <3>1 DEF DataTrue
  <2> QED
    BY <2>1 DEF DataTrue
<1>5. /\ \A n \in DOMAIN posted : Mine(n)' <=> Mine(n)
      /\ Mine(last)' <=> new.kind = "start"
  BY <1>1 DEF Mine, Unanswered
<1>6. ButtonTrue'
  <2>1. CASE new.kind # "start" /\ UNCHANGED <<starting, crossed>>
    BY <1>1, <1>5, <2>1 DEF ButtonTrue
  <2>2. CASE /\ new.kind = "start" /\ new.models = {starting'}
             /\ crossed' = (crossed \/ \E n \in DOMAIN posted : Mine(n))
    <3>1. starting' # None => \E n \in DOMAIN posted' : Mine(n)'
      BY <1>1, <1>5, <2>2
    <3>2. ~crossed' => \A n \in DOMAIN posted : ~Mine(n)
      BY <2>2
    <3>3. ~crossed' => \A n \in DOMAIN posted' : Mine(n)' => n = last
      BY <1>1, <1>5, <3>2
    <3> QED
      BY <1>1, <2>2, <3>1, <3>3 DEF ButtonTrue
  <2> QED
    BY <2>1, <2>2
<1> QED
  BY <1>2, <1>4, <1>6

\* What a request to the API is, when it is sent.
LEMMA SendIs ==
    ASSUME NEW kind \in {"delete", "clear", "refresh", "start", "custom", "cancel"},
           NEW models \in SUBSET Model, NEW of \in Nat, Send(kind, models, of)
    PROVE  \E new \in Post :
              /\ posted' = Append(posted, new)
              /\ new.kind = kind /\ new.models = models /\ new.state = "sent" /\ new.here
              /\ UNCHANGED <<stored, known, query>> /\ unseen' = unseen \cup {"jobs"}
<1> DEFINE new == [kind |-> kind, models |-> models, of |-> of, here |-> TRUE,
                   state |-> "sent", job |-> "none"]
<1>1. new \in Post
  BY DEF Post
<1>2. /\ posted' = Append(posted, new)
      /\ UNCHANGED <<stored, known, query>> /\ unseen' = unseen \cup {"jobs"}
  BY DEF Send, serverVars
<1>3. new.kind = kind /\ new.models = models /\ new.state = "sent" /\ new.here
  OBVIOUS
<1> HIDE DEF new
<1> QED
  BY <1>1, <1>2, <1>3

LEMMA UserInv ==
    ASSUME PagesInv,
           \/ \E m \in Model : DeleteShown(m) \/ StartPreset(m) \/ StartCustom(m)
           \/ DeleteShownArch \/ RefreshModels
           \/ \E n \in DOMAIN posted : CancelJob(n)
    PROVE  PagesInv'
<1>1. ASSUME NEW kind \in {"delete", "clear", "refresh", "custom", "cancel"},
             NEW models \in SUBSET Model, NEW of \in Nat, Send(kind, models, of),
             UNCHANGED <<starting, crossed>>
      PROVE  PagesInv'
  <2>1. kind \in {"delete", "clear", "refresh", "start", "custom", "cancel"}
    OBVIOUS
  <2>2. PICK new \in Post :
           /\ posted' = Append(posted, new)
           /\ new.kind = kind /\ new.models = models /\ new.state = "sent" /\ new.here
           /\ UNCHANGED <<stored, known, query>> /\ unseen' = unseen \cup {"jobs"}
    BY <1>1, <2>1, SendIs
  <2>3. new.kind # "start"
    BY <2>2
  <2> QED
    BY <1>1, <2>2, <2>3, SentInv
<1>2. CASE \E m \in Model : DeleteShown(m)
  <2>1. PICK m \in Model : Send("delete", {m}, 0) /\ UNCHANGED <<starting, crossed>>
    BY <1>2 DEF DeleteShown
  <2> QED
    BY <1>1, <2>1
<1>3. CASE \E m \in Model : StartCustom(m)
  <2>1. PICK m \in Model : Send("custom", {m}, 0) /\ UNCHANGED <<starting, crossed>>
    BY <1>3 DEF StartCustom
  <2> QED
    BY <1>1, <2>1
<1>4. CASE DeleteShownArch
  <2>1. Send("clear", Model, 0) /\ UNCHANGED <<starting, crossed>> /\ Model \in SUBSET Model
    BY <1>4 DEF DeleteShownArch
  <2> QED
    BY <1>1, <2>1
<1>5. CASE RefreshModels
  <2>1. Send("refresh", {}, 0) /\ UNCHANGED <<starting, crossed>> /\ {} \in SUBSET Model
    BY <1>5 DEF RefreshModels
  <2> QED
    BY <1>1, <2>1
<1>6. CASE \E n \in DOMAIN posted : CancelJob(n)
  <2>1. PICK n \in DOMAIN posted : Send("cancel", {}, n) /\ UNCHANGED <<starting, crossed>>
    BY <1>6 DEF CancelJob
  <2>2. n \in Nat /\ {} \in SUBSET Model
    BY DEF PagesInv, PagesTyped
  <2> QED
    BY <1>1, <2>1, <2>2
<1>7. CASE \E m \in Model : StartPreset(m)
  <2>1. PICK m \in Model : StartPreset(m)
    BY <1>7
  <2>2. /\ Send("start", {m}, 0) /\ starting' = m
        /\ crossed' = (crossed \/ \E n \in DOMAIN posted : Mine(n))
    BY <2>1 DEF StartPreset, Mine
  <2>3. PICK new \in Post :
           /\ posted' = Append(posted, new)
           /\ new.kind = "start" /\ new.models = {m} /\ new.state = "sent" /\ new.here
           /\ UNCHANGED <<stored, known, query>> /\ unseen' = unseen \cup {"jobs"}
    BY <2>2, SendIs
  <2> QED
    BY <2>2, <2>3, SentInv
<1> QED
  BY <1>2, <1>3, <1>4, <1>5, <1>6, <1>7

\* Another page: nothing that was sent from the one before frees a button here.
LEMMA ShowPageInv == ASSUME PagesInv, NEW p, ShowPage(p) PROVE PagesInv'
<1> USE DEF PagesInv
<1>1. /\ posted' = [n \in DOMAIN posted |-> [posted[n] EXCEPT !.here = FALSE]]
      /\ starting' = None /\ UNCHANGED <<stored, known, query, unseen>>
  BY DEF ShowPage, serverVars
<1>2. \A n \in DOMAIN posted : /\ posted'[n] \in Post /\ ~posted'[n].here
                               /\ posted'[n].kind = posted[n].kind
                               /\ posted'[n].state = posted[n].state /\ posted'[n].job = posted[n].job
  <2> SUFFICES ASSUME NEW n \in DOMAIN posted
               PROVE  /\ posted'[n] \in Post /\ ~posted'[n].here
                      /\ posted'[n].kind = posted[n].kind
                      /\ posted'[n].state = posted[n].state /\ posted'[n].job = posted[n].job
    OBVIOUS
  <2>1. posted[n] \in Post
    BY DEF PagesTyped
  <2>2. posted'[n] = [posted[n] EXCEPT !.here = FALSE]
    BY <1>1
  <2> QED
    BY <2>1, <2>2 DEF Post
<1>3. posted' \in Seq(Post) /\ DOMAIN posted' = DOMAIN posted
  <2>1. DOMAIN posted = 1..Len(posted) /\ Len(posted) \in Nat
    BY DEF PagesTyped
  <2>2. posted' \in [1..Len(posted) -> Post]
    BY <1>1, <1>2, <2>1
  <2> QED
    BY <2>1, <2>2
<1>4. PagesTyped'
  <2>1. \A n \in DOMAIN posted' : posted'[n].state = "scan" => posted'[n].kind \in {"delete", "clear"}
    BY <1>2, <1>3 DEF PagesTyped
  <2> QED
    BY <1>1, <1>3, <2>1 DEF PagesTyped
<1>5. ButtonTrue'
  BY <1>1, <1>2, <1>3 DEF ButtonTrue, Mine
<1>6. SomeTelling' <=> SomeTelling
  BY <1>2, <1>3 DEF SomeTelling, Telling
<1>7. \A q \in Query : Answer'[q] = Answer[q]
  BY <1>1, <1>2, <1>3, SameAnswer DEF Query
<1>8. DataTrue'
  BY <1>1, <1>6, <1>7 DEF DataTrue
<1> QED
  BY <1>4, <1>5, <1>8

\* The steps of the API that no answer has told the page of yet.
LEMMA UnlinksInv == ASSUME PagesInv, NEW n \in DOMAIN posted, RequestUnlinks(n) PROVE PagesInv'
<1>1. posted[n] \in Post /\ posted[n].state = "sent" /\ posted[n].kind \in {"delete", "clear"}
  BY DEF PagesInv, PagesTyped, RequestUnlinks
<1>2. PICK st \in {"failed", "handled", "scan"} :
         /\ posted' = [posted EXCEPT ![n].state = st]
         /\ stored' \subseteq stored /\ UNCHANGED <<known, query, starting, crossed, unseen>>
  BY DEF RequestUnlinks
<1> DEFINE req == [posted[n] EXCEPT !.state = st]
<1>3. /\ req \in Post /\ req.state = st /\ req.job = posted[n].job
      /\ req.kind = posted[n].kind /\ req.models = posted[n].models /\ req.here = posted[n].here
  BY <1>1 DEF Post
<1>4. posted' = [posted EXCEPT ![n] = req]
  BY <1>2
<1> HIDE DEF req
<1>5. /\ posted' \in Seq(Post) /\ DOMAIN posted' = DOMAIN posted
      /\ posted'[n] = req /\ \A m \in DOMAIN posted \ {n} : posted'[m] = posted[m]
  BY <1>3, <1>4, OnePost DEF PagesInv
<1>6. /\ stored' \subseteq Model /\ known' \subseteq Model
      /\ \A m \in DOMAIN posted : posted[m].state = "scan" => posted[m].kind \in {"delete", "clear"}
  BY <1>2 DEF PagesInv, PagesTyped
<1>7. \A m \in DOMAIN posted :
         /\ posted'[m].kind = posted[m].kind /\ posted'[m].models = posted[m].models
         /\ posted'[m].here = posted[m].here /\ posted'[m].job = posted[m].job
         /\ posted'[m].state = "done" <=> posted[m].state = "done"
         /\ posted'[m].state = "scan" => posted[m].kind \in {"delete", "clear"}
  BY <1>1, <1>2, <1>3, <1>5, <1>6
<1>8. \A m \in DOMAIN posted : Telling(m) => Telling(m)'
  BY <1>1, <1>5 DEF Telling
<1>9. \A m \in DOMAIN posted : StatusOf(posted'[m].job) = StatusOf(posted[m].job)
  BY <1>7
<1> QED
  BY <1>2, <1>5, <1>6, <1>7, <1>8, <1>9, RequestMoves

LEMMA RequestScanInv == ASSUME PagesInv, NEW n \in DOMAIN posted, RequestScan(n) PROVE PagesInv'
<1>1. /\ posted[n] \in Post /\ posted[n].state \in {"scan", "sent"}
      /\ posted[n].kind \in {"delete", "clear", "refresh"}
  BY DEF PagesInv, PagesTyped, RequestScan
<1>2. /\ posted' = [posted EXCEPT ![n].state = "handled"]
      /\ known' = stored /\ UNCHANGED <<stored, query, starting, crossed, unseen>>
  BY DEF RequestScan
<1> DEFINE req == [posted[n] EXCEPT !.state = "handled"]
<1>3. /\ req \in Post /\ req.state = "handled" /\ req.job = posted[n].job
      /\ req.kind = posted[n].kind /\ req.models = posted[n].models /\ req.here = posted[n].here
  BY <1>1 DEF Post
<1>4. posted' = [posted EXCEPT ![n] = req]
  BY <1>2
<1> HIDE DEF req
<1>5. /\ posted' \in Seq(Post) /\ DOMAIN posted' = DOMAIN posted
      /\ posted'[n] = req /\ \A m \in DOMAIN posted \ {n} : posted'[m] = posted[m]
  BY <1>3, <1>4, OnePost DEF PagesInv
<1>6. /\ stored' \subseteq Model /\ known' \subseteq Model
      /\ \A m \in DOMAIN posted : posted[m].state = "scan" => posted[m].kind \in {"delete", "clear"}
  BY <1>2 DEF PagesInv, PagesTyped
<1>7. \A m \in DOMAIN posted :
         /\ posted'[m].kind = posted[m].kind /\ posted'[m].models = posted[m].models
         /\ posted'[m].here = posted[m].here /\ posted'[m].job = posted[m].job
         /\ posted'[m].state = "done" <=> posted[m].state = "done"
         /\ posted'[m].state = "scan" => posted[m].kind \in {"delete", "clear"}
  BY <1>1, <1>3, <1>5, <1>6
<1>8. Telling(n)' /\ \A m \in DOMAIN posted : Telling(m) => Telling(m)'
  BY <1>1, <1>3, <1>5 DEF Telling
<1>9. \A m \in DOMAIN posted : StatusOf(posted'[m].job) = StatusOf(posted[m].job)
  BY <1>7
<1>10. SomeTelling'
  BY <1>5, <1>8 DEF SomeTelling
<1> QED
  BY <1>2, <1>5, <1>6, <1>7, <1>8, <1>9, <1>10, RequestMoves

\* A download of one request changes its state.
LEMMA JobMoves ==
    ASSUME PagesInv, NEW n \in DOMAIN posted, NEW req \in Post, posted' = [posted EXCEPT ![n] = req],
           req.kind = posted[n].kind, req.models = posted[n].models, req.here = posted[n].here,
           \/ req.state = posted[n].state
           \/ /\ posted[n].state = "sent" /\ req.state \in {"handled", "failed"}
              /\ posted[n].kind \in {"start", "custom", "cancel"},
           stored' \subseteq Model, known' \subseteq Model,
           UNCHANGED <<query, starting, crossed>>, unseen \subseteq unseen',
           known' = known \/ {"list", "ready"} \subseteq unseen',
           "jobs" \in unseen' \/ StatusOf(req.job) = StatusOf(posted[n].job)
    PROVE  PagesInv'
<1>1. /\ posted' \in Seq(Post) /\ DOMAIN posted' = DOMAIN posted
      /\ posted'[n] = req /\ \A m \in DOMAIN posted \ {n} : posted'[m] = posted[m]
  BY OnePost DEF PagesInv
<1>2. \A m \in DOMAIN posted : posted[m].state = "scan" => posted[m].kind \in {"delete", "clear"}
  BY DEF PagesInv, PagesTyped
<1>3. \A m \in DOMAIN posted :
         /\ posted'[m].kind = posted[m].kind /\ posted'[m].models = posted[m].models
         /\ posted'[m].here = posted[m].here
         /\ posted'[m].state = "done" <=> posted[m].state = "done"
         /\ posted'[m].state = "scan" => posted[m].kind \in {"delete", "clear"}
  BY <1>1, <1>2
<1>4. \A m \in DOMAIN posted : Telling(m) => Telling(m)'
  BY <1>1 DEF Telling
<1>5. "jobs" \in unseen' \/ \A m \in DOMAIN posted : StatusOf(posted'[m].job) = StatusOf(posted[m].job)
  BY <1>1
<1> QED
  BY <1>1, <1>3, <1>4, <1>5, RequestMoves

LEMMA StartJobInv == ASSUME PagesInv, NEW n \in DOMAIN posted, StartJob(n) PROVE PagesInv'
<1>1. posted[n] \in Post /\ posted[n].state = "sent" /\ posted[n].kind \in {"start", "custom"}
  <2>1. posted[n].state = "sent" /\ posted[n].kind \in {"start", "custom"}
    BY Zenon DEF StartJob
  <2> QED
    BY <2>1 DEF PagesInv, PagesTyped
<1>2. /\ UNCHANGED <<stored, known, query, starting, crossed>> /\ unseen' = unseen \cup {"jobs"}
      /\ stored' \subseteq Model /\ known' \subseteq Model
  BY DEF StartJob, serverVars, PagesInv, PagesTyped
<1>3. PICK jb \in {"skipped", "requested"} :
         posted' = [posted EXCEPT ![n].state = "handled", ![n].job = jb]
  BY DEF StartJob
<1> DEFINE req == [posted[n] EXCEPT !.state = "handled", !.job = jb]
<1>4. /\ req \in Post /\ req.state = "handled"
      /\ req.kind = posted[n].kind /\ req.models = posted[n].models /\ req.here = posted[n].here
  BY <1>1 DEF Post
<1>5. posted' = [posted EXCEPT ![n] = req]
  BY <1>3 DEF PagesInv, PagesTyped
<1> HIDE DEF req
<1> QED
  BY <1>1, <1>2, <1>4, <1>5, JobMoves

LEMMA RequestFailsInv == ASSUME PagesInv, NEW n \in DOMAIN posted, RequestFails(n) PROVE PagesInv'
<1>1. posted[n] \in Post /\ posted[n].state = "sent"
  BY DEF PagesInv, PagesTyped, RequestFails
<1>2. PICK st \in {"failed", "handled"} :
         /\ posted' = [posted EXCEPT ![n].state = st]
         /\ UNCHANGED <<stored, known, query, starting, crossed, unseen>>
  BY DEF RequestFails, serverVars
<1> DEFINE req == [posted[n] EXCEPT !.state = st]
<1>3. /\ req \in Post /\ req.state = st /\ req.job = posted[n].job
      /\ req.kind = posted[n].kind /\ req.models = posted[n].models /\ req.here = posted[n].here
  BY <1>1 DEF Post
<1>4. posted' = [posted EXCEPT ![n] = req]
  BY <1>2
<1> HIDE DEF req
<1>5. /\ posted' \in Seq(Post) /\ DOMAIN posted' = DOMAIN posted
      /\ posted'[n] = req /\ \A m \in DOMAIN posted \ {n} : posted'[m] = posted[m]
  BY <1>3, <1>4, OnePost DEF PagesInv
<1>6. /\ stored' \subseteq Model /\ known' \subseteq Model
      /\ \A m \in DOMAIN posted : posted[m].state = "scan" => posted[m].kind \in {"delete", "clear"}
  BY <1>2 DEF PagesInv, PagesTyped
<1>7. \A m \in DOMAIN posted :
         /\ posted'[m].kind = posted[m].kind /\ posted'[m].models = posted[m].models
         /\ posted'[m].here = posted[m].here /\ posted'[m].job = posted[m].job
         /\ posted'[m].state = "done" <=> posted[m].state = "done"
         /\ posted'[m].state = "scan" => posted[m].kind \in {"delete", "clear"}
  BY <1>1, <1>2, <1>3, <1>5, <1>6
<1>8. \A m \in DOMAIN posted : Telling(m) => Telling(m)'
  BY <1>1, <1>5 DEF Telling
<1>9. \A m \in DOMAIN posted : StatusOf(posted'[m].job) = StatusOf(posted[m].job)
  BY <1>7
<1> QED
  BY <1>2, <1>5, <1>6, <1>7, <1>8, <1>9, RequestMoves

LEMMA DownloadsInv == ASSUME PagesInv, NEW n \in DOMAIN posted, Downloads(n) PROVE PagesInv'
<1>1. posted[n] \in Post /\ posted[n].models \subseteq Model /\ stored \subseteq Model /\ known \subseteq Model
  <2>1. posted[n] \in Post /\ stored \subseteq Model /\ known \subseteq Model
    BY DEF PagesInv, PagesTyped
  <2> QED
    BY <2>1 DEF Post
<1>2. PICK jb \in {"writing", "completed", "listed", "failed"} :
         /\ posted' = [posted EXCEPT ![n].job = jb]
         /\ UNCHANGED <<query, starting, crossed>> /\ unseen \subseteq unseen'
         /\ stored' \in {stored, stored \cup posted[n].models, stored \ posted[n].models}
         /\ known' \in {known, stored}
         /\ known' = known \/ {"list", "ready"} \subseteq unseen'
         /\ \/ "jobs" \in unseen'
            \/ posted[n].job = "requested" /\ jb = "writing"
            \/ posted[n].job = "completed" /\ jb = "listed"
  BY DEF Downloads, ModelsKey
<1> DEFINE req == [posted[n] EXCEPT !.job = jb]
<1>3. /\ req \in Post /\ req.state = posted[n].state /\ req.job = jb
      /\ req.kind = posted[n].kind /\ req.models = posted[n].models /\ req.here = posted[n].here
  BY <1>1 DEF Post
<1>4. posted' = [posted EXCEPT ![n] = req]
  BY <1>2
<1> HIDE DEF req
<1>5. /\ StatusOf("requested") = StatusOf("writing")
      /\ StatusOf("completed") = StatusOf("listed")
  BY DEF StatusOf
<1>6. "jobs" \in unseen' \/ StatusOf(req.job) = StatusOf(posted[n].job)
  BY <1>2, <1>3, <1>5
<1>7. stored' \subseteq Model /\ known' \subseteq Model
  BY <1>1, <1>2
<1> QED
  BY <1>2, <1>3, <1>4, <1>6, <1>7, JobMoves

LEMMA CancelDownloadInv == ASSUME PagesInv, NEW n \in DOMAIN posted, CancelDownload(n) PROVE PagesInv'
<1>1. posted[n] \in Post /\ posted[n].state = "sent" /\ posted[n].kind = "cancel"
  BY DEF PagesInv, PagesTyped, CancelDownload
<1> DEFINE k == posted[n].of
           stops == posted[k].job = "writing"
           jb == IF stops THEN "cancelled" ELSE IF posted[k].job = "requested" THEN "unheard" ELSE posted[k].job
           first == [posted EXCEPT ![n] = [posted[n] EXCEPT !.state = "handled"]]
<1>2. /\ stored' \subseteq stored /\ unseen' = unseen \cup {"jobs"}
      /\ UNCHANGED <<known, query, starting, crossed>>
      /\ stored' \subseteq Model /\ known' \subseteq Model
  BY DEF CancelDownload, PagesInv, PagesTyped
<1>3. /\ [posted[n] EXCEPT !.state = "handled"] \in Post
      /\ first \in Seq(Post) /\ DOMAIN first = DOMAIN posted
  <2>1. [posted[n] EXCEPT !.state = "handled"] \in Post
    BY <1>1 DEF Post
  <2>2. posted \in Seq(Post)
    BY DEF PagesInv, PagesTyped
  <2> QED
    BY <2>1, <2>2
<1>4. \A m \in DOMAIN posted :
         /\ first[m].kind = posted[m].kind /\ first[m].models = posted[m].models
         /\ first[m].here = posted[m].here /\ first[m].job = posted[m].job
         /\ first[m].state = IF m = n THEN "handled" ELSE posted[m].state
  <2> SUFFICES ASSUME NEW m \in DOMAIN posted
               PROVE  /\ first[m].kind = posted[m].kind /\ first[m].models = posted[m].models
                      /\ first[m].here = posted[m].here /\ first[m].job = posted[m].job
                      /\ first[m].state = IF m = n THEN "handled" ELSE posted[m].state
    OBVIOUS
  <2>1. CASE m = n
    BY <1>1, <2>1 DEF Post
  <2>2. CASE m # n
    BY <2>2
  <2> QED
    BY <2>1, <2>2
<1>5. posted' = [first EXCEPT ![k].job = jb]
  <2>1. posted' = [posted EXCEPT ![n].state = "handled",
                     ![k].job = IF stops THEN "cancelled" ELSE IF @ = "requested" THEN "unheard" ELSE @]
    BY DEF CancelDownload
  <2>2. k \in DOMAIN posted => first[k].job = posted[k].job
    BY <1>4
  <2>3. posted' = [first EXCEPT ![k].job = IF stops THEN "cancelled" ELSE IF @ = "requested" THEN "unheard" ELSE @]
    BY <2>1
  <2> QED
    BY <1>3, <2>2, <2>3
<1> HIDE DEF first
<1>6. k \in DOMAIN posted => jb \in {"none", "requested", "writing", "completed", "listed", "failed", "skipped",
                                     "cancelled", "unheard"}
  <2>1. k \in DOMAIN posted => posted[k] \in Post
    BY DEF PagesInv, PagesTyped
  <2> QED
    BY <2>1 DEF Post
<1> HIDE DEF jb
<1>7. /\ posted' \in Seq(Post) /\ DOMAIN posted' = DOMAIN posted
      /\ \A m \in DOMAIN posted :
            /\ posted'[m].kind = posted[m].kind /\ posted'[m].models = posted[m].models
            /\ posted'[m].here = posted[m].here
            /\ posted'[m].state = IF m = n THEN "handled" ELSE posted[m].state
  <2>1. CASE k \in DOMAIN posted
    <3> DEFINE req == [first[k] EXCEPT !.job = jb]
    <3>1. first[k] \in Post
      BY <1>3, <2>1
    <3>2. /\ req \in Post /\ req.kind = first[k].kind /\ req.models = first[k].models
          /\ req.here = first[k].here /\ req.state = first[k].state
      BY <1>6, <2>1, <3>1 DEF Post
    <3>3. posted' = [first EXCEPT ![k] = req]
      BY <1>5
    <3> HIDE DEF req
    <3>4. /\ posted' \in Seq(Post) /\ DOMAIN posted' = DOMAIN first
          /\ posted'[k] = req /\ \A m \in DOMAIN first \ {k} : posted'[m] = first[m]
      BY <1>3, <2>1, <3>2, <3>3
    <3> QED
      BY <1>3, <1>4, <3>2, <3>4
  <2>2. CASE k \notin DOMAIN posted
    <3>1. posted' = first
      BY <1>3, <1>5, <2>2
    <3> QED
      BY <1>3, <1>4, <3>1
  <2> QED
    BY <2>1, <2>2
<1>8. \A m \in DOMAIN posted : posted[m].state = "scan" => posted[m].kind \in {"delete", "clear"}
  BY DEF PagesInv, PagesTyped
<1>9. \A m \in DOMAIN posted : /\ posted'[m].state = "done" <=> posted[m].state = "done"
                               /\ posted'[m].state = "scan" => posted[m].kind \in {"delete", "clear"}
  BY <1>1, <1>7, <1>8
<1>10. \A m \in DOMAIN posted : Telling(m) => Telling(m)'
  BY <1>1, <1>7 DEF Telling
<1> QED
  BY <1>2, <1>7, <1>9, <1>10, RequestMoves

LEMMA ModelsChangeInv == ASSUME PagesInv, ModelsChange PROVE PagesInv'
<1>1. /\ stored' \subseteq Model /\ known' \subseteq Model
      /\ UNCHANGED <<query, posted, starting, crossed>>
      /\ unseen' = unseen \cup {"list", "ready"}
  BY DEF ModelsChange, ModelsKey, PagesInv, PagesTyped
<1>2. /\ posted' \in Seq(Post) /\ DOMAIN posted' = DOMAIN posted
      /\ \A n \in DOMAIN posted : posted'[n].state = "scan" => posted[n].kind \in {"delete", "clear"}
  BY <1>1 DEF PagesInv, PagesTyped
<1>3. \A n \in DOMAIN posted : Telling(n) => Telling(n)'
  BY <1>1 DEF Telling
<1> QED
  BY <1>1, <1>2, <1>3, RequestMoves

\* An answer arrives, with or without the queries it invalidates.
LEMMA AnswerArrivesInv ==
    ASSUME PagesInv, NEW n \in DOMAIN posted, posted' = [posted EXCEPT ![n].state = "done"],
           Unanswered(n), Started(n), UNCHANGED <<stored, known, crossed>>,
           NEW qs \in SUBSET Query,
           \/ qs = {} /\ UNCHANGED <<query, unseen>>
           \/ Invalidate(qs),
           Telling(n) => {"list", "ready"} \subseteq qs
    PROVE  PagesInv'
<1> USE DEF PagesInv
<1>1. posted[n] \in Post
  BY DEF PagesTyped
<1> DEFINE req == [posted[n] EXCEPT !.state = "done"]
<1>2. /\ req \in Post /\ req.state = "done" /\ req.job = posted[n].job
      /\ req.kind = posted[n].kind /\ req.models = posted[n].models /\ req.here = posted[n].here
  BY <1>1 DEF Post
<1>3. posted' = [posted EXCEPT ![n] = req]
  OBVIOUS
<1> HIDE DEF req
<1>4. /\ posted' \in Seq(Post) /\ DOMAIN posted' = DOMAIN posted
      /\ posted'[n] = req /\ \A m \in DOMAIN posted \ {n} : posted'[m] = posted[m]
  BY <1>2, <1>3, OnePost
<1>5. /\ \A q \in Query \ qs : query'[q] = query[q]
      /\ \A q \in qs : query'[q].invalid /\ (Len(query'[q].fetch) = 2 => q \in unseen')
      /\ query' \in [Query -> Entry] /\ unseen \subseteq unseen'
  <2>1. CASE qs = {} /\ UNCHANGED <<query, unseen>>
    BY <2>1 DEF PagesTyped
  <2>2. CASE Invalidate(qs)
    <3>1. /\ query' = [q \in Query |->
                IF q \notin qs THEN query[q]
                ELSE [query[q] EXCEPT !.invalid = TRUE, !.fetch = IF Restarts(q) THEN <<"asked">> ELSE @]]
          /\ unseen' = unseen \cup {q \in qs : ~Restarts(q) /\ Len(query[q].fetch) = 2}
      BY <2>2 DEF Invalidate
    <3>2. ASSUME NEW q \in qs
          PROVE  /\ query'[q] \in Entry /\ query'[q].invalid
                 /\ Len(query'[q].fetch) = 2 => q \in unseen'
      <4>1. query[q] \in Entry
        BY DEF PagesTyped
      <4>2. query'[q] = [query[q] EXCEPT !.invalid = TRUE, !.fetch = IF Restarts(q) THEN <<"asked">> ELSE @]
        BY <3>1
      <4>3. CASE Restarts(q)
        <5>1. query'[q] = [query[q] EXCEPT !.invalid = TRUE, !.fetch = <<"asked">>]
          BY <4>2, <4>3
        <5>2. query'[q] \in Entry /\ query'[q].invalid /\ query'[q].fetch = <<"asked">>
          BY <4>1, <5>1 DEF Entry
        <5>3. Len(<<"asked">>) = 1
          OBVIOUS
        <5> QED
          BY <5>2, <5>3
      <4>4. CASE ~Restarts(q)
        <5>1. query'[q] = [query[q] EXCEPT !.invalid = TRUE]
          BY <4>1, <4>2, <4>4 DEF Entry
        <5>2. query'[q] \in Entry /\ query'[q].invalid /\ query'[q].fetch = query[q].fetch
          BY <4>1, <5>1 DEF Entry
        <5> QED
          BY <3>1, <4>4, <5>2
      <4> QED
        BY <4>3, <4>4
    <3>3. \A q \in Query \ qs : query'[q] = query[q]
      BY <3>1
    <3>4. query' \in [Query -> Entry]
      BY <3>1, <3>2, <3>3 DEF PagesTyped
    <3> QED
      BY <3>1, <3>2, <3>3, <3>4
  <2> QED
    BY <2>1, <2>2
<1>6. PagesTyped'
  BY <1>2, <1>4, <1>5 DEF PagesTyped
<1>7. SomeTelling => SomeTelling' \/ {"list", "ready"} \subseteq qs
  BY <1>4 DEF SomeTelling, Telling
<1>8. \A q \in Query : Answer'[q] = Answer[q]
  <2>1. \A m \in DOMAIN posted : StatusOf(posted'[m].job) = StatusOf(posted[m].job)
    BY <1>2, <1>4
  <2> QED
    BY <1>4, <2>1, SameAnswer DEF Query
<1>9. DataTrue'
  <2>1. ASSUME NEW q \in Query \ unseen', q = "jobs" \/ ~SomeTelling'
        PROVE  /\ Len(query'[q].fetch) = 2 => query'[q].fetch[2] = Answer'[q]
               /\ query'[q].fetch = <<>> /\ query'[q].data # <<>> /\ ~query'[q].invalid =>
                     query'[q].data = <<Answer'[q]>>
    <3>1. CASE q \in qs
      BY <1>5, <2>1, <3>1
    <3>2. CASE q \notin qs
      <4>1. query'[q] = query[q] /\ q \in Query \ unseen /\ Answer'[q] = Answer[q]
        BY <1>5, <1>8, <3>2
      <4>2. q = "jobs" \/ ~SomeTelling
        BY <1>7, <2>1, <3>2 DEF Query
      <4> QED
        BY <4>1, <4>2 DEF DataTrue
    <3> QED
      BY <3>1, <3>2
  <2> QED
    BY <2>1 DEF DataTrue
<1>10. ButtonTrue'
  <2>1. ~Mine(n)' /\ \A m \in DOMAIN posted \ {n} : Mine(m)' <=> Mine(m)
    BY <1>2, <1>4 DEF Mine, Unanswered
  <2>2. starting' = IF Mine(n) THEN None ELSE starting
    BY DEF Started, Mine
  <2>3. CASE Mine(n)
    BY <1>4, <2>1, <2>2, <2>3 DEF ButtonTrue
  <2>4. CASE ~Mine(n)
    BY <1>4, <2>1, <2>2, <2>4 DEF ButtonTrue
  <2> QED
    BY <2>3, <2>4
<1> QED
  BY <1>6, <1>9, <1>10

LEMMA PagesNextInv == ASSUME PagesInv, [PagesNext]_pagesVars PROVE PagesInv'
<1>1. CASE \E p \in {"models", "download", "none"} : ShowPage(p)
  BY <1>1, ShowPageInv
<1>2. CASE \E q \in Query : Fetch(q) \/ FetchAnswered(q) \/ Fetched(q) \/ FetchFails(q)
  BY <1>2, QueryStepInv
<1>3. CASE \/ \E m \in Model : DeleteShown(m) \/ StartPreset(m) \/ StartCustom(m)
           \/ DeleteShownArch \/ RefreshModels
           \/ \E n \in DOMAIN posted : CancelJob(n)
  BY <1>3, UserInv
<1>4. CASE ModelsChange
  BY <1>4, ModelsChangeInv
<1>5. CASE \E n \in DOMAIN posted : RequestUnlinks(n)
  BY <1>5, UnlinksInv
<1>6. CASE \E n \in DOMAIN posted : RequestScan(n)
  BY <1>6, RequestScanInv
<1>7. CASE \E n \in DOMAIN posted : StartJob(n)
  BY <1>7, StartJobInv
<1>8. CASE \E n \in DOMAIN posted : Downloads(n)
  BY <1>8, DownloadsInv
<1>9. CASE \E n \in DOMAIN posted : CancelDownload(n)
  BY <1>9, CancelDownloadInv
<1>10. CASE \E n \in DOMAIN posted : Done(n)
  <2>1. PICK n \in DOMAIN posted : Done(n)
    BY <1>10
  <2>2. PICK qs \in SUBSET Query :
           qs = IF posted[n].kind \in {"delete", "clear", "refresh"} THEN ModelsKey ELSE {"jobs"}
    BY DEF ModelsKey, Query
  <2>3. Invalidate(qs) /\ UNCHANGED <<stored, known, crossed>>
    BY <2>1, <2>2 DEF Done, serverVars
  <2>4. Unanswered(n) /\ (Telling(n) => {"list", "ready"} \subseteq qs)
    BY <2>1, <2>2 DEF Done, Unanswered, Telling, ModelsKey
  <2>5. posted' = [posted EXCEPT ![n].state = "done"] /\ Started(n)
    BY <2>1 DEF Done
  <2> QED
    BY <2>3, <2>4, <2>5, AnswerArrivesInv
<1>11. CASE \E n \in DOMAIN posted : Failed(n)
  <2>1. PICK n \in DOMAIN posted : Failed(n)
    BY <1>11
  <2>2. PICK qs \in SUBSET Query : qs = {}
    OBVIOUS
  <2>3. UNCHANGED <<stored, known, crossed, query, unseen>>
    BY <2>1 DEF Failed, serverVars
  <2>4. Unanswered(n) /\ ~Telling(n)
    BY <2>1 DEF Failed, Unanswered, Telling
  <2>5. posted' = [posted EXCEPT ![n].state = "done"] /\ Started(n)
    BY <2>1 DEF Failed
  <2> QED
    BY <2>2, <2>3, <2>4, <2>5, AnswerArrivesInv
<1>12. CASE \E n \in DOMAIN posted : RequestFails(n)
  BY <1>12, RequestFailsInv
<1>13. CASE UNCHANGED pagesVars
  <2>1. /\ UNCHANGED <<stored, known, query, posted, starting, crossed, unseen>>
    BY <1>13 DEF pagesVars
  <2>2. /\ stored' \subseteq Model /\ known' \subseteq Model /\ posted' \in Seq(Post)
        /\ \A n \in DOMAIN posted : posted'[n].state = "scan" => posted[n].kind \in {"delete", "clear"}
    BY <2>1 DEF PagesInv, PagesTyped
  <2>3. \A n \in DOMAIN posted : Telling(n) => Telling(n)'
    BY <2>1 DEF Telling
  <2> QED
    BY <2>1, <2>2, <2>3, RequestMoves
<1> QED
  BY <1>1, <1>2, <1>3, <1>4, <1>5, <1>6, <1>7, <1>8, <1>9, <1>10, <1>11, <1>12, <1>13 DEF PagesNext

\* What the queries hold and which buttons spin, for any models, requests and
\* failures.
THEOREM PagesInvariance == PagesSpec => []PagesInv
<1>1. PagesInit => PagesInv
  BY PagesInitInv
<1>2. PagesInv /\ [PagesNext]_pagesVars => PagesInv'
  BY PagesNextInv
<1> QED
  BY <1>1, <1>2, PTL DEF PagesSpec

\* Once every request is answered the pages display what the API says of models,
\* readiness and downloads, unless nothing told them of a change; and a preset's
\* button spins exactly while its start is in flight.
THEOREM PagesAreTrue == PagesSpec => []PagesTell
<1>1. ASSUME PagesInv PROVE PagesTell
  <2> DEFINE mine == {n \in DOMAIN posted : posted[n].kind = "start" /\ posted[n].here /\ Unanswered(n)}
  <2>1. ASSUME \A n \in DOMAIN posted : ~Unanswered(n),
               NEW q \in Query \ unseen, query[q].fetch = <<>>, query[q].data # <<>>, ~query[q].invalid
        PROVE  query[q].data = <<Answer[q]>>
    <3>1. ~SomeTelling
      BY <2>1 DEF SomeTelling, Telling, Unanswered
    <3> QED
      BY <1>1, <2>1, <3>1 DEF PagesInv, DataTrue
  <2>2. \A n \in mine : n \in DOMAIN posted /\ Mine(n)
    BY DEF Mine
  <2>3. starting # None => mine # {}
    BY <1>1 DEF PagesInv, ButtonTrue, Mine
  <2>4. ASSUME ~crossed PROVE Cardinality(mine) <= 1 /\ \A n \in mine : posted[n].models = {starting}
    <3>1. \A m, n \in mine : m = n /\ posted[n].models = {starting}
      BY <1>1, <2>2, <2>4 DEF PagesInv, ButtonTrue
    <3> HIDE DEF mine
    <3>2. CASE mine = {}
      BY <3>2, FS_EmptySet
    <3>3. CASE mine # {}
      <4>1. PICK n \in mine : mine = {n}
        BY <3>1, <3>3
      <4>2. Cardinality({n}) = 1
        BY FS_Singleton
      <4>3. Cardinality(mine) <= 1
        BY <4>1, <4>2
      <4> QED
        BY <3>1, <4>3
    <3> QED
      BY <3>2, <3>3
  <2> QED
    BY <2>1, <2>3, <2>4 DEF PagesTell
<1> QED
  BY <1>1, PagesInvariance, PTL
=============================================================================
