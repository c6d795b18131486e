----------------------------- MODULE ModelsCache -----------------------------
(***************************************************************************)
(* ModelsService: the list of model files it keeps in memory, the scans    *)
(* that rebuild it and the deletions that change the disk beneath it.      *)
(*                                                                         *)
(* A scan reads one directory at a time and stats one file at a time, with *)
(* an await before each, so files come and go while it runs and scans      *)
(* overlap: nothing serialises refresh().  Every call that scans is one    *)
(* member of Call, used once.  The order in which scanDir descends is left *)
(* open, and a file that is no model is not in File.  Every directory can  *)
(* be read: that scanDir passes over one that cannot, and lists the rest,  *)
(* is left out.                                                            *)
(***************************************************************************)
EXTENDS Naturals, FiniteSets

CONSTANTS
    File,       \* model files, by relative path
    Dir,        \* directories below the models directory
    DirOf,      \* the directory of a file
    Arch,       \* architectures
    ArchOf,     \* the architecture classify() gives a path
    Call,       \* calls of refresh(), deleteOne() and deleteArch()
    Content,    \* what a file may hold
    NoFile      \* the disk holds no such file

ASSUME PlaceAssumption == DirOf \in [File -> Dir] /\ ArchOf \in [File -> Arch]
ASSUME NoFileAssumption == NoFile \notin Content

VARIABLES
    disk,       \* what the models directory holds
    cache,      \* ModelsService.cache, as the set of files it lists
    stage,      \* where a call stands
    strict,     \* whether a call is deleteOne(), which fails on a missing file
    victims,    \* files a call has still to unlink
    unread,     \* directories a scan has still to read
    listed,     \* files a scan has read of and has still to stat
    found,      \* files a scan has collected
    \* history, from the start of a scan on:
    ever,       \* files that were on disk at some time
    always,     \* files that were on disk all the time
    gone        \* some file has vanished

scanVars  == <<unread, listed, found>>
callVars  == <<stage, strict, victims, scanVars>>
history   == <<ever, always, gone>>
cacheVars == <<disk, cache, callVars, history>>

CallStage == {"idle", "deleting", "scanning", "done", "error"}
OnDisk == {f \in File : disk[f] # NoFile}

CacheTypeOK ==
    /\ disk \in [File -> Content \cup {NoFile}]
    /\ cache \subseteq File
    /\ stage \in [Call -> CallStage]
    /\ strict \in [Call -> BOOLEAN]
    /\ victims \in [Call -> SUBSET File]
    /\ unread \in [Call -> SUBSET Dir]
    /\ listed \in [Call -> SUBSET File]
    /\ found \in [Call -> SUBSET File]
    /\ ever \in [Call -> SUBSET File]
    /\ always \in [Call -> SUBSET File]
    /\ gone \in [Call -> BOOLEAN]

\* onModuleInit has scanned the disk before the first call.
CacheInit ==
    /\ disk \in [File -> Content \cup {NoFile}]
    /\ cache = OnDisk
    /\ stage = [c \in Call |-> "idle"]
    /\ strict = [c \in Call |-> FALSE]
    /\ victims = [c \in Call |-> {}]
    /\ unread = [c \in Call |-> {}]
    /\ listed = [c \in Call |-> {}]
    /\ found = [c \in Call |-> {}]
    /\ ever = [c \in Call |-> {}]
    /\ always = [c \in Call |-> {}]
    /\ gone = [c \in Call |-> FALSE]

-----------------------------------------------------------------------------
(* What happens to the disk, and what the scans in progress may see of it *)

Put(f, x) ==
    /\ disk' = [disk EXCEPT ![f] = x]
    /\ ever' = [c \in Call |->
                  IF stage[c] = "scanning" THEN ever[c] \cup {f} ELSE ever[c]]
    /\ UNCHANGED <<always, gone>>

Remove(f) ==
    /\ disk' = [disk EXCEPT ![f] = NoFile]
    /\ always' = [c \in Call |-> always[c] \ {f}]
    /\ gone' = [c \in Call |-> gone[c] \/ (stage[c] = "scanning" /\ f \in OnDisk)]
    /\ UNCHANGED ever

\* The first call of scanDir: its readdir is on the way.
ScanBegins(c) ==
    /\ stage' = [stage EXCEPT ![c] = "scanning"]
    /\ unread' = [unread EXCEPT ![c] = Dir]
    /\ ever' = [ever EXCEPT ![c] = OnDisk]
    /\ always' = [always EXCEPT ![c] = OnDisk]
    /\ UNCHANGED <<listed, found>>

-----------------------------------------------------------------------------
(* refresh() and scanDir() *)

Refresh(c) ==
    /\ stage[c] = "idle"
    /\ ScanBegins(c)
    /\ UNCHANGED <<disk, cache, strict, victims, gone>>

\* readdir of one directory takes effect.
ReadDir(c, d) ==
    /\ stage[c] = "scanning"
    /\ d \in unread[c]
    /\ unread' = [unread EXCEPT ![c] = @ \ {d}]
    /\ listed' = [listed EXCEPT ![c] = @ \cup {f \in OnDisk : DirOf[f] = d}]
    /\ UNCHANGED <<disk, cache, stage, strict, victims, found, history>>

\* stat of one file takes effect.
StatFile(c, f) ==
    /\ stage[c] = "scanning"
    /\ f \in listed[c] \cap OnDisk
    /\ listed' = [listed EXCEPT ![c] = @ \ {f}]
    /\ found' = [found EXCEPT ![c] = @ \cup {f}]
    /\ UNCHANGED <<disk, cache, stage, strict, victims, unread, history>>

\* refresh() has its answer: it replaces the list, whatever another scan has
\* put there in the meantime, and the scan is forgotten.
ScanResult(c, files) ==
    /\ stage' = [stage EXCEPT ![c] = "done"]
    /\ cache' = files
    /\ unread' = [unread EXCEPT ![c] = {}]
    /\ listed' = [listed EXCEPT ![c] = {}]
    /\ found' = [found EXCEPT ![c] = {}]
    /\ ever' = [ever EXCEPT ![c] = {}]
    /\ always' = [always EXCEPT ![c] = {}]
    /\ gone' = [gone EXCEPT ![c] = FALSE]
    /\ UNCHANGED <<disk, strict, victims>>

\* Mutant: the stat is tried again until the file is back.
StatGoneRetries(c, f) ==
    /\ stage[c] = "scanning"
    /\ f \in listed[c] \ OnDisk
    /\ UNCHANGED cacheVars

\* The file is gone: stat rejects, the whole scan with it, and refresh() leaves
\* an empty list.
StatGone(c, f) ==
    /\ stage[c] = "scanning"
    /\ f \in listed[c] \ OnDisk
    /\ ScanResult(c, {})

\* Mutant: refresh() adds what it found to the list it had.
ScanEndMerges(c) ==
    /\ stage[c] = "scanning"
    /\ unread[c] = {} /\ listed[c] = {}
    /\ ScanResult(c, cache \cup found[c])

\* Every directory is read and every file has its stat.
ScanEnd(c) ==
    /\ stage[c] = "scanning"
    /\ unread[c] = {} /\ listed[c] = {}
    /\ ScanResult(c, found[c])

-----------------------------------------------------------------------------
(* deleteOne() and deleteArch() *)

\* deleteOne() looks its file up in the list; an unknown file is a 404.
DeleteOne(c, f) ==
    /\ stage[c] = "idle"
    /\ f \in cache
    /\ stage' = [stage EXCEPT ![c] = "deleting"]
    /\ strict' = [strict EXCEPT ![c] = TRUE]
    /\ victims' = [victims EXCEPT ![c] = {f}]
    /\ UNCHANGED <<disk, cache, scanVars, history>>

\* deleteArch() takes all files the list gives the architecture; with none it
\* answers at once, without a scan.
DeleteArch(c, a) ==
    LET files == {f \in cache : ArchOf[f] = a}
    IN  /\ stage[c] = "idle"
        /\ stage' = [stage EXCEPT ![c] = IF files = {} THEN "done" ELSE "deleting"]
        /\ victims' = [victims EXCEPT ![c] = files]
        /\ UNCHANGED <<disk, cache, strict, scanVars, history>>

\* An unlink takes effect, or finds nothing and deleteArch() goes on.
Unlink(c, f) ==
    /\ stage[c] = "deleting"
    /\ f \in victims[c]
    /\ f \in OnDisk \/ ~strict[c]
    /\ victims' = [victims EXCEPT ![c] = @ \ {f}]
    /\ Remove(f)
    /\ UNCHANGED <<cache, stage, strict, scanVars>>

\* deleteOne() finds its file gone: the request fails, the list stays.
UnlinkFails(c, f) ==
    /\ stage[c] = "deleting"
    /\ strict[c]
    /\ f \in victims[c] \ OnDisk
    /\ stage' = [stage EXCEPT ![c] = "error"]
    /\ UNCHANGED <<disk, cache, strict, victims, scanVars, history>>

\* All files are unlinked: the rescan begins.
Deleted(c) ==
    /\ stage[c] = "deleting"
    /\ victims[c] = {}
    /\ ScanBegins(c)
    /\ UNCHANGED <<disk, cache, strict, victims, gone>>

-----------------------------------------------------------------------------
\* Files come and go by other hands: downloads, and users with a shell.
FileAppears(f) ==
    /\ f \notin OnDisk
    /\ \E x \in Content : Put(f, x)
    /\ UNCHANGED <<cache, callVars>>

FileVanishes(f) ==
    /\ f \in OnDisk
    /\ Remove(f)
    /\ UNCHANGED <<cache, callVars>>

ScanStep(c) ==
    \/ \E d \in Dir : ReadDir(c, d)
    \/ \E f \in File : StatFile(c, f) \/ StatGone(c, f)
    \/ ScanEnd(c)

RequestStep(c) ==
    \/ Refresh(c)
    \/ \E f \in File : DeleteOne(c, f) \/ Unlink(c, f) \/ UnlinkFails(c, f)
    \/ \E a \in Arch : DeleteArch(c, a)
    \/ Deleted(c)

CacheNext ==
    \/ \E c \in Call : ScanStep(c) \/ RequestStep(c)
    \/ \E f \in File : FileAppears(f) \/ FileVanishes(f)

CacheSpec == CacheInit /\ [][CacheNext]_cacheVars

\* The event loop goes on with every call it has begun; users do as they like.
CacheFairness ==
    \A c \in Call :
        /\ WF_cacheVars(ScanStep(c))
        /\ WF_cacheVars(\E f \in File : Unlink(c, f) \/ UnlinkFails(c, f))
        /\ WF_cacheVars(Deleted(c))

FairCacheSpec == CacheSpec /\ CacheFairness

-----------------------------------------------------------------------------
\* A scan leaves in the list every file that was on disk all the while it ran
\* and none that never was, whatever else changed; or it leaves an empty list,
\* and then some file has vanished under it.
ScanFaithful ==
    [][\A c \in Call :
          stage[c] = "scanning" /\ stage'[c] = "done" =>
              \/ always[c] \subseteq cache' /\ cache' \subseteq ever[c]
              \/ cache' = {} /\ gone[c]]_cacheVars

\* Every refresh and every deletion comes to its end, although files come and
\* go under it and other calls run beside it.
CallEnds ==
    \A c \in Call :
        stage[c] \in {"deleting", "scanning"} ~> stage[c] \in {"done", "error"}
=============================================================================
