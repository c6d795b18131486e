# GenDojo: TLA+ models, checks and proofs

GenDojo trains image-model adapters. A NestJS API (`api/src`) launches training
processes, downloads base models, keeps datasets and settings; a React UI
(`ui/src`) shows them. This directory holds TLA+ modules of the parts whose
correctness depends on the order of events, the TLC configurations that check
them, and TLAPS proofs of what matters most.

    tlc -config MCJobPages.cfg MCJobPages    # model-check one run
    tlapm JobsProofs.tla                     # check the proofs of one module

## 1. The system

The API is one process with one event loop (`start.sh` ends in `exec bun run
dist/main.js`, the container restarts it unless stopped). Code between two
awaits runs undisturbed; at each await any other request, timer, stream or
process event may run. State lives in four places: memory, which a crash
empties; SQLite, reached by TypeORM over one connection; the disk; and detached
process groups, which a crash of the API may leave alive.

| Component | State | Operations | Talks to |
|---|---|---|---|
| JobsService (`jobs/jobs.service.ts`) | `jobs` table, `processes`, `liveLogs`, `liveProgress` | create, launch, close and error handlers, kill, list, getById, getLogs, onModuleInit | DatasetsService, SettingsService, processes; events to the gateway |
| JobsGateway, UI job views | rooms; query cache and log list of a client | connect, subscribe, unsubscribe, events; polling | JobsService |
| DownloaderService (`downloader/`) | `jobs`, `aborts`, files | start, cancel, stream events | HTTP, disk, ModelsService.refresh, TokensService |
| ModelsService (`models/`) | `cache`, files | refresh, deleteOne, deleteArch, previews, integrity, readiness | disk |
| DatasetsService (`datasets/`) | directories, `dataset_metadata` table, upload sessions | upload, captions, prepend, metadata, chunked upload, export, remove | disk, SQLite |
| SettingsService, TokensService (`settings/`) | one row and its copy; token rows and their copy | get, update, clear | SQLite; read by everybody |
| PresetsService (`presets/`) | user presets in SQLite, system presets in code | list, get, create, update, delete | SQLite |
| OutputsService (`jobs/outputs/`) | none | pairs checkpoints, previews, prompts | disk |
| TomlService, validator | none | render and validate configurations | used by create |
| SystemService (`system/`) | `snapshot`, `isPolling`, CPU delta | poll every 5 s, refresh | nvidia-smi, /proc |
| UI pages (`ui/src/pages`) | forms, selections, open dialogs; one query cache per tab | fill, submit, save, upload, select; poll and refetch | every service, by HTTP |
| Auth, generated client | none that matters here | | |

What is hard, and what makes each component correct:

- **Jobs.** A job is known in four places at once: its row, the object `launch`
  closed over, the entry in `processes`, the process. Kill works on a second
  object of the same row. The two handlers, a kill, a failing save, a crash and
  a restart meet in any order. Correct means: the row never says Done of a
  process that did not exit with 0, never stays Running once nobody watches the
  process, the last event agrees with the row, a delivered kill ends the process
  and never answers Running.
- **Downloads and models.** Nothing reserves a destination; file operations are
  by path and asynchronous; scans overlap and the last to end wins. Correct
  means: Completed has its whole file on disk and in the list, Failed and
  Cancelled leave nothing, Skipped means there was a file to use, and a scan
  lists what was there.
- **Gateway and UI.** Lists, events, history and polls reach a client by
  different ways. Correct means: a client ends up with what the row says, and
  with each log line once.
- **Datasets, uploads.** Several awaits between a check and its use; a metadata
  row beside a directory; parallel chunks. Correct means: metadata exist for
  existing datasets only, a completed upload holds every chunk, no caption is
  prefixed twice.
- **Settings, tokens, presets, system.** A row and its copy in memory, or a
  snapshot and the poll that makes it. Correct means: the copy is of the row, a
  snapshot is never replaced by an older one, an update that met no other is kept.
- **Pages.** What a page displays was fetched some time ago, and each answer
  meets a page that has moved on. Correct means: when all is quiet it displays
  what the API has; what was typed is saved, or still there; a button that waits
  waits for something; success is said of what succeeded.
- **Rules.** Classification, readiness, validation, the tables of presets and
  the files of a job are written down in several places that must agree.

`PROJECT.json` lists every component with its status and every hazard at its
line, with the properties that cover it.

## 2. The modules

    JobLifecycle              the abstract life of a job: its row, its process
       ^ implemented by
    Jobs                      JobsService and the process it watches
       JobsInvariant            its inductive invariant IInv
       JobsProofs               IInv is invariant, the safety properties follow
       JobsRefinement           Jobs implements JobLifecycle
       ^ extended by
    JobStream                 log buffer, gateway, socket, the page of a job
       JobStreamProofs          what the page shows of log and end; OutputsPage

    ModelsCache               ModelsService: list, scans, deletions, disk
       ^ extended by
    Downloader                DownloaderService above ModelsCache
       DownloaderProofs         what scans and downloads leave on disk and in the
                                list; ModelsPages

    Datasets                  DatasetsService: directory, captions, metadata row
       ^ extended by
    ChunkedUpload             upload sessions above Datasets
       DatasetsProofs           disk, row and session

    Settings                  SettingsService, TokensService   ServicesProofs
    SystemPoll                SystemService                    ServicesProofs
    Presets                   PresetsService                   ServicesProofs
    Outputs                   OutputsService                   ServicesProofs

    CaptionEditor             the page that edits captions     ServicesProofs
    UploadPage                the two places that upload       PagesProofs
    DatasetPage               the card of a dataset's metadata PagesProofs
    JobsTable                 the table of jobs                PagesProofs
    ModelsPages               models and downloads             DownloaderProofs
    OutputsPage               outputs and their lightbox       JobStreamProofs
    JobFiles                  from the form of a job to prompts.txt, dataset.toml

    ModelRules, TrainConfig   classification, readiness, validation: operators
       ^ extended by
    JobForm                   from model files to an accepted training job
       JobFormProofs            the tables and rules agree, for any files
       ^ extended by
    Catalogue                 the models offered for download

MC modules hold the instances. Parts that share no state are checked in one run:
its variable `part` names the one that moves, so that each is explored alone and
their states add up. MCServices puts Settings, SystemPoll, Presets, Outputs,
CaptionEditor, UploadPage and DatasetPage side by side; MCJobPages Jobs,
OutputsPage and JobFiles; MCDownloads Downloader and ModelsPages;
MCLive Jobs and ModelsCache; MCJobForm the form, the catalogue and JobsTable.

### Jobs

| Variable | In the code |
|---|---|
| `row` | the status column of the `jobs` table |
| `mem` | status of the `Job` object `launch` and its handlers hold |
| `procs` | the keys of `processes` |
| `handle` | the `ChildProcess`: without listeners, with them, closed |
| `os` | the process group itself, and how it ended |
| `pc` | the await at which create/launch of the job stands |
| `flush` | final saves of the close and error handler in flight |
| `kjob`, `kpc`, `kok`, `ksaid` | a kill request: its job, its await, its result, the status it answered |
| `announced` | the last `job:status` event of a job |
| `raced` | history: two creates were past the limit check together |

One action stands for the code from one await to the next: `CreateAccept`,
`InsertRow`, `Launch`, `SaveRunning`, `Attach` follow create and launch;
`Close`, `SpawnError`, `FlushSaved` the handlers; `KillLookup`, `KillSignal`,
`KillMiss`, `KillSaved`, `KillTimer`, `KillAnswer` the kill and its controller;
`Restart` is `onModuleInit`. The failing alternatives are actions of their own:
`CreateRefuse`, `SaveRunningFails`, `KillSaveFails`, `FlushFails` (an unhandled
rejection ends the API), `SpawnErrorUnheard` (an error event nobody listens to
ends it too), `Crash`.

Decisions a reader should know:

- *Saves.* TypeORM reads the row, compares and updates. Two saves of one row on
  the single connection go through the same number of round trips, so the one
  issued first is applied first; a save is one step that takes effect some time
  after it was issued, and `FlushSaved` waits for the saves of kills of the same
  job, which were issued before it. That statements are applied in the order
  issued is an assumption about the driver.
- *Process events.* Node emits `close` and `error` on a later turn, to whoever
  listens then. Listeners are attached only after the save of the Running row,
  so `CloseUnheard` is possible: the entry stays in the map and the row Running
  until a kill, which misses, or a restart.
- *A dead API.* `main.ts` enables no shutdown hooks, so `onModuleDestroy` never
  signals the processes: `ApiDies` leaves the groups alive, or kills all of them
  with their container, as TLC chooses.
- *Left out.* The content of files and configurations, the exit statistics. A
  group is one unit: it is alive as long as its leader is. The limit is constant
  during a behaviour.

`JobLifecycle` is what a client of `GET /jobs` may rely on: `row` beside `life`,
the process. `Jobs` implements it with `row` as it is and `life` read off `os`;
so a row never says Done of a process that did not exit with 0, through every
handler, kill, crash and restart.

### JobStream

One browser tab and the job it watches, above Jobs. `buf` is
`liveLogs.get(id)`, `size` the setting `logBufferSize`; `link`, `up`, `down` are
the socket and what is on the wire; `page`, `logs`, `detail` the page, its list
of lines and its query cache; `fetch` a `GET /jobs/:id` in flight. `ServiceStep`
takes a step of Jobs and adds what it sends: a changed `announced` is an event
to the room and to everybody, a death of the API empties buffers and sockets.
`HandleSubscribe`, `HandleUnsubscribe`, `HandleOutput` are the gateway and
`handleOutput`; `Deliver`, `Effect`, `Connect` are `useJobSocket`; `Poll`,
`ReadRow`, `ReadLog`, `Receive` the query, whose answer mixes a row read before
an await with a buffer read after it.

What the model shows and no property forbids: a page stops polling and leaves the
room at killed, although the row later becomes failed or done
(`services/jobs/queries.ts:38`); after a terminal event it shows the log of its
last poll, which may lack the last lines (`JobDetailsPage.tsx:285`); `Displayed`
is the list of lines the page then has on display.

Two comments say of this log what the code does not do: `logBuffer` is "present
only while the job is Running" (`dto/job-detail.dto.ts:17`), and "for finished
jobs (not in memory) logBuffer is an empty array" (`jobs.controller.ts:244-246`).
`getById` reads `liveLogs` whatever the status, and nothing ever removes an entry
of it, so a finished job answers with its whole buffer until the API restarts:
that is what the second part of `ShownEndIsTrue` says, and what the page of a
finished job displays. The two comments are true only after a restart. The branch
`if (!logs)` of `handleSubscribe` is never taken, no client listens to
`jobs:list`, and an entry of `liveLogs` is never freed.

### ModelsCache

`stage`, `unread`, `listed`, `found` are where a call of `refresh`, `deleteOne`
or `deleteArch` stands: which directories `scanDir` has still to read, which
files it has still to stat, what it has collected. Each readdir, stat and unlink
takes effect in a step of its own, and nothing keeps two scans apart. A stat of
a file that is gone rejects the scan, and `refresh` leaves an empty list
(`StatGone`). The depth-first order of the descent is left open, which allows
more orders than the code has. `ever`, `always`, `gone` are history: what was on
disk at some time, all the time, and whether anything vanished during a scan.
Every directory can be read: `scanDir` takes one that cannot (an I/O fault, or a
directory removed by hand) for an empty one and lists the rest
(`models.service.ts:335-337`), and none of the properties is about that case.

### Downloader

| Variable | In the code |
|---|---|
| `status` | `DownloadJob.status` |
| `fetch` | where `runDownload`/`fetchToFile` stands |
| `aborts` | the keys of `aborts` |
| `opens`, `unlinks` | file operations on the thread pool |
| `disk`, `wrote`, `owner`, `whole` | which download's open created the file at a path, which file a stream writes, who truncated it last, whether it is complete |
| `met`, `late` | history: shared its destination with another call; its unlink came before its open |

A file is named after the download whose open created it: `createWriteStream`
creates the file or truncates the one it finds, and unlink is by path, so a
download may write to a file that is no longer at its destination. `Start` and
`Skip` are `start` after its mkdir; the pending status is never visible, because
`runDownload` sets downloading before its first await. `Cancel` before the
answer only sets the signal, which nobody listens to; the download goes on. The
members of `Call` that are downloads use `ScanStep` of ModelsCache for their
rescan. Redirects leave no state and are not steps; byte counts, tokens and
headers are left out.

### Datasets and ChunkedUpload

One dataset name. `dir`, `images`, `text` are the directory, `row` the row of
`dataset_metas`; `op`, `call` the requests and where each stands. An action is
what the file system or the database does for a request at one await, with the
code up to the next: `UploadBegins`, `Mkdir`, `WriteFile`, `FilesWritten` for
`uploadZip`/`uploadFiles`; `ListDir`, `SampleCaption`, `SampleDone` for the
detection of the caption type; `FindRow`, `SelectRow`, `InsertRow`, `UpdateRow`
for the metadata, with TypeORM's save as the SELECT and the statement it is;
`RmFiles`, `RmDir`, `DeleteRow` for `remove`; `AccessImage`, `WriteTarget`,
`UnlinkImage`, `UnlinkCaption` for the captions and images; `ReadCaption`,
`RewriteCaption` for `prependToken`. A caption is the text somebody wrote behind
a number of tokens, and `opens` says whether it begins with the token, which is
what `skipExisting` looks at. `ChunkedUpload` adds the session: `StoreChunk`,
`OpenZip`, `ReadChunk`, `Assembled`, the extraction as an upload of Datasets, and
the removal of the session in two steps, its files (`Sweep`) and its directory
(`Clean`), between which a chunk or an archive of another call may arrive. The
stream of the archive has a life of its own (`stream`): its open may still be on
its way when a chunk is missing, or when another completion removes the session,
and both the open and the writes may fail. Writes of one file are one step. A crash loses requests and keeps disk and row.

The model shows, and no property forbids: two parallel first uploads both insert
the row, one answers 500 though its files are written; an upload's last save
overwrites a type a user has edited meanwhile, although `datasets.service.ts:977`
says it never does; an open that fails while the chunks are read, under the removal
by another completion, ends the API, because the stream has no error listener yet
(`OpenUnheard`); one that fails later, or a failing write, rejects the completion
before the `try` whose `finally` removes the session
(`datasets.service.ts:743-747`), so that the session stays with all its chunks
(`StreamFails`): `SessionGone` speaks of the completions that reach the removal; a crash during `remove`, or a failed
delete, leaves a row that a later dataset of the name inherits, and a crash
leaves session directories for good; images of one stem share a caption, which
goes with the first of them; `replaceImage` accepts a name that is not there; a
prepended caption in the style `nl_style` is never recognised by `skipExisting`.

### Settings, SystemPoll, Presets

`config`/`cached` and `token`/`secret` are a row and its copy in memory. Saves
are answered in the order they took effect, and `answers` is that queue; a delete
does not commit and may overtake them. `HintOf` is the four characters of a token
that are stored in clear: a save leaves out columns that did not change.
`SystemPoll` numbers the readings of `/proc/stat`; `Skip` is the guard
`isPolling`, and a refresh beside the very first poll answers with nothing
(`system.service.ts:68`). `Presets` follows `update` from `Load` through the two
statements of `save`; two overlapping updates lose each other's keys, and one
that overlaps a delete makes the preset anew, so `KeysKept` speaks of requests
that met no other.

### Outputs

`point` walks through the schedule of a training, which writes checkpoints and
previews while a request lists the one directory, then the other, then looks at
each file. Names are records of what the patterns of `outputs.service.ts` read
from them. Two of its rules leave gaps, stated in `OutputsTrue`: line 58 has no
place for the seed that line 49 allows, so an epoch's checkpoint without an `e`
whose previews all have seeds, or that has none, is labelled a step. An output
name that ends in digits would make the last checkpoint look like a step; names
are modelled without. The sort mixes epochs and steps by number, despite its
comment (line 265).

### CaptionEditor

`dataset`, `listing` and `data`, `fetch`, `stale` are the two queries of the page
with their requests; `selected`, `editor`, `edited` its selection, the mounted
editor and its unsaved text; `sent` the requests to the API. `Serve` and `Answer`
are apart: what an answer does, it does to a page that has moved on. The rules of
the query library are those the code relies on: an invalidated query on display
is fetched again, one under way is restarted only if there were data before. A
caption that cannot be fetched is stored as an empty one, the fetch being a
success (`services/datasets/api.ts:225-227`): `FetchFails` displays no caption
for a file that has one, until the next fetch. A request to clear that never
arrives is likewise taken for one that found nothing. A list that cannot be
fetched puts an alert in the place of the page (`EditDatasetPage.tsx:110`):
`DatasetFails` takes the editor away with the text in it.

The model shows: the effect of `EditDatasetPage.tsx:52`, meant for the first load,
goes back to the image of the address whenever the list changes, for instance
after each save, and unsaved text goes with the editor; text typed while its own
save is under way is dropped; a token prepended while text is edited is
overwritten by the next save.

### UploadPage and DatasetPage

`UploadPage` is the page that makes a dataset and the drawer that adds to one.
An upload is a set of parts, each waiting, in flight, stored or failed; `Begin`
to `Complete` follow the mutations of `services/datasets/mutations.ts` and the
batches of `uploadZipChunked`. The first failure fails the upload while the other
parts of its batch go on. `left` and `late` are the situations in which
`UploadShown` and `SuccessIsWhole` are not kept: a drawer closed during an
upload lets a second one start, and the first one's success closes it and drops
the selection; a progress event after a failure leaves `isUploading` true for
good, so that no further upload can be started.

`DatasetPage` is the metadata card: two fields saved on blur, a menu and a button
that act at once, the query behind them, and the same dataset edited elsewhere. A
save reads the row and writes it back in two steps, as `updateMeta` does.
`EditsReach` names what the card loses: text typed while other metadata arrive, a
field left that still shows an older text than was saved elsewhere, two columns
whose saves overlap, and what was typed and not yet saved when a refetch fails:
the page is then an alert (`ViewDatasetPage.tsx:236`, `ReadFails`), and the card
that comes back starts from the row.

### ModelsPages, JobsTable and OutputsPage

These pages display what a query cache holds. `query` (or `list`, `outs`) is its
data with the fetch in flight, which carries what it has read; requests and their
answers are steps of their own. `ModelsPages` has the table with its readiness
badge and the page of downloads: only a request of the page invalidates the
readiness, while the lists are polled. `JobsTable` writes the answers to a
creation and to a kill into the cached list, and the status events that the page
of a job hears (`StatusArrives`, `services/jobs/mutations.ts:118-143`) too. The
generated client does not throw, and the lists are `r.data ?? []`
(`services/jobs/api.ts:39`, `services/models/api.ts:18`,
`services/models/downloader/api.ts:24`): a poll that fails is a success with
nothing in it (`ListFails`, `FetchFails`), which empties the page until the next
one; the readiness, which throws, keeps what it was. `OutputsPage` keeps positions in the
list of checkpoints and in that of previews; `modal` is the state of the
lightbox, and `thrown` that rendering failed because a position is out of range.
Histories (`unseen`, `hidden`, `overtaken`, `moved`, `crossed`) mark what nothing
tells the page; the properties say everything else.

The model shows: a change that comes by polling leaves the readiness as it was;
the start of a second download frees the button of the first; a failed poll
empties the table of jobs, of models or of downloads, and takes the badge of
running downloads off; a poll that crosses
the answer to a creation lists the new job twice until the next one; an answer or
event that finds no list yet caches one with nothing else in it; when
checkpoints go, or one is listed before others, selection and lightbox jump to
another picture, or the page fails.

### JobFiles

The prompts and the options of the dataset, from the form through
`handleSubmit`, `formatPrompts` and `buildDatasetConfig` to what the trainer and
`parsePromptLine` read back. A prompt is a sequence of words, flags and line
breaks, a dataset.toml a set of entries, each with its level. `FilesSayForm` says
that what was typed comes back, with the conditions under which it does: a line
break in a text makes a second line, options typed in a text win over the
fields, a token of two words or one that is an article is never recognised, and
a text that begins like a token (`1girl, solo`) is taken for one. A negative
prompt of blanks only is written as `--n` with nothing behind it
(`jobs.service.ts:261`), which the outputs page then reads as part of the prompt
(`outputs.service.ts:73`). Of the dataset it says bucketing, repeats and class
tokens; the two augmentations it leaves to `AugmentationsReach`. `DatasetPreview`
is the text beside the form; the run `jobs_augmentations` shows where it promises
what the file has not.

### ModelRules, TrainConfig, JobForm, Catalogue

`Classify`, `CheckArchReadiness`, `GetArchesForFile`, `Destination` and
`ValidateTrainConfig` are the code's tables and rules as operators. A path is a
directory and a name; which patterns match a file is given by `Hits`. `JobForm`
downloads, copies, deletes, fills the form, changes the architecture, applies
presets and submits. `Catalogue` is the table `MODEL_PRESETS`; its behaviour
downloads and deletes the presets of two architectures in any order, so that the
rules of all nine are exercised.

The model shows: a folder name that begins like another counts as inside it
(`models.service.ts:455`, exempted in `LossIsWarned`); a base model of another
architecture in an architecture's folder makes it ready, though the form offers
none (exempted in `ReadyCanTrain`); the form as it opens is refused for flux,
chroma and sd3 until the text encoders are left out of the training; a model
deleted after it was chosen stays chosen; no rule gives the roles unet and
text_encoder, so the second variants of sd1, sd2 and sdxl are out of reach; sd3
is never ready from presets, because none of them is its VAE.

## 3. What the runs check

| Run | Question | Instance |
|---|---|---|
| `jobs` | all safety of Jobs, and that it implements JobLifecycle; the page of outputs, the files of a job | service: 2 jobs, 2 kills, limit 1, 1 crash, 1 failing save; outputs: 2 checkpoints of 2 prompts, 2 choices, 1 failure, and either the lightbox or 2 downloads, which share nothing but the list; files: 2 prompts of 7 texts, 3 negative prompts and 4 tokens, or the dataset options; 1.2 million states |
| `live` | a delivered kill ends the group, an observed end reaches the row; scans are faithful and every call of the cache ends | 1 job, 2 kills, 1 crash, 1 failing save; 2 files in 2 directories, 2 calls of any kind, files that come and go; 0.19 million states |
| `jobstream` | each line once; a client ends with what the row says | 1 job and 1 tab in four scenarios: 3 lines and a dropped connection with a changing buffer; a kill; a crash and a page change; a drop and a page change; 0.9 million states |
| `downloads` | statuses against disk and list; the two pages over them | 2 downloads of any of 2 destinations, 1 refresh or deletion; pages: 2 models, 2 requests, 1 surprise; 3 million states |
| `datasets` | directory, captions, row and upload session | 2 images of one caption, 2 chunks, every pair of requests, five threes, four mixes of chunks and completions, 1 crash; 0.6 million states |
| `services` | copies, snapshots, presets, readings of outputs, editors, uploads | each of seven parts alone: 3 requests to settings and tokens; 4 polls; 3 requests to a preset with 2 keys; a step and an epoch with the same number, 2 prompts; 2 images edited, 2 texts, 2 saves; 2 uploads of 2 files or 3 pieces in batches of 2; a card with 2 texts, 2 saves, 1 failing fetch; 4 million states |
| `jobform` | what is ready can be trained, what is accepted fits; the table of presets; the table of jobs | 9 files, 3 architectures that share some of them; the presets of any 2 of 9 architectures; 2 jobs, 2 requests, 1 failing request or poll, or event that is early or late; 0.7 million states |
| `jobs_limit`, `jobs_killed`, `jobs_augmentations`, `downloads_cancel`, `downloads_listed` | statements of the repository that the code does not keep | smallest instances that show it |

Jobs:

- `SlotsBounded`: the Running rows respect the limit if no two creates were past
  the limit check together. The condition is needed: see `ConcurrencyLimit`.
- `EndsAreTrue`: a Done row is of a process that exited with 0; a finished row is
  of a process that ended, unless the API was restarted beside it.
- `RunningIsHeld`: with the API up, a Running row has a map entry or its final
  save on the way.
- `KillAnswersSettled`, `KillEnds`: a delivered kill never answers Pending or
  Running, and the process ends, unless the API dies before the SIGKILL.
- `FinalAgreement`, `FinalWord`: after the final save, row, object and last
  event agree; nothing is announced after Done or Failed.
- `CloseIsRecorded`: the end of a process with listeners reaches its row, by the
  handler or by the restart.
- `ImplementsLifecycle`: a row is created once, never goes back, Done and Failed
  are final, and Done is of a process that exited with 0.

JobStream: `LogWithoutGap` (each line once, in order, without a gap, through
replays, reconnects and a buffer that shrinks), `ShownEndIsTrue` (Done and Failed
on the page are the row's, and come with the whole log), `PageSettles` (an open
page shows the end at last, with or without a socket).

Models and downloads: `ScanFaithful` (a scan lists all that was there all the
while and nothing that never was, or nothing at all if a file vanished under it),
`CallEnds`; `StatusTellsDisk` (Completed has its whole file, Failed and Cancelled
leave none), `SkippedIsWhole`, `FinalStatus`, `ListedWhenRescanned`; `PagesTell`.
The exceptions of the downloads (`met`, `late`, `gone`) are exactly the situations
in which the code does not keep them: two calls of one destination, an unlink that
overtook its open, a file that vanished.

Datasets: `RowHasDirectory`, `AcknowledgedKept` (what was answered as saved stays
in the row), `PrependIsExact` (each caption once), `MissingIsReal` and
`SessionGone` for the upload session, `RequestEnds`.

Services and pages: `ConfigInStep`, `KeysKept`, `SnapshotsAdvance`, `OutputsTrue`;
`EditorTells`, `UploadShown`, `SuccessIsWhole`, `EditsReach`, `TableTells`,
`LightboxTells`, `FilesSayForm`. Rules: `AcceptedFitsArch`, `ReadyCanTrain`,
`LossIsWarned`, `PresetsSuffice`. Each is stated in words above its definition,
with every exception; an exception is in the statement only where TLC produced a
behaviour of the code that needs it.

The type invariants are proved where a module has proofs and checked by TLC while
the other modules were written; they are not repeated in the runs.

**Bounds.** Every interaction in Jobs is between a job and its kills, or between
two creates; two of each give every pair. One crash is followed by a restart and
by everything that can happen after it; a failing save can be any save. In
ModelsCache two calls give every pair of overlapping scans and deletions, two
directories every order of reading. In Downloader two downloads meet at a
destination in every order, and the third call scans or deletes beside them. In
Datasets every pair of requests meets await by await; the threes are those in
which a third request uses what two others leave between them. JobStream takes the
failures two at a time: all at once would be out of reach. In the services, three
requests are one more than a lost update needs. A page loses something when an
answer meets a later action, so two requests and one surprise reach every such
case; the card was also explored with three of each. Two architectures at a time
suffice for the presets: the tables are asked about one file at a time, which is
of the architecture itself or shared with it by another. `MaxCrashes`, `MaxFaults`, `Bounds`, `Mixes` and the other
`Max...` constants bound counters in the guards; deadlock is not checked, because
all systems stop when their finitely many calls are done.

**Fairness.** Weak fairness on what the event loop, SQLite, the file system and
the container owe: the continuation after an await, the event of a process that
has ended, the timer, the restart. In JobStream also on the poll and its answer,
and on nothing that the socket carries, so that `PageSettles` rests on polling
alone. In Datasets on all pending requests together. None on users, on the end of
a process, on the network, on crashes and failing saves.

**Findings** (with the quoted lines in `PROJECT.json`):

1. `jobs_killed`: the guard of the close handler reads `launch`'s object, kill
   marks another; a killed job ends as Failed (or Done).
2. `jobs_limit`: two creates pass the same check; more jobs run than the limit.
   A killed process that still runs for up to five seconds, and one that
   survived the API, are not counted either.
3. `downloads_cancel`: a cancel before the answer is not heard; the download
   completes.
4. `downloads_listed`: a scan that began before the file and ends last removes
   it from the list.
5. `jobs_augmentations`: the form offers flipped images and changed colours, and
   its preview of dataset.toml has `flip_aug` and `color_aug`, but the request
   carries neither; the trainer never does either.

What the code does in a hazard and no line of it denies is not a finding: the
property then names the case as its exception, and the hazard in `PROJECT.json`
says in a note that the property does not speak of it (an unheard close, two
overlapping updates of one row, a removal under an upload, a rejected archive).

## 4. What is proved

Every theorem holds for all values of the constants under the named assumptions.
None of the properties is inductive by itself; each module of proofs has the
invariant that is.

**Jobs** (`JobAssumption`, `BoundAssumption`: a finite set of jobs, any limit and
bounds): every safety property of the service in the `jobs` run, in `JobsProofs`
and `JobsRefinement`. `JobsInvariant` strengthens them with what relates the four
places: in which stage the object exists and what it reads (`MemInv`), what the
row may read in that stage (`RowInv`), that finished means ended (`EndInv`), who
has announced what (`AnnounceInv`), what a kill in progress has found (`KillInv`),
that accepted creates and Running rows together fit the limit (`SlotInv`), that a
dead API has no call in progress (`DownInv`). The heart is `MemInv`: a job is in
the map exactly while its object reads Running, which is why a kill that finds it
in the map cannot announce Killed after the end, and why the final save of the
close handler is always behind the saves of the kills. `JobsProofs` has a lemma
for each action, one step for each part of `IInv`; `NextIInv` joins them.
`FinalWord` and the refinement follow from `IInv` step by step; the refinement
maps `row` to itself and `life` to what `os` says of the process.

**ModelsCache** (`PlaceAssumption`, `NoFileAssumption`): `ScanFaithful`. `ScanInv`
says that what was there all the while is found, listed or in a directory still to
be read, that everything seen was there once, and that a listed file that is
missing has marked the scan.

**Downloader** (`DownloadAssumption` besides): `StatusTellsDisk`, `SkippedIsWhole`,
`FinalStatus`, `ListedWhenRescanned`. The invariant has four parts. `StageTrue`
relates status, fetch, abort and operations on the thread pool; `FilesTrue` says
whose file lies at a destination and who may still touch it; `AloneTrue` that a
download that met nobody has its destination to itself; `CleanTrue` that one that
ended badly and was not overtaken has left nothing. The rescan reuses the
invariant of ModelsCache, through the lemmas on `ScanStep`.

**JobStream** (`StreamAssumption` besides those of Jobs): `LogWithoutGap`,
`ShownEndIsTrue`. `StreamInv` is `IInv` of Jobs with three parts. `BufferInv`: the
buffer has the last lines printed. `ShownInv` looks at every message on its way
after which the list will be a replay: from there on, the lines shown and the lines
under way are a run of consecutive numbers that ends with the last one printed, so
whichever message arrives next adds the next line or starts again. `ToldInv`: a
Done or Failed in a message, in an answer or in the cache is what the row or the
object of `launch` already says, and a log read with it is the whole buffer. The
lemmas on `ServiceStep` reuse the invariance of `IInv`.

**Datasets and ChunkedUpload** (`StemAssumption`, `PayloadAssumption`,
`FileAssumption`, `NoneAssumption`, `ChunksAssumption`: any finite sets of images and
captions, any payloads, any number of chunks and requests): `RowHasDirectory`,
`AcknowledgedKept`, `PrependIsExact`, `SessionGone`, `MissingIsReal`. `UploadInv` is
`DatasetInv /\ SessionInv`. What each call knows is stated stage by stage: a caption
that a prepend still has to rewrite, and that nobody else has touched, has the text
it had (`ReachOf`); a call that saves has seen the row as it is unless somebody has
saved since (`SeenOf`); a call that writes the row without a directory has yet to
make it, or a removal has met one (`DirOf`); a completion keeps the chunks it found
(`SessionInv`).

**Settings** (`NoneAssumption`, `HintAssumption`): `ConfigInStep`, for any requests
that overlap, fail or are cut off. The last answer on its way to a request carries
what the row holds, or the copy is the row already (`ConfigTrue`, `TokenTrue`, with
`LastOf` for that answer).

**Presets** (`PresetAssumption`, that its names differ): `KeysKept`. An entity
about to be saved agrees with whatever may be relied on, and no request under way
may change that. **SystemPoll**: `SnapshotsAdvance`. At most one poll is under way,
and what it has read is no older than the snapshot it will replace.

**Outputs** (`ScheduleAssumption`: any schedule of epochs and steps): `OutputsTrue`,
for any trainer's style of names and any interleaving of its writes with the
reading. A name tells the point of the training it is of, except where the code's
patterns leave a gap; so a checkpoint has the previews of its own point in the map
of stems (`PairsTrue`), and what was there all the while is still to be looked at or
answered (`ListTrue`).

**CaptionEditor** (`EditorAssumption`, `NothingAssumption`): `EditorTells`. `CacheTrue`:
as long as no answer is on its way from a request that has done something, what was
read of a caption is the file's, and what is displayed too, but for queries that are
marked and not on display. A request that changes a file owes an answer, and its
answer restarts or marks every query (`InvalidateEdit`).

**The pages.** Each invariant says of the page's data that they are the API's unless
something is still under way that will correct them.

- UploadPage (`UploadAssumption`): `UploadShown`, `SuccessIsWhole`. Uploads beside
  each other were all left in a drawer (`LeftTogether`), which is why an upload that
  ends cannot hide another one.
- DatasetPage: `EditsReach`. What was entered for a column is in the row or one request,
  and no other, carries it there (`EditOnItsWay`); the row is on display or will be
  fetched (`RowOnItsWay`).
- JobsTable: `TableTells`. The list, with the creations and kills whose answers have not
  arrived, is the table of the API as long as none of them has crossed a poll, no poll
  has failed and no event said another status (`ListTells`); a kill that has begun has found a job that no longer runs (`KillsTrue`).
- ModelsPages: `PagesTell`. What a query holds is the API's unless an answer that will
  invalidate it is on its way (`DataTrue`); a spinning button has its start
  (`ButtonTrue`).
- OutputsPage (`OutputsPageAssumption`): `LightboxTells`. While checkpoints come in their
  order and none goes, the list on display, the one on its way and the one the API
  would answer with begin alike (`SightTrue`), so a position keeps its checkpoint.
  That a place in a sorted list is one number's, and stays it when a greater one
  comes, is proved by counting (`NthIs`, `NthGrows`).

**ModelRules, TrainConfig, JobForm** (`ArchesAssumption`, `FilesAssumption`,
`PresetAssumption`, `RequestAssumption`, `NoneAssumption`: any files, any patterns that
match them, any folder names that begin alike, any downloads and saved presets):
`AcceptedFitsArch`, `ReadyCanTrain`, `LossIsWarned`. `FormInv` says that a path in the
form, whatever became of its file, is one that was offered for the architecture the form
is at (`Fits`). Three facts about the tables carry the rest. A base model is always of a
known architecture and has the role of its base model, because every rule that knows an
architecture and comes before the folders' rules knows the role too (`RuleTable`,
`MainRoleIs`); this is why the main list cannot offer a model of unknown architecture,
although the page allows it for sd1, sd2 and sdxl. The best variant lacks nothing
exactly when some variant lacks nothing (`ReadyIs`). The paths validation requires are
the roles of the first variant, but for SD3 (`RequiredFill`, `NeededShown`), and no
other variant can be had, since no rule gives the role unet. `LossIsWarned` rests on
`LossNamed`, which holds of any two contents of the directory: the search for other users
of a file looks wherever readiness looks.

**Only model-checked.** Liveness (`KillEnds`, `CloseIsRecorded`, `CallEnds`, `PageSettles`,
`RequestEnds`) is out of the prover's reach. `FilesSayForm`: JobFiles computes texts by folding over
sequences: what its parser makes of any text needs induction over data, which the
installed provers cannot do. `PresetsSuffice` is about the names in the table of presets
and the patterns that match them: these are given, and an instance says all there is.

## 5. Not modelled

- Authentication (hashes and JSON web tokens of libraries), the generated client,
  the wiring of the application, DTO and Swagger decorations.
- What is only computed and displayed: progress figures of trainings and
  downloads, sizes, the numbers of the presets, the checksums of models, what
  nvidia-smi prints, `GET` requests that change nothing, the export of a dataset.
- How TOML is spelt, file names character by character, the content of images.
- Pages that only lay out or repeat a form that is modelled: the settings pages,
  the menu, the table of datasets, the login.
- What TLC could not follow: more than one browser tab, more than one dataset
  name, connections that fail in all ways at once.

Met while reading, and outside what the modules state:

- `tomlString` (`utils/toml/utils.ts`) does not escape line breaks.
- `getTrainScript` throws for an unknown architecture after the job's directories
  are made.
- The confirmation of a deletion may list other files than are deleted, since the
  disk is scanned again.
- A model's integrity result stays on display after its file is replaced.
- "Re-download / overwrite" (`HFDownloaderPage.tsx`) starts a download that the
  API answers with skipped, and says that it started.
- `applyPreset` drops some fields of a preset (`clip_skip`, `noise_offset`,
  `discrete_flow_shift`, `weighting_scheme`), and `save_precision` of an earlier
  preset stays.
- `uploadFiles` answers with the last dataset of the list, which need not be the
  one of the upload.
- A failed `updateMeta` and a failed checkpoint download say nothing to the user.
- `formatPromptsPreview` trims prompts, the request sends them as they are; the
  preview of dataset.toml lacks `caption_extension` and assumes
  `/workspace/datasets`.
- The page says outputs go to `/workspace/outputs/{jobId}`; they go to
  `outputs/<name>/<jobId>-<date>`.
- List keys: a prompt row is keyed by its text, so typing remounts it and two
  equal rows share a key; log lines are keyed by their text.
- Escape closes the comparison and the lightbox together.
