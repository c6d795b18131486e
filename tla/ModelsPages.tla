----------------------------- MODULE ModelsPages -----------------------------
(***************************************************************************)
(* The two pages about models in one browser tab: the table of the files   *)
(* with the readiness of an architecture, and the page that downloads      *)
(* presets.  Both display three queries of one cache: the list of models   *)
(* and that of downloads, which are polled, and the readiness, which is    *)
(* fetched only when a request of the page has invalidated it.  One        *)
(* architecture stands for all; it needs every model there is, each of     *)
(* which one preset offers.  The API is Downloader and ModelsCache with    *)
(* scans that do not overlap.                                              *)
(***************************************************************************)
EXTENDS Naturals, Sequences, FiniteSets

CONSTANTS
    Model,
    None,
    MaxPosted,       \* bounds: requests of the user,
    MaxChances      \* changes from elsewhere and failures

VARIABLES
    stored,     \* the files in the models directory
    known,      \* those in the list of the API
    sites,      \* the page on display: "models", "download" or "none"
    query,      \* the queries: data and fetch, <<>> or one value, and invalid
    posted,      \* the requests, each with the download it starts, or is of
    starting,   \* startingId
    chances,
    \* history:
    crossed,    \* two starts from the buttons of presets were in flight at once
    unseen      \* queries whose answer changed, and nothing tells the page

pagesVars == <<stored, known, sites, query, posted, starting, chances, crossed, unseen>>
serverVars == <<stored, known>>

Query == {"list", "ready", "jobs"}
Unfetched == [data |-> <<>>, fetch |-> <<>>, invalid |-> FALSE]

PagesInit ==
    /\ stored \in SUBSET Model /\ known = stored
    /\ sites = "none"
    /\ query = [q \in Query |-> Unfetched]
    /\ posted = <<>> /\ starting = None /\ chances = 0
    /\ crossed = FALSE /\ unseen = {}

\* The status of a download: one whose request is not answered yet is listed as
\* downloading already, and not stopped when it is cancelled.
StatusOf(job) ==
    CASE job \in {"requested", "writing"}  -> "downloading"
      [] job \in {"completed", "listed"}   -> "completed"
      [] job \in {"cancelled", "unheard"}  -> "cancelled"
      [] job \in {"none", "failed", "skipped"} -> job

\* What the API answers to each query.
Answer == [list  |-> known,
           ready |-> Model \subseteq known,
           jobs  |-> [n \in DOMAIN posted |-> StatusOf(posted[n].job)]]

\* The badge is in the header of an architecture that has files.
Watched(q) ==
    CASE q = "list"  -> sites # "none"
      [] q = "jobs"  -> sites = "download"
      [] q = "ready" -> sites = "models" /\ query["list"].data \notin {<<>>, <<{}>>}

Unanswered(n) == posted[n].state # "done"

Chance == chances < MaxChances /\ chances' = chances + 1

-----------------------------------------------------------------------------
(* The queries *)

ShowPage(p) ==
    /\ sites # p
    /\ sites' = p
    /\ starting' = None
    /\ posted' = [n \in DOMAIN posted |-> [posted[n] EXCEPT !.here = FALSE]]
    /\ crossed' = FALSE
    /\ UNCHANGED <<serverVars, query, chances, unseen>>

\* Timers, mounts and the focus of the window; the readiness is stale only when
\* it was invalidated.
Fetch(q) ==
    /\ Watched(q) /\ query[q].fetch = <<>>
    /\ q = "ready" => query[q].data = <<>> \/ query[q].invalid
    /\ query' = [query EXCEPT ![q].fetch = <<"asked">>]
    /\ UNCHANGED <<serverVars, sites, posted, starting, chances, crossed, unseen>>

FetchAnswered(q) ==
    /\ query[q].fetch = <<"asked">>
    /\ query' = [query EXCEPT ![q].fetch = <<"read", Answer[q]>>]
    /\ unseen' = unseen \ {q}
    /\ UNCHANGED <<serverVars, sites, posted, starting, chances, crossed>>

Fetched(q) ==
    /\ Len(query[q].fetch) = 2
    /\ query' = [query EXCEPT ![q] = [data |-> <<query[q].fetch[2]>>, fetch |-> <<>>, invalid |-> FALSE]]
    /\ UNCHANGED <<serverVars, sites, posted, starting, chances, crossed, unseen>>

\* A list that cannot be fetched is an empty one, and the fetch a success; the
\* readiness stays what it was.
FetchFails(q) ==
    /\ Chance
    /\ query[q].fetch # <<>>
    /\ query' = [query EXCEPT ![q] =
          IF q = "ready" THEN [@ EXCEPT !.fetch = <<>>]
          ELSE [data |-> <<IF q = "list" THEN {} ELSE <<>>>>, fetch |-> <<>>, invalid |-> FALSE]]
    /\ unseen' = unseen \cup {q}
    /\ UNCHANGED <<serverVars, sites, posted, starting, crossed>>

\* The fetch of a query on display starts anew, except the first one.
Restarts(q) == Watched(q) /\ (query[q].data # <<>> \/ query[q].fetch = <<>>)

\* invalidateQueries.
Invalidate(qs) ==
    /\ query' = [q \in Query |->
          IF q \notin qs THEN query[q]
          ELSE [query[q] EXCEPT !.invalid = TRUE, !.fetch = IF Restarts(q) THEN <<"asked">> ELSE @]]
    /\ unseen' = unseen \cup {q \in qs : ~Restarts(q) /\ Len(query[q].fetch) = 2}

\* Mutant: the key of the list is taken as it is.
ModelsKeyExact == {"list"}

\* The key of the list is the beginning of that of the readiness.
ModelsKey == {"list", "ready"}

-----------------------------------------------------------------------------
(* What the user asks for *)

Send(kind, models, of) ==
    /\ Len(posted) < MaxPosted
    /\ posted' = Append(posted, [kind |-> kind, models |-> models, of |-> of, here |-> TRUE,
                                state |-> "sent", job |-> "none"])
    /\ unseen' = unseen \cup {"jobs"}
    /\ UNCHANGED <<serverVars, sites, query, chances>>

\* A row of the table, its dialog, and the confirmation.
DeleteShown(m) ==
    /\ sites = "models" /\ query["list"].data # <<>> /\ m \in query["list"].data[1]
    /\ ~\E n \in DOMAIN posted : posted[n].kind = "delete" /\ posted[n].models = {m} /\ Unanswered(n)
    /\ Send("delete", {m}, 0)
    /\ UNCHANGED <<starting, crossed>>

\* The dialog displays a preview of the API; what is deleted is what the API
\* lists when it deletes.
DeleteShownArch ==
    /\ Watched("ready")
    /\ ~\E n \in DOMAIN posted : posted[n].kind = "clear" /\ Unanswered(n)
    /\ Send("clear", Model, 0)
    /\ UNCHANGED <<starting, crossed>>

RefreshModels ==
    /\ sites = "models"
    /\ ~\E n \in DOMAIN posted : posted[n].kind = "refresh" /\ Unanswered(n) /\ posted[n].here
    /\ Send("refresh", {}, 0)
    /\ UNCHANGED <<starting, crossed>>

\* handlePresetDownload: the button of a preset, the second one for a file that
\* is listed, unless it spins.
StartPreset(m) ==
    /\ sites = "download" /\ starting # m
    /\ Send("start", {m}, 0)
    /\ starting' = m
    /\ crossed' = (crossed \/ \E n \in DOMAIN posted : posted[n].kind = "start" /\ posted[n].here /\ Unanswered(n))

\* handleCustomDownload: the button of the dialog spins while the start that was
\* sent last is in flight.
StartCustom(m) ==
    /\ sites = "download"
    /\ LET mine == {n \in DOMAIN posted : posted[n].kind \in {"start", "custom"} /\ posted[n].here}
       IN  \A n \in mine : (\A k \in mine : k <= n) => ~Unanswered(n)
    /\ Send("custom", {m}, 0)
    /\ UNCHANGED <<starting, crossed>>

\* The row of a download that is displayed as active.
CancelJob(n) ==
    /\ sites = "download" /\ query["jobs"].data # <<>>
    /\ n \in DOMAIN query["jobs"].data[1]
    /\ query["jobs"].data[1][n] = "downloading"
    /\ Send("cancel", {}, n)
    /\ UNCHANGED <<starting, crossed>>

-----------------------------------------------------------------------------
(* The API *)

\* The unlinks; a file that is not there fails the deletion of one, not that of
\* all.
RequestUnlinks(n) ==
    /\ posted[n].state = "sent"
    /\ posted[n].kind \in {"delete", "clear"}
    /\ LET gone == posted[n].models \cap known
           fails == posted[n].kind = "delete" /\ ~(posted[n].models \subseteq gone \cap stored)
       IN  /\ stored' = (IF fails THEN stored ELSE stored \ gone)
           /\ posted' = [posted EXCEPT ![n].state =
                            IF fails THEN "failed" ELSE IF gone = {} THEN "handled" ELSE "scan"]
    /\ UNCHANGED <<known, sites, query, starting, chances, crossed, unseen>>

\* The refresh that each of these requests awaits before it is answered.
RequestScan(n) ==
    /\ posted[n].state = "scan" \/ (posted[n].state = "sent" /\ posted[n].kind = "refresh")
    /\ posted' = [posted EXCEPT ![n].state = "handled"]
    /\ known' = stored
    /\ UNCHANGED <<stored, sites, query, starting, chances, crossed, unseen>>

\* start(): a file that is there is skipped.
StartJob(n) ==
    /\ posted[n].state = "sent" /\ posted[n].kind \in {"start", "custom"}
    /\ posted' = [posted EXCEPT ![n].state = "handled",
                               ![n].job = IF posted[n].models \subseteq stored THEN "skipped" ELSE "requested"]
    /\ unseen' = unseen \cup {"jobs"}
    /\ UNCHANGED <<serverVars, sites, query, starting, chances, crossed>>

\* A request that never gets there, or is refused: that for a rescan is taken for
\* one that found nothing.
RequestFails(n) ==
    /\ Chance
    /\ posted[n].state = "sent"
    /\ posted' = [posted EXCEPT ![n].state = IF posted[n].kind = "refresh" THEN "handled" ELSE "failed"]
    /\ UNCHANGED <<serverVars, sites, query, starting, crossed, unseen>>

\* The download begins to write its file, ends, and has the list made anew; or
\* it fails, and what it wrote is removed.
Downloads(n) ==
    /\ \/ /\ posted[n].job = "requested"
          /\ stored' = stored \cup posted[n].models
          /\ posted' = [posted EXCEPT ![n].job = "writing"]
          /\ UNCHANGED <<known, chances, unseen>>
       \/ /\ posted[n].job \in {"writing", "unheard"}
          /\ stored' = stored \cup posted[n].models
          /\ posted' = [posted EXCEPT ![n].job = "completed"]
          /\ unseen' = unseen \cup {"jobs"}
          /\ UNCHANGED <<known, chances>>
       \/ /\ posted[n].job = "completed"
          /\ known' = stored
          /\ posted' = [posted EXCEPT ![n].job = "listed"]
          /\ unseen' = (IF known' = known THEN unseen ELSE unseen \cup ModelsKey)
          /\ UNCHANGED <<stored, chances>>
       \/ /\ posted[n].job \in {"requested", "writing"}
          /\ Chance
          /\ stored' = (IF posted[n].job = "writing" THEN stored \ posted[n].models ELSE stored)
          /\ posted' = [posted EXCEPT ![n].job = "failed"]
          /\ unseen' = unseen \cup {"jobs"}
          /\ UNCHANGED known
    /\ UNCHANGED <<sites, query, starting, crossed>>

\* cancel(): one that has ended is left as it is.
CancelDownload(n) ==
    /\ posted[n].state = "sent" /\ posted[n].kind = "cancel"
    /\ LET k == posted[n].of
           stops == posted[k].job = "writing"
       IN  /\ posted' = [posted EXCEPT ![n].state = "handled",
                 ![k].job = IF stops THEN "cancelled" ELSE IF @ = "requested" THEN "unheard" ELSE @]
           /\ stored' = (IF stops THEN stored \ posted[k].models ELSE stored)
    /\ unseen' = unseen \cup {"jobs"}
    /\ UNCHANGED <<known, sites, query, starting, chances, crossed>>

\* Another tab, or the user's own hands and a scan.
ModelsChange ==
    /\ Chance
    /\ \E m \in Model : stored' = (stored \ {m}) \cup ({m} \ stored)
    /\ known' = stored'
    /\ unseen' = unseen \cup ModelsKey
    /\ UNCHANGED <<sites, query, posted, starting, crossed>>

-----------------------------------------------------------------------------
(* The answers *)

\* finally, on the page the start was sent from.
Started(n) == starting' = (IF posted[n].kind = "start" /\ posted[n].here THEN None ELSE starting)

Done(n) ==
    /\ posted[n].state = "handled"
    /\ posted' = [posted EXCEPT ![n].state = "done"]
    /\ Started(n)
    /\ Invalidate(IF posted[n].kind \in {"delete", "clear", "refresh"} THEN ModelsKey ELSE {"jobs"})
    /\ UNCHANGED <<serverVars, sites, chances, crossed>>

\* onError, which invalidates nothing.
Failed(n) ==
    /\ posted[n].state = "failed"
    /\ posted' = [posted EXCEPT ![n].state = "done"]
    /\ Started(n)
    /\ UNCHANGED <<serverVars, sites, query, chances, crossed, unseen>>

PagesNext ==
    \/ \E p \in {"models", "download", "none"} : ShowPage(p)
    \/ \E q \in Query : Fetch(q) \/ FetchAnswered(q) \/ Fetched(q) \/ FetchFails(q)
    \/ \E m \in Model : DeleteShown(m) \/ StartPreset(m) \/ StartCustom(m)
    \/ DeleteShownArch \/ RefreshModels \/ ModelsChange
    \/ \E n \in DOMAIN posted :
          \/ CancelJob(n) \/ RequestUnlinks(n) \/ RequestScan(n) \/ StartJob(n) \/ Downloads(n) \/ CancelDownload(n)
          \/ RequestFails(n) \/ Done(n) \/ Failed(n)

PagesSpec == PagesInit /\ [][PagesNext]_pagesVars

-----------------------------------------------------------------------------
\* What is on display when every request is answered and no fetch is under way
\* or due is what the API says: after a deletion or a rescan the table and the
\* badge of readiness, after a start or a cancel the downloads, whatever pages
\* and polls came in between.  Except what changed with nobody to tell the page
\* since it was read: a download that goes on or is listed, another tab, or a
\* fetch that an invalidation did not restart; or what the last fetch failed to
\* tell, which for the two lists is that there is nothing, until the next poll.
\* A preset's button spins while its start is in flight, and only then, so that
\* the page never starts it twice at once nor closes it for good: unless the
\* starts of two presets were in flight together, when the first that ends frees
\* both.
PagesTell ==
    /\ (\A n \in DOMAIN posted : ~Unanswered(n)) =>
          \A q \in Query \ unseen :
              Watched(q) /\ query[q].fetch = <<>> /\ query[q].data # <<>> /\ ~query[q].invalid =>
                  query[q].data = <<Answer[q]>>
    /\ LET mine == {n \in DOMAIN posted : posted[n].kind = "start" /\ posted[n].here /\ Unanswered(n)}
       IN  /\ starting # None => mine # {}
           /\ crossed \/ (Cardinality(mine) <= 1 /\ \A n \in mine : posted[n].models = {starting})
=============================================================================
