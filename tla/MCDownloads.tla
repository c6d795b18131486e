----------------------------- MODULE MCDownloads -----------------------------
(* The downloads of the API, and beside them, with nothing shared, one of   *)
(* the two pages of the UI that display models and downloads.               *)
EXTENDS MCDownloader, ModelsPages

CONSTANTS m1, m2

VARIABLE part       \* the part that moves: the API, or the page

DownloadsSymm == MCSymm \cup Permutations(Model)

DownloadsInit ==
    /\ part \in {"api", "models", "download"}
    /\ Init
    /\ part = "api" \/ (disk = [f \in File |-> NoFile] /\ dest = [d \in Download |-> f1])
    /\ PagesInit
    /\ part = "models" \/ stored = {}

\* What is not on display on one page is left to the other.
DownloadsNext ==
    /\ part' = part
    /\ \/ part = "api" /\ Next /\ UNCHANGED pagesVars
       \/ /\ part = "models" /\ PagesNext
          /\ sites' # "download" /\ query'["jobs"] = query["jobs"]
          /\ UNCHANGED vars
       \/ /\ part = "download" /\ PagesNext
          /\ sites' # "models" /\ query'["list"] = query["list"]
          /\ UNCHANGED vars

DownloadsSpec == DownloadsInit /\ [][DownloadsNext]_<<part, vars, pagesVars>>
=============================================================================
