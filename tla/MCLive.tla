------------------------------- MODULE MCLive -------------------------------
(* What must happen in the end: to the jobs of the API, and beside them,    *)
(* with nothing shared, to the calls of the cache of models.  One of the    *)
(* two moves; the fairness of the other asks nothing of its first state.    *)
EXTENDS MCJobs, MCModelsCache

VARIABLE part       \* the part that moves

LiveInit ==
    /\ part \in {"jobs", "models"}
    /\ Init
    /\ CacheInit
    /\ part = "models" \/ disk = [f \in File |-> NoFile]

LiveNext ==
    /\ part' = part
    /\ \/ part = "jobs"   /\ Next      /\ UNCHANGED cacheVars
       \/ part = "models" /\ CacheNext /\ UNCHANGED vars

LiveSpec == LiveInit /\ [][LiveNext]_<<part, vars, cacheVars>> /\ Fairness /\ CacheFairness
=============================================================================
