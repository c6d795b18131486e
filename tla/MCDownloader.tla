---------------------------- MODULE MCDownloader -----------------------------
(* Two destinations in two directories, of one architecture.               *)
EXTENDS Downloader, TLC

CONSTANTS f1, f2, left, right, flux

MCDirOf  == (f1 :> left) @@ (f2 :> right)
MCArchOf == [f \in File |-> flux]
MCSymm   == Permutations(Download)
=============================================================================
