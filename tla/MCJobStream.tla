----------------------------- MODULE MCJobStream -----------------------------
(* One job, and the combinations of events worth exploring together: lines   *)
(* through a changing buffer over a dropped connection; a kill and a page    *)
(* that is left or opened; a crash; a dropped connection and such a page.    *)
EXTENDS JobStream

CONSTANT j1, k1

LinesAndDrop == [sizes |-> {1, 2}, lines |-> 3, drops |-> 1, moves |-> 0,
                 kills |-> 0, crashes |-> 0]
KillAndMove  == [sizes |-> {1}, lines |-> 0, drops |-> 0, moves |-> 0,
                 kills |-> 1, crashes |-> 0]
CrashAndMove == [sizes |-> {1}, lines |-> 1, drops |-> 0, moves |-> 1,
                 kills |-> 0, crashes |-> 1]
DropAndMove  == [sizes |-> {1}, lines |-> 1, drops |-> 1, moves |-> 1,
                 kills |-> 0, crashes |-> 0]

MCBounds == {LinesAndDrop, KillAndMove, CrashAndMove, DropAndMove}
=============================================================================
