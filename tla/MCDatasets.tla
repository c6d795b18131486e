----------------------------- MODULE MCDatasets -----------------------------
(* Two images that share a caption.  Every pair of dataset requests, and the *)
(* threes in which a third one matters; chunks and completions of a session. *)
EXTENDS ChunkedUpload

CONSTANTS i1, i2, s1, c1, c2, c3

MCStemOf == [i \in Image |-> s1]
MCPayloads == {{}, {i1, s1}}

Mix(a, b, d) == [c \in Call |-> CASE c = c1 -> a [] c = c2 -> b [] c = c3 -> d]
Pairs == {Mix(a, b, "none") : a, b \in DatasetOp}
Threes == {Mix("upload", "meta", "remove"), Mix("upload", "upload", "meta"),
           Mix("meta", "meta", "upload"), Mix("remove", "upload", "detect"),
           Mix("prepend", "prepend", "caption")}
Sessions == {Mix("complete", "complete", "none"), Mix("chunk", "chunk", "complete"),
             Mix("complete", "meta", "none"), Mix("complete", "remove", "none")}

MCMixes == Pairs \cup Threes \cup Sessions
=============================================================================
