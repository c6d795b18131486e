---------------------------- MODULE DatasetsProofs ----------------------------
(***************************************************************************)
(* What the requests to one dataset leave on the disk, in its row and in   *)
(* the session of an upload, for any images, captions, requests, mixes of  *)
(* them and numbers of chunks.                                             *)
(***************************************************************************)
EXTENDS ChunkedUpload, FiniteSetTheorems, TLAPS

-----------------------------------------------------------------------------
(* The inductive invariant: what each call knows, and what all share *)

Unpacker == {"upload", "complete"}
Saving   == {"select", "insert", "update"}
OneImage == {"access", "put", "unlink", "untext"}
Prepends(c) == call[c].at \in {"read", "rewrite"}

\* Each stage belongs to some requests.
StagesOf(c) ==
    /\ call[c].at \in {"mkdir", "write"} => op[c] \in Unpacker
    /\ At(c, "sample") => op[c] \in Unpacker \cup {"detect"}
    /\ call[c].at \in {"find"} \cup Saving => op[c] \in Unpacker \cup {"meta", "detect"}
    /\ call[c].at = "readdir" => op[c] \in Unpacker \cup {"detect", "prepend"}
    /\ call[c].at = "assert" => op[c] = "detect"
    /\ call[c].at \in {"rm", "rmdir", "delete"} => op[c] = "remove"
    /\ call[c].at \in OneImage => op[c] \in {"caption", "uncaption", "unimage", "replace"}
    /\ Prepends(c) => op[c] = "prepend"

\* What a call has left to do are files of the kind its stage is about.
TodoOf(c) ==
    /\ call[c].at \in {"mkdir", "write", "readdir"} => call[c].tags = 0
    /\ At(c, "sample") =>
         call[c].todo \subseteq Stem /\ call[c].tags + Cardinality(call[c].todo) <= call[c].sampled
    /\ call[c].at \in OneImage => call[c].todo # {} /\ call[c].todo \subseteq Image
    /\ Prepends(c) => call[c].todo \subseteq Image
    /\ At(c, "rewrite") => call[c].held \in [stem : Stem, caption : Caption]

Value(k) == IF k = "captionType" THEN CaptionType ELSE Call \cup {None}
Fields == {p \in Partial : \A k \in DOMAIN p : p[k] \in Value(k)}

\* What a call will save fits the columns of the row.
FieldsOf(c) ==
    /\ call[c].fields \in Fields /\ call[c].entity \in Fields
    /\ At(c, "update") => call[c].cols \subseteq DOMAIN call[c].entity

\* A call that skips what it sees, and writes what such calls see, holds a
\* caption without the token, unless others have prefixed that caption.
HoldOf(c) ==
    At(c, "rewrite") /\ call[c].skip /\ ~call[c].style =>
        call[c].held.caption.lead = 0 \/ call[c].held.stem \in marked

\* A caption that nobody else has touched since a prepend listed the directory
\* has kept its text, on the disk and in the call; its token is in place once
\* none of its images is left.
ReachOf(c) == Prepends(c) =>
    /\ \A s \in Stem \ touched[c] :
          /\ text[s] = None <=> before[c][s] = None
          /\ text[s] # None => text[s].body = before[c][s].body
          /\ At(c, "rewrite") /\ call[c].held.stem = s =>
               text[s] # None /\ call[c].held.caption.body = before[c][s].body
    /\ \A i \in images :
          StemOf[i] \notin touched[c] /\ text[StemOf[i]] # None =>
              \/ i \in call[c].todo
              \/ At(c, "rewrite") /\ call[c].held.stem = StemOf[i]
              \/ text[StemOf[i]].lead > 0

\* Without the directory, a call that will write the row has not made it yet,
\* or else a removal has met one.
DirOf(c) == ~dir /\ ~risk /\ RowWriter(c) /\ InFlight(c) => At(c, "mkdir")

\* What a call that saves has seen, as long as nobody else has saved since.
SeenOf(c) ==
    /\ Updates(c) /\ call[c].at \in Saving =>
         /\ DOMAIN call[c].fields \subseteq DOMAIN call[c].entity
         /\ \A k \in DOMAIN call[c].fields : call[c].entity[k] = call[c].fields[k]
    /\ Updates(c) /\ call[c].at \in Saving /\ ~stale[c] /\ row # None =>
         /\ ~At(c, "insert")
         /\ call[c].entity = Assign(row, call[c].fields)
         /\ At(c, "update") => call[c].cols = {k \in Column : call[c].entity[k] # row[k]}
    /\ ~Updates(c) =>
         /\ call[c].fields = Nothing
         /\ call[c].at \in Saving => DOMAIN call[c].entity \subseteq {"captionType"}
         /\ call[c].at \in {"mkdir", "write", "find"} => call[c].entity = Nothing
         /\ call[c].at \in {"readdir", "sample"} /\ op[c] \in Unpacker => call[c].isNew
         /\ call[c].at \in Saving /\ ~call[c].isNew => call[c].entity = Nothing
    /\ call[c].isNew /\ ~stale[c] => want = Nothing

CallInv(c) ==
    /\ StagesOf(c) /\ TodoOf(c) /\ FieldsOf(c) /\ HoldOf(c)
    /\ ReachOf(c) /\ DirOf(c) /\ SeenOf(c)

\* A caption shows the token only where it has it; one that no call but skipping
\* ones has prefixed has it at most once, and then shows it.
TextInv == \A s \in Stem : text[s] # None =>
    /\ text[s].opens => text[s].lead > 0
    /\ s \notin marked => text[s].lead = 0 \/ (text[s].lead = 1 /\ text[s].opens)

RowInv ==
    /\ RowHasDirectory
    /\ AcknowledgedKept
    /\ ~dir => want = Nothing

DatasetInv ==
    /\ DatasetTypeOK
    /\ before \in [Call -> [Stem -> Caption \cup {None}]]
    /\ TextInv /\ RowInv
    /\ \A c \in Call : CallInv(c)

\* The stages of a session belong to its requests, and a completion keeps the
\* chunks it found until another one removes them.
Completing == {"assembling", "extract", "opening", "unpacking", "cleaning", "removing"}
Removing == \E c \in Call : Standing(c, "removing")

SessionInv ==
    /\ UploadTypeOK
    /\ \A c \in Call :
         /\ Standing(c, "storing") => op[c] = "chunk" /\ part[c].next \in Chunk
         /\ part[c].at \in Completing => op[c] = "complete"
         /\ Standing(c, "assembling") /\ session /\ ~raced /\ ~Removing => had[c] \subseteq chunks
    /\ SessionGone

UploadInv == DatasetInv /\ SessionInv

-----------------------------------------------------------------------------
(* What a call knows stays true while nothing that it is about changes *)

LEMMA OwnStays ==
    ASSUME NEW d \in Call, call'[d] = call[d], op' = op, CallInv(d)
    PROVE  StagesOf(d)' /\ TodoOf(d)' /\ FieldsOf(d)'
<1>1. StagesOf(d)'
  BY DEF CallInv, StagesOf, At, Prepends
<1>2. TodoOf(d)'
  BY DEF CallInv, TodoOf, At, Prepends
<1>3. FieldsOf(d)'
  BY DEF CallInv, FieldsOf, At
<1> QED
  BY <1>1, <1>2, <1>3

LEMMA HoldStays ==
    ASSUME NEW d \in Call, call'[d] = call[d], marked \subseteq marked', CallInv(d)
    PROVE  HoldOf(d)'
BY DEF CallInv, HoldOf, At

LEMMA ReachStays ==
    ASSUME NEW d \in Call, call'[d] = call[d], text' = text, images' = images,
           before'[d] = before[d], touched'[d] = touched[d], CallInv(d)
    PROVE  ReachOf(d)'
<1>1. CASE ~Prepends(d)
  BY <1>1 DEF ReachOf, Prepends
<1>2. CASE Prepends(d)
  BY <1>2 DEF CallInv, ReachOf, At
<1> QED
  BY <1>1, <1>2

LEMMA DirStays ==
    ASSUME NEW d \in Call, call'[d] = call[d], UNCHANGED <<op, dir, risk>>, CallInv(d)
    PROVE  DirOf(d)'
BY DEF CallInv, DirOf, At, RowWriter, Updates, InFlight

LEMMA SeenStays ==
    ASSUME NEW d \in Call, call'[d] = call[d], UNCHANGED <<op, row, want>>,
           stale'[d] = stale[d], CallInv(d)
    PROVE  SeenOf(d)'
<1>1. SeenOf(d)
  BY DEF CallInv
<1>2. (Updates(d)' <=> Updates(d)) /\ \A stage : At(d, stage)' <=> At(d, stage)
  BY DEF Updates, At
<1> QED
  BY <1>1, <1>2 DEF SeenOf, At

-----------------------------------------------------------------------------
(* Metadata *)

\* The values of a column are values of the type of entities.
LEMMA ValuesTyped ==
    \A k \in Column : Value(k) \subseteq CaptionType \cup Call \cup {None}
BY DEF Value, Column

\* Any function on some columns, with values of theirs, may be an entity.
LEMMA FieldsAre ==
    ASSUME NEW K \in SUBSET Column, NEW p, p = [k \in K |-> p[k]],
           \A k \in K : p[k] \in Value(k)
    PROVE  p \in Fields /\ DOMAIN p = K
<1>1. p \in [K -> CaptionType \cup Call \cup {None}]
  BY ValuesTyped
<1>2. p \in Partial
  BY <1>1 DEF Partial
<1> QED
  BY <1>1, <1>2 DEF Fields

\* The other way round.
LEMMA FieldsHave ==
    ASSUME NEW p \in Fields
    PROVE  /\ DOMAIN p \subseteq Column
           /\ p = [k \in DOMAIN p |-> p[k]]
           /\ \A k \in DOMAIN p : p[k] \in Value(k)
BY DEF Fields, Partial

\* An entity without values.
LEMMA NothingIs == Nothing \in Fields /\ DOMAIN Nothing = {}
<1>1. DOMAIN Nothing = {} /\ Nothing = [k \in {} |-> Nothing[k]]
  BY DEF Nothing
<1> QED
  BY <1>1, FieldsAre

\* Two entities without columns are one.
LEMMA NothingOnly == ASSUME NEW p \in Fields, DOMAIN p = {} PROVE p = Nothing
BY FieldsHave, NothingIs DEF Nothing

\* Object.assign() of two entities.
LEMMA AssignFields ==
    ASSUME NEW a \in Fields, NEW b \in Fields
    PROVE  /\ Assign(a, b) \in Fields
           /\ DOMAIN Assign(a, b) = DOMAIN a \cup DOMAIN b
           /\ \A k \in DOMAIN a \cup DOMAIN b :
                 Assign(a, b)[k] = IF k \in DOMAIN b THEN b[k] ELSE a[k]
<1> DEFINE K == DOMAIN a \cup DOMAIN b
           p == Assign(a, b)
<1>1. p = [k \in K |-> IF k \in DOMAIN b THEN b[k] ELSE a[k]]
  BY DEF Assign
<1>2. p = [k \in K |-> p[k]] /\ DOMAIN p = K
  BY <1>1
<1>3. K \in SUBSET Column /\ \A k \in K : p[k] \in Value(k)
  BY <1>1, FieldsHave
<1>4. p \in Fields
  BY <1>2, <1>3, FieldsAre
<1> QED
  BY <1>1, <1>4

\* A row has every column.
LEMMA MetaIs == ASSUME NEW p PROVE p \in Meta <=> p \in Fields /\ DOMAIN p = Column
<1>1. ASSUME p \in Meta PROVE p \in Fields /\ DOMAIN p = Column
  <2>1. PICK t \in CaptionType, d \in Call \cup {None} : p = Columns(t, d)
    BY <1>1 DEF Meta
  <2>2. p = [k \in Column |-> p[k]] /\ \A k \in Column : p[k] \in Value(k)
    BY <2>1 DEF Columns, Column, Value
  <2> QED
    BY <2>2, FieldsAre
<1>2. ASSUME p \in Fields, DOMAIN p = Column PROVE p \in Meta
  <2>1. p["captionType"] \in CaptionType /\ p["description"] \in Call \cup {None}
    BY <1>2, FieldsHave DEF Column, Value
  <2>2. p = [k \in Column |-> p[k]]
    BY <1>2, FieldsHave
  <2>3. p = Columns(p["captionType"], p["description"])
    BY <2>2 DEF Columns, Column
  <2> QED
    BY <2>1, <2>3 DEF Meta
<1> QED
  BY <1>1, <1>2

\* A request that has not begun holds nothing.
LEMMA FreshTyped == Fresh \in CallRecord
BY NothingIs DEF Fresh, CallRecord, Stage, Ended, Fields

LEMMA UnsentTyped == Unsent \in Part
BY ChunksAssumption DEF Unsent, Part

-----------------------------------------------------------------------------
(* The first state *)

LEMMA InitInv == UploadInit => UploadInv
<1> SUFFICES ASSUME UploadInit PROVE UploadInv
  OBVIOUS
<1> USE DEF UploadInit, DatasetInit
<1>1. DatasetTypeOK
  <2>1. row \in Meta \cup {None}
    BY DEF Meta, CaptionType
  <2>2. text \in [Stem -> Caption \cup {None}]
    BY DEF Written, Caption, Body
  <2>3. want \in Partial
    BY NothingIs DEF Fields
  <2>4. call \in [Call -> CallRecord] /\ \A c \in Call : call[c].tags <= call[c].sampled
    BY FreshTyped DEF Fresh
  <2> QED
    BY <2>1, <2>2, <2>3, <2>4 DEF DatasetTypeOK
<1>2. before \in [Call -> [Stem -> Caption \cup {None}]]
  OBVIOUS
<1>3. TextInv
  BY DEF TextInv, Written
<1>4. RowInv
  BY NothingIs DEF RowInv, RowHasDirectory, AcknowledgedKept
<1>5. ASSUME NEW c \in Call PROVE CallInv(c)
  <2>1. call[c] = Fresh
    OBVIOUS
  <2>2. At(c, "idle") /\ ~call[c].isNew /\ call[c].fields = Nothing /\ call[c].entity = Nothing
    BY <2>1 DEF Fresh, At
  <2> QED
    BY <2>2, NothingIs DEF CallInv, StagesOf, TodoOf, FieldsOf, HoldOf, ReachOf, DirOf, SeenOf,
       At, Saving, OneImage, Prepends, InFlight
<1>6. SessionInv
  <2>1. chunks \subseteq Chunk /\ (session = TRUE)
    OBVIOUS
  <2>2. part = [c \in Call |-> Unsent] /\ had \in [Call -> SUBSET Chunk]
    OBVIOUS
  <2>3. Unsent \in Part
    BY UnsentTyped
  <2>4. UploadTypeOK
    BY <1>1, <2>1, <2>2, <2>3 DEF UploadTypeOK
  <2> QED
    BY <2>4 DEF SessionInv, SessionGone, Unsent, Standing, Completing
<1> QED
  BY <1>1, <1>2, <1>3, <1>4, <1>5, <1>6 DEF UploadInv, DatasetInv

-----------------------------------------------------------------------------
(* Steps that change nothing but where a call stands and what it remembers *)

\* The others keep what they know, if the call that moves knows what it should.
LEMMA OwnInv ==
    ASSUME DatasetInv, NEW c \in Call, NEW r \in CallRecord, r.tags <= r.sampled,
           Becomes(c, r), UNCHANGED <<disk, row, op, crashed, marked, want, risk>>,
           before' \in [Call -> [Stem -> Caption \cup {None}]],
           touched' \in [Call -> SUBSET Stem], stale' \in [Call -> BOOLEAN],
           \A d \in Call \ {c} :
              before'[d] = before[d] /\ touched'[d] = touched[d] /\ stale'[d] = stale[d],
           ~At(c, "delete"), CallInv(c)'
    PROVE  DatasetInv'
<1> USE DEF Becomes, DatasetInv, disk
<1>1. call' \in [Call -> CallRecord] /\ call'[c] = r
        /\ \A d \in Call \ {c} : call'[d] = call[d]
  BY DEF DatasetTypeOK
<1>2. DatasetTypeOK'
  BY <1>1 DEF DatasetTypeOK
<1>3. TextInv'
  BY DEF TextInv
<1>4. RowInv'
  <2>1. \A d \in Call : At(d, "delete") => At(d, "delete")'
    BY <1>1 DEF At
  <2> QED
    BY <2>1 DEF RowInv, RowHasDirectory, AcknowledgedKept
<1>5. ASSUME NEW d \in Call \ {c} PROVE CallInv(d)'
  <2>1. CallInv(d) /\ call'[d] = call[d]
    BY <1>1
  <2>2. StagesOf(d)' /\ TodoOf(d)' /\ FieldsOf(d)' /\ HoldOf(d)'
    BY <2>1, OwnStays, HoldStays
  <2>3. ReachOf(d)'
    BY <2>1, ReachStays
  <2>4. DirOf(d)' /\ SeenOf(d)'
    BY <2>1, DirStays, SeenStays
  <2> QED
    BY <2>2, <2>3, <2>4 DEF CallInv
<1> QED
  BY <1>2, <1>3, <1>4, <1>5

LEMMA QuietInv ==
    ASSUME DatasetInv, NEW c \in Call, NEW r \in CallRecord, r.tags <= r.sampled,
           Becomes(c, r), UNCHANGED <<disk, row, op, crashed, history>>,
           ~At(c, "delete"), CallInv(c)'
    PROVE  DatasetInv'
BY OwnInv DEF history, DatasetInv, DatasetTypeOK

\* A call that is over knows nothing.
LEMMA OverKnows ==
    ASSUME NEW c \in Call, NEW e \in Ended \cup {"idle"}, call'[c] = [Fresh EXCEPT !.at = e]
    PROVE  CallInv(c)'
<1>1. /\ call'[c].at \in Ended \cup {"idle"} /\ ~call'[c].isNew
      /\ call'[c].fields = Nothing /\ call'[c].entity = Nothing
  BY DEF Fresh
<1> QED
  BY <1>1, NothingIs DEF CallInv, StagesOf, TodoOf, FieldsOf, HoldOf, ReachOf, DirOf, SeenOf,
     At, Saving, OneImage, Prepends, InFlight, Ended

LEMMA OverTyped ==
    ASSUME NEW e \in Ended \cup {"idle"}
    PROVE  [Fresh EXCEPT !.at = e] \in CallRecord /\ [Fresh EXCEPT !.at = e].tags = 0
             /\ [Fresh EXCEPT !.at = e].sampled = 0
<1>1. e \in Stage
  BY DEF Ended, Stage
<1>2. [Fresh EXCEPT !.at = e] \in CallRecord
  BY <1>1, FreshTyped DEF CallRecord
<1> QED
  BY <1>2 DEF Fresh

\* A request is answered and has left nothing but its answer.
LEMMA AnswerInv ==
    ASSUME DatasetInv, NEW c \in Call, NEW result \in Ended, Answers(c, result),
           UNCHANGED <<disk, row, op, crashed, history>>, ~At(c, "delete")
    PROVE  DatasetInv'
<1> DEFINE r == [Fresh EXCEPT !.at = result]
<1>1. r \in CallRecord /\ r.tags <= r.sampled
  BY OverTyped
<1>2. Becomes(c, r) /\ call'[c] = r
  BY DEF Answers, Becomes, DatasetInv, DatasetTypeOK
<1>3. CallInv(c)'
  BY <1>2, OverKnows
<1> QED
  BY <1>1, <1>2, <1>3, QuietInv

\* The files of an upload are there.
LEMMA FilesWrittenInv ==
    ASSUME DatasetInv, NEW c \in Call, FilesWritten(c)
    PROVE  DatasetInv'
<1> USE DEF FilesWritten, Goes, At
<1> DEFINE r == [call[c] EXCEPT !.at = IF call[c].isNew THEN "readdir" ELSE "find"]
<1>1. call[c] \in CallRecord /\ call[c].tags <= call[c].sampled /\ CallInv(c)
  BY DEF DatasetInv, DatasetTypeOK
<1>2. r \in CallRecord /\ r.tags <= r.sampled
  BY <1>1 DEF CallRecord, Stage
<1>3. Becomes(c, r) /\ call'[c] = r
  BY DEF Becomes, DatasetInv, DatasetTypeOK
<1>4. CallInv(c)'
  BY <1>1, <1>3 DEF CallInv, StagesOf, TodoOf, FieldsOf, HoldOf, ReachOf, DirOf, SeenOf,
     At, Saving, OneImage, Prepends, InFlight, Updates, RowWriter, disk, history, CallRecord, Unpacker, Ended
<1> QED
  BY <1>2, <1>3, <1>4, QuietInv

\* detectCaptionType goes on to the metadata.
LEMMA AssertAgainInv ==
    ASSUME DatasetInv, NEW c \in Call, AssertAgain(c)
    PROVE  DatasetInv'
<1> USE DEF AssertAgain, Goes, At
<1> DEFINE r == [call[c] EXCEPT !.at = "find"]
<1>1. call[c] \in CallRecord /\ call[c].tags <= call[c].sampled /\ CallInv(c)
  BY DEF DatasetInv, DatasetTypeOK
<1>2. r \in CallRecord /\ r.tags <= r.sampled
  BY <1>1 DEF CallRecord, Stage
<1>3. Becomes(c, r) /\ call'[c] = r
  BY DEF Becomes, DatasetInv, DatasetTypeOK
<1>4. CallInv(c)'
  BY <1>1, <1>3 DEF CallInv, StagesOf, TodoOf, FieldsOf, HoldOf, ReachOf, DirOf, SeenOf,
     At, Saving, OneImage, Prepends, InFlight, Updates, RowWriter, disk, history, CallRecord, Unpacker, Ended
<1> QED
  BY <1>2, <1>3, <1>4, QuietInv

\* A caption of the sample is read.
LEMMA SampleCaptionInv ==
    ASSUME DatasetInv, NEW c \in Call, NEW s \in Stem, SampleCaption(c, s)
    PROVE  DatasetInv'
<1> USE DEF SampleCaption, At
<1> DEFINE n == IF text[s] # None /\ text[s].body = "tags" THEN 1 ELSE 0
           r == [call[c] EXCEPT !.todo = @ \ {s}, !.tags = @ + n]
<1>1. call[c] \in CallRecord /\ call[c].tags <= call[c].sampled /\ CallInv(c)
  BY DEF DatasetInv, DatasetTypeOK
<1>2. /\ call[c].todo \subseteq Stem
      /\ call[c].tags + Cardinality(call[c].todo) <= call[c].sampled
  BY <1>1 DEF CallInv, TodoOf
<1>3. /\ IsFiniteSet(call[c].todo) /\ Cardinality(call[c].todo) \in Nat
      /\ Cardinality(call[c].todo \ {s}) = Cardinality(call[c].todo) - 1
  BY <1>2, FileAssumption, FS_Subset, FS_RemoveElement, FS_CardinalityType
<1>4. call[c].tags \in Nat /\ call[c].sampled \in Nat /\ call[c].todo # {}
  BY <1>1 DEF CallRecord
<1>5. Cardinality(call[c].todo) >= 1
  BY <1>3, <1>4, FS_EmptySet
<1>6. r \in CallRecord
  <2>1. call[c].tags + n \in Nat /\ call[c].todo \ {s} \in SUBSET (Image \cup Stem)
    BY <1>2, <1>4
  <2> QED
    BY <1>1, <2>1 DEF CallRecord
<1>7. r.tags <= r.sampled /\ r.tags + Cardinality(r.todo) <= r.sampled
  BY <1>1, <1>2, <1>3, <1>4, <1>5 DEF CallRecord
<1>8. Becomes(c, r) /\ call'[c] = r
  BY DEF Becomes, DatasetInv, DatasetTypeOK
<1>9. TodoOf(c)'
  BY <1>2, <1>7, <1>8 DEF TodoOf, OneImage, Prepends, CallRecord
<1>10. CallInv(c)'
  BY <1>1, <1>8, <1>9 DEF CallInv, StagesOf, FieldsOf, HoldOf, ReachOf, DirOf, SeenOf,
     At, Saving, OneImage, Prepends, InFlight, Updates, RowWriter, disk, history, CallRecord
<1> QED
  BY <1>6, <1>7, <1>8, <1>10, QuietInv

\* The sample is over: the type it gives is saved, or handed to updateMeta().
LEMMA SampleDoneInv ==
    ASSUME DatasetInv, NEW c \in Call, SampleDone(c)
    PROVE  DatasetInv'
<1> USE DEF SampleDone, At
<1> DEFINE t == DetectedType(call[c].tags, call[c].sampled)
           type == [k \in {"captionType"} |-> t]
           r == IF op[c] = "detect" THEN [call[c] EXCEPT !.at = "assert", !.fields = type]
                ELSE [call[c] EXCEPT !.at = "select", !.entity = type]
<1>1. call[c] \in CallRecord /\ call[c].tags <= call[c].sampled /\ CallInv(c)
  BY DEF DatasetInv, DatasetTypeOK
<1>2. t \in CaptionType
  BY DEF DetectedType, CaptionType
<1>3. type \in Fields /\ DOMAIN type = {"captionType"}
  <2>1. type = [k \in {"captionType"} |-> type[k]] /\ type["captionType"] = t
    OBVIOUS
  <2>2. {"captionType"} \in SUBSET Column /\ \A k \in {"captionType"} : type[k] \in Value(k)
    BY <1>2, <2>1 DEF Column, Value
  <2> QED
    BY <2>1, <2>2, FieldsAre
<1> HIDE DEF type
<1>4. type \in Partial
  BY <1>3 DEF Fields
<1>5. r \in CallRecord /\ r.tags <= r.sampled
  BY <1>1, <1>4 DEF CallRecord, Stage
<1>6. Becomes(c, r) /\ call'[c] = r
  BY DEF Becomes, DatasetInv, DatasetTypeOK, type
<1>7. ASSUME op[c] = "detect" PROVE CallInv(c)'
  <2>1. r = [call[c] EXCEPT !.at = "assert", !.fields = type] /\ ~(op[c] \in Unpacker)
          /\ Updates(c)
    BY <1>7 DEF Unpacker, Updates
  <2>2. /\ call'[c].at = "assert" /\ call'[c].fields = type
        /\ call'[c].entity = call[c].entity /\ call'[c].isNew = call[c].isNew
    <3>1. call'[c] = [call[c] EXCEPT !.at = "assert", !.fields = type]
      BY <1>6, <2>1
    <3> QED
      BY ONLY <1>1, <3>1 DEF CallRecord
  <2> QED
    BY <1>1, <1>3, <1>7, <2>1, <2>2 DEF CallInv, StagesOf, TodoOf, FieldsOf, HoldOf, ReachOf,
       DirOf, SeenOf, At, Saving, OneImage, Prepends, InFlight, Updates, RowWriter, disk, history,
       Ended
<1>8. ASSUME op[c] # "detect" PROVE CallInv(c)'
  <2>1. r = [call[c] EXCEPT !.at = "select", !.entity = type]
    BY <1>8
  <2>2. /\ call'[c].at = "select" /\ call'[c].fields = call[c].fields
        /\ call'[c].entity = type /\ call'[c].isNew = call[c].isNew
    <3>1. call'[c] = [call[c] EXCEPT !.at = "select", !.entity = type]
      BY <1>6, <2>1
    <3> QED
      BY ONLY <1>1, <3>1 DEF CallRecord
  <2>3. op[c] \in Unpacker /\ ~Updates(c) /\ call[c].isNew
    BY <1>1, <1>8 DEF CallInv, StagesOf, SeenOf, Updates, Unpacker, Saving
  <2> QED
    BY <1>1, <1>3, <2>2, <2>3 DEF CallInv, StagesOf, TodoOf, FieldsOf, HoldOf, ReachOf,
       DirOf, SeenOf, At, Saving, OneImage, Prepends, InFlight, Updates, RowWriter, disk, history,
       Ended
<1> QED
  BY <1>5, <1>6, <1>7, <1>8, QuietInv

\* The row is looked up.
LEMMA FindRowInv ==
    ASSUME DatasetInv, NEW c \in Call, FindRow(c)
    PROVE  DatasetInv'
<1> USE DEF FindRow, At
<1>1. call[c] \in CallRecord /\ call[c].tags <= call[c].sampled /\ CallInv(c)
  BY DEF DatasetInv, DatasetTypeOK
<1>2. CASE ~Updates(c) /\ row # None
  BY <1>2, AnswerInv DEF Ended
<1>3. CASE ~Updates(c) /\ row = None
  <2> DEFINE r == [call[c] EXCEPT !.at = "select"]
  <2>1. r \in CallRecord /\ r.tags <= r.sampled
    BY <1>1 DEF CallRecord, Stage
  <2>2. Becomes(c, r) /\ call'[c] = r
    BY <1>3 DEF Becomes, Goes, DatasetInv, DatasetTypeOK
  <2>3. CallInv(c)'
    BY <1>1, <1>3, <2>2, NothingIs DEF CallInv, StagesOf, TodoOf, FieldsOf, HoldOf, ReachOf,
       DirOf, SeenOf, At, Saving, OneImage, Prepends, InFlight, Updates, RowWriter, disk, history,
       CallRecord, Unpacker, Ended
  <2> QED
    BY <2>1, <2>2, <2>3, QuietInv
<1>4. CASE Updates(c)
  <2> DEFINE e == IF row = None THEN call[c].fields ELSE Assign(row, call[c].fields)
             r == [call[c] EXCEPT !.at = "select", !.entity = e]
  <2>1. call[c].fields \in Fields /\ (row # None => row \in Fields)
    BY <1>1, MetaIs DEF CallInv, FieldsOf, DatasetInv, DatasetTypeOK
  <2>2. /\ e \in Fields /\ DOMAIN call[c].fields \subseteq DOMAIN e
        /\ \A k \in DOMAIN call[c].fields : e[k] = call[c].fields[k]
        /\ row # None => e = Assign(row, call[c].fields)
    <3>1. CASE row = None
      BY <2>1, <3>1
    <3>2. CASE row # None
      <4> DEFINE a == Assign(row, call[c].fields)
      <4>1. e = a /\ row \in Fields
        BY <2>1, <3>2
      <4> DEFINE f == call[c].fields
      <4> HIDE DEF f
      <4>2. /\ Assign(row, f) \in Fields
            /\ DOMAIN Assign(row, f) = DOMAIN row \cup DOMAIN f
            /\ \A k \in DOMAIN row \cup DOMAIN f :
                 Assign(row, f)[k] = IF k \in DOMAIN f THEN f[k] ELSE row[k]
        <5>1. f \in Fields
          BY <2>1 DEF f
        <5> QED
          BY <5>1, <4>1, AssignFields
      <4>3. /\ a \in Fields /\ DOMAIN call[c].fields \subseteq DOMAIN a
            /\ \A k \in DOMAIN call[c].fields : a[k] = call[c].fields[k]
        BY <4>2 DEF f
      <4> QED
        BY <4>1, <4>3
    <3> QED
      BY <3>1, <3>2
  <2>3. Becomes(c, r) /\ call'[c] = r
    BY <1>4 DEF Becomes, DatasetInv, DatasetTypeOK
  <2> HIDE DEF e
  <2>4. r \in CallRecord /\ r.tags <= r.sampled
    BY <1>1, <2>2 DEF CallRecord, Stage, Fields
  <2>5. CallInv(c)'
    BY <1>1, <1>4, <2>2, <2>3 DEF CallInv, StagesOf, TodoOf, FieldsOf, HoldOf, ReachOf,
       DirOf, SeenOf, At, Saving, OneImage, Prepends, InFlight, Updates, RowWriter, disk, history,
       CallRecord, Unpacker, Ended
  <2> QED
    BY <2>3, <2>4, <2>5, QuietInv
<1> QED
  BY <1>2, <1>3, <1>4

\* save() looks at the row again.
LEMMA SelectRowInv ==
    ASSUME DatasetInv, NEW c \in Call, SelectRow(c)
    PROVE  DatasetInv'
<1> USE DEF SelectRow, At
<1>1. call[c] \in CallRecord /\ call[c].tags <= call[c].sampled /\ CallInv(c)
  BY DEF DatasetInv, DatasetTypeOK
<1>2. CASE row = None
  <2> DEFINE r == [call[c] EXCEPT !.at = "insert"]
  <2>1. r \in CallRecord /\ r.tags <= r.sampled
    BY <1>1 DEF CallRecord, Stage
  <2>2. Becomes(c, r) /\ call'[c] = r
    BY <1>2 DEF Becomes, DatasetInv, DatasetTypeOK
  <2>3. CallInv(c)'
    BY <1>1, <1>2, <2>2 DEF CallInv, StagesOf, TodoOf, FieldsOf, HoldOf, ReachOf,
       DirOf, SeenOf, At, Saving, OneImage, Prepends, InFlight, Updates, RowWriter, disk, history,
       CallRecord, Unpacker, Ended
  <2> QED
    BY <2>1, <2>2, <2>3, QuietInv
<1>3. CASE row # None
  <2> DEFINE x == {k \in DOMAIN call[c].entity : call[c].entity[k] # row[k]}
             r == [call[c] EXCEPT !.at = "update", !.cols = x]
  <2>1. call[c].fields \in Fields /\ call[c].entity \in Fields /\ row \in Fields
          /\ DOMAIN row = Column
    BY <1>1, <1>3, MetaIs DEF CallInv, FieldsOf, DatasetInv, DatasetTypeOK
  <2>2. x \subseteq DOMAIN call[c].entity /\ x \subseteq Column
    BY <2>1, FieldsHave
  <2>3. call[c].entity = Assign(row, call[c].fields) =>
          x = {k \in Column : call[c].entity[k] # row[k]}
    <3>1. DOMAIN Assign(row, call[c].fields) = Column \cup DOMAIN call[c].fields
      BY <2>1, AssignFields
    <3>2. DOMAIN call[c].fields \subseteq Column
      BY <2>1, FieldsHave
    <3> QED
      BY <3>1, <3>2
  <2>4. Becomes(c, r) /\ call'[c] = r
    BY <1>3 DEF Becomes, DatasetInv, DatasetTypeOK
  <2> HIDE DEF x
  <2>5. r \in CallRecord /\ r.tags <= r.sampled
    BY <1>1, <2>2 DEF CallRecord, Stage
  <2>6. CallInv(c)'
    BY <1>1, <1>3, <2>2, <2>3, <2>4 DEF CallInv, StagesOf, TodoOf, FieldsOf, HoldOf, ReachOf,
       DirOf, SeenOf, At, Saving, OneImage, Prepends, InFlight, Updates, RowWriter, disk, history,
       CallRecord, Unpacker, Ended
  <2> QED
    BY <2>4, <2>5, <2>6, QuietInv
<1> QED
  BY <1>2, <1>3

\* fs.access of an image.
LEMMA AccessImageInv ==
    ASSUME DatasetInv, NEW c \in Call, AccessImage(c)
    PROVE  DatasetInv'
<1> USE DEF AccessImage, At
<1>1. call[c] \in CallRecord /\ call[c].tags <= call[c].sampled /\ CallInv(c)
  BY DEF DatasetInv, DatasetTypeOK
<1>2. CASE Target(c) \notin images
  BY <1>2, AnswerInv DEF Ended
<1>3. CASE Target(c) \in images
  <2> DEFINE next == IF op[c] = "caption" THEN "put" ELSE "unlink"
             r == [call[c] EXCEPT !.at = next]
  <2>1. Becomes(c, r) /\ call'[c] = r
    BY <1>3 DEF Goes, Becomes, DatasetInv, DatasetTypeOK
  <2>2. next \in {"put", "unlink"}
    OBVIOUS
  <2> HIDE DEF next
  <2>3. r \in CallRecord /\ r.tags <= r.sampled
    BY <1>1, <2>2 DEF CallRecord, Stage
  <2>4. CallInv(c)'
    BY <1>1, <2>1, <2>2 DEF CallInv, StagesOf, TodoOf, FieldsOf, HoldOf, ReachOf,
       DirOf, SeenOf, At, Saving, OneImage, Prepends, InFlight, Updates, RowWriter, disk, history,
       CallRecord, Unpacker, Ended
  <2> QED
    BY <2>1, <2>3, <2>4, QuietInv
<1> QED
  BY <1>2, <1>3

\* The caption of the next image is missing, skipped or held.
LEMMA ReadCaptionInv ==
    ASSUME DatasetInv, NEW c \in Call, NEW i \in Image, ReadCaption(c, i)
    PROVE  DatasetInv'
<1> USE DEF ReadCaption, At
<1> DEFINE s == StemOf[i]
           x == text[s]
           q == [call[c] EXCEPT !.todo = @ \ {i}]
<1>1. call[c] \in CallRecord /\ call[c].tags <= call[c].sampled /\ CallInv(c)
  BY DEF DatasetInv, DatasetTypeOK
<1>2. s \in Stem /\ x \in Caption \cup {None}
  BY StemAssumption DEF DatasetInv, DatasetTypeOK
<1>3. q \in CallRecord /\ q.tags <= q.sampled
  BY <1>1 DEF CallRecord
<1>4. CASE x = None \/ (call[c].skip /\ x.opens)
  <2>1. Becomes(c, q) /\ call'[c] = q
    BY <1>4 DEF Becomes, DatasetInv, DatasetTypeOK
  <2>2. x # None => x.lead > 0
    BY <1>2, <1>4 DEF DatasetInv, TextInv
  <2>3. ReachOf(c)'
    BY <1>1, <2>1, <2>2 DEF CallInv, ReachOf, Prepends, disk, history, CallRecord
  <2>4. CallInv(c)'
    BY <1>1, <2>1, <2>3 DEF CallInv, StagesOf, TodoOf, FieldsOf, HoldOf,
       DirOf, SeenOf, At, Saving, OneImage, Prepends, InFlight, Updates, RowWriter, disk, history,
       CallRecord, Unpacker, Ended
  <2> QED
    BY <1>3, <2>1, <2>4, QuietInv
<1>5. CASE x # None /\ ~(call[c].skip /\ x.opens)
  <2> DEFINE h == [stem |-> s, caption |-> x]
             r == [q EXCEPT !.at = "rewrite", !.held = h]
  <2>1. Becomes(c, r) /\ call'[c] = r
    BY <1>5 DEF Becomes, DatasetInv, DatasetTypeOK
  <2>2. h \in [stem : Stem, caption : Caption]
    BY <1>2, <1>5
  <2>3. r \in CallRecord /\ r.tags <= r.sampled
    BY <1>1, <2>2 DEF CallRecord, Stage
  <2>4. HoldOf(c)'
    <3>1. call[c].skip => x.lead = 0 \/ s \in marked
      BY <1>2, <1>5 DEF DatasetInv, TextInv
    <3> QED
      BY <1>1, <2>1, <3>1 DEF HoldOf, CallRecord, history
  <2>5. ReachOf(c)'
    <3>1. s \notin touched[c] => x.body = before[c][s].body
      BY <1>1, <1>2, <1>5 DEF CallInv, ReachOf, Prepends
    <3> QED
      BY <1>1, <1>5, <2>1, <3>1 DEF CallInv, ReachOf, Prepends, disk, history, CallRecord
  <2>6. TodoOf(c)'
    <3> HIDE DEF h
    <3> QED
      BY <1>1, <2>1, <2>2 DEF CallInv, TodoOf, CallRecord, OneImage, Prepends
  <2>7. CallInv(c)'
    BY <1>1, <2>1, <2>4, <2>5, <2>6 DEF CallInv, StagesOf, FieldsOf,
       DirOf, SeenOf, At, Saving, OneImage, Prepends, InFlight, Updates, RowWriter, disk, history,
       CallRecord, Unpacker, Ended
  <2> QED
    BY <2>1, <2>3, <2>7, QuietInv
<1> QED
  BY <1>4, <1>5

\* The directory is listed, for the captions of a sample or the images of a
\* prepend.
LEMMA ListDirInv ==
    ASSUME DatasetInv, NEW c \in Call, ListDir(c)
    PROVE  DatasetInv'
<1> USE DEF ListDir, At
<1> DEFINE captions == {s \in Stem : text[s] # None}
<1>1. call[c] \in CallRecord /\ call[c].tags <= call[c].sampled /\ CallInv(c)
  BY DEF DatasetInv, DatasetTypeOK
<1>2. CASE op[c] = "prepend"
  <2> DEFINE r == [call[c] EXCEPT !.at = "read", !.todo = images]
  <2>1. r \in CallRecord /\ r.tags <= r.sampled /\ images \subseteq Image
    BY <1>1 DEF CallRecord, Stage, DatasetInv, DatasetTypeOK
  <2>2. Becomes(c, r) /\ call'[c] = r
    BY <1>2 DEF Becomes, DatasetInv, DatasetTypeOK
  <2>3. /\ before'[c] = text /\ touched'[c] = {}
        /\ before' \in [Call -> [Stem -> Caption \cup {None}]]
        /\ touched' \in [Call -> SUBSET Stem] /\ stale' \in [Call -> BOOLEAN]
        /\ \A d \in Call \ {c} :
             before'[d] = before[d] /\ touched'[d] = touched[d] /\ stale'[d] = stale[d]
    BY <1>2 DEF DatasetInv, DatasetTypeOK
  <2>4. CallInv(c)'
    <3>1. ReachOf(c)'
      BY <1>1, <2>2, <2>3 DEF CallInv, ReachOf, Prepends, disk, CallRecord
    <3> QED
      BY <1>1, <1>2, <2>1, <2>2, <3>1 DEF CallInv, StagesOf, TodoOf, FieldsOf, HoldOf,
         DirOf, SeenOf, At, Saving, OneImage, Prepends, InFlight, Updates, RowWriter, disk,
         CallRecord, Unpacker, Ended
  <2> QED
    BY <2>1, <2>2, <2>3, <2>4, OwnInv
<1>3. CASE op[c] # "prepend"
  <2> DEFINE r == [call[c] EXCEPT !.at = "sample", !.todo = captions,
                                  !.sampled = Cardinality(captions)]
  <2>1. IsFiniteSet(captions) /\ Cardinality(captions) \in Nat /\ captions \in SUBSET Stem
    BY FileAssumption, FS_Subset, FS_CardinalityType
  <2> HIDE DEF captions
  <2>2. Becomes(c, r) /\ call'[c] = r
    BY <1>3 DEF Becomes, DatasetInv, DatasetTypeOK, captions
  <2>3. call[c].tags = 0
    BY <1>1 DEF CallInv, TodoOf
  <2>4. r \in CallRecord /\ r.tags <= r.sampled
    <3>1. r \in CallRecord /\ r.tags = 0 /\ r.sampled = Cardinality(captions)
      BY <1>1, <2>1, <2>3 DEF CallRecord, Stage
    <3> QED
      BY <2>1, <3>1
  <2>5. CallInv(c)'
    <3>1. TodoOf(c)'
      BY <2>1, <2>2, <2>3, <1>1 DEF TodoOf, OneImage, Prepends, CallRecord
    <3> QED
      BY <1>1, <1>3, <2>2, <3>1 DEF CallInv, StagesOf, FieldsOf, HoldOf, ReachOf,
         DirOf, SeenOf, At, Saving, OneImage, Prepends, InFlight, Updates, RowWriter, disk,
         CallRecord, Unpacker, Ended
  <2>6. UNCHANGED <<disk, row, op, crashed, history>>
    BY <1>3 DEF history
  <2> QED
    BY <2>1, <2>2, <2>4, <2>5, <2>6, QuietInv
<1> QED
  BY <1>2, <1>3

\* An upload begins.
LEMMA UploadBeginsInv ==
    ASSUME DatasetInv, NEW c \in Call, NEW files \in Payloads, UploadBegins(c, files),
           op[c] \in Unpacker
    PROVE  DatasetInv'
<1> USE DEF UploadBegins, At
<1> DEFINE r == [Fresh EXCEPT !.at = "mkdir", !.isNew = ~dir, !.todo = files]
<1>1. r \in CallRecord /\ r.tags <= r.sampled
  <2>1. files \in SUBSET (Image \cup Stem)
    BY PayloadAssumption
  <2>2. r \in CallRecord
    BY <2>1, FreshTyped DEF CallRecord, Stage
  <2>3. r.tags = 0 /\ r.sampled = 0
    BY DEF Fresh
  <2> QED
    BY <2>2, <2>3
<1>2. Becomes(c, r) /\ call'[c] = r
  BY DEF Becomes, DatasetInv, DatasetTypeOK
<1>3. /\ stale'[c] = FALSE /\ stale' \in [Call -> BOOLEAN]
      /\ \A d \in Call \ {c} : stale'[d] = stale[d]
  BY DEF DatasetInv, DatasetTypeOK
<1>4. /\ call'[c].at = "mkdir" /\ call'[c].isNew = ~dir /\ call'[c].fields = Nothing
      /\ call'[c].entity = Nothing /\ call'[c].tags = 0
  BY <1>2 DEF Fresh
<1>5. ~dir => want = Nothing
  BY DEF DatasetInv, RowInv
<1>6. CallInv(c)'
  BY <1>3, <1>4, <1>5, NothingIs DEF CallInv, StagesOf, TodoOf, FieldsOf, HoldOf, ReachOf,
     DirOf, SeenOf, At, Saving, OneImage, Prepends, InFlight, Updates, RowWriter, disk, Unpacker
<1> QED
  BY <1>1, <1>2, <1>3, <1>6, OwnInv DEF DatasetInv, DatasetTypeOK

\* What a request carries.
LEMMA RequestTyped ==
    ASSUME NEW c \in Call, RequestBegins(c)
    PROVE  \E r \in CallRecord :
           /\ Begins(c, r) /\ op[c] \in DOMAIN FirstStage
           /\ r.tags = 0 /\ r.sampled = 0 /\ ~r.isNew
           /\ r.entity = Nothing /\ r.fields \in Fields
           /\ ~Updates(c) => r.fields = Nothing
           /\ op[c] \in {"caption", "uncaption", "unimage", "replace"} =>
                r.todo # {} /\ r.todo \subseteq Image
<1> USE FreshTyped, NothingIs
<1> DEFINE Goal == \E r \in CallRecord :
           /\ Begins(c, r) /\ op[c] \in DOMAIN FirstStage
           /\ r.tags = 0 /\ r.sampled = 0 /\ ~r.isNew
           /\ r.entity = Nothing /\ r.fields \in Fields
           /\ ~Updates(c) => r.fields = Nothing
           /\ op[c] \in {"caption", "uncaption", "unimage", "replace"} =>
                r.todo # {} /\ r.todo \subseteq Image
<1>1. ASSUME op[c] \in {"caption", "uncaption", "unimage", "replace"},
             NEW i \in Image, Begins(c, [Fresh EXCEPT !.todo = {i}])
      PROVE  Goal
  <2> DEFINE r == [Fresh EXCEPT !.todo = {i}]
  <2>1. r \in CallRecord /\ r.todo = {i}
    BY DEF CallRecord
  <2>2. /\ r.tags = 0 /\ r.sampled = 0 /\ ~r.isNew
        /\ r.entity = Nothing /\ r.fields = Nothing
    BY DEF Fresh
  <2> HIDE DEF r
  <2> QED
    BY <1>1, <2>1, <2>2 DEF FirstStage, r
<1>2. ASSUME op[c] = "prepend", NEW s \in BOOLEAN, NEW t \in BOOLEAN,
             Begins(c, [Fresh EXCEPT !.skip = s, !.style = t])
      PROVE  Goal
  <2> DEFINE r == [Fresh EXCEPT !.skip = s, !.style = t]
  <2>1. r \in CallRecord
    BY DEF CallRecord
  <2>2. /\ r.tags = 0 /\ r.sampled = 0 /\ ~r.isNew
        /\ r.entity = Nothing /\ r.fields = Nothing
    BY DEF Fresh
  <2> HIDE DEF r
  <2> QED
    BY <1>2, <2>1, <2>2 DEF FirstStage, r
<1>3. ASSUME op[c] = "meta", NEW f \in Fields, Begins(c, [Fresh EXCEPT !.fields = f])
      PROVE  Goal
  <2> DEFINE r == [Fresh EXCEPT !.fields = f]
  <2>1. r \in CallRecord /\ r.fields = f
    BY <1>3 DEF CallRecord, Fields
  <2>2. r.tags = 0 /\ r.sampled = 0 /\ ~r.isNew /\ r.entity = Nothing
    BY DEF Fresh
  <2> HIDE DEF r
  <2> QED
    BY <1>3, <2>1, <2>2 DEF FirstStage, Updates, r
<1>4. ASSUME op[c] \in {"remove", "detect"}, Begins(c, Fresh) PROVE Goal
  <2>1. Fresh.tags = 0 /\ Fresh.sampled = 0 /\ ~Fresh.isNew
          /\ Fresh.entity = Nothing /\ Fresh.fields = Nothing
    BY DEF Fresh
  <2> QED
    BY <1>4, <2>1 DEF FirstStage
<1>5. [k \in {"description"} |-> c] \in Fields /\ [k \in {"captionType"} |-> "mixed"] \in Fields
  <2> DEFINE d == [k \in {"description"} |-> c]
             t == [k \in {"captionType"} |-> "mixed"]
  <2>1. d = [k \in {"description"} |-> d[k]] /\ d["description"] = c
    OBVIOUS
  <2>2. t = [k \in {"captionType"} |-> t[k]] /\ t["captionType"] = "mixed"
    OBVIOUS
  <2> HIDE DEF d, t
  <2>3. \A k \in {"description"} : d[k] \in Value(k)
    BY <2>1 DEF Value
  <2>4. \A k \in {"captionType"} : t[k] \in Value(k)
    BY <2>2 DEF Value, CaptionType
  <2>5. {"description"} \in SUBSET Column /\ {"captionType"} \in SUBSET Column
    BY DEF Column
  <2>6. d \in Fields /\ t \in Fields
    BY <2>1, <2>2, <2>3, <2>4, <2>5, FieldsAre
  <2> QED
    BY <2>6 DEF d, t
<1> QED
  BY <1>1, <1>2, <1>3, <1>4, <1>5 DEF RequestBegins

\* A request finds the dataset there and begins.
LEMMA AssertExistsInv ==
    ASSUME DatasetInv, NEW c \in Call, AssertExists(c)
    PROVE  DatasetInv'
<1> USE DEF AssertExists, At
<1>1. PICK q \in CallRecord :
          /\ Begins(c, q) /\ op[c] \in DOMAIN FirstStage
          /\ q.tags = 0 /\ q.sampled = 0 /\ ~q.isNew
          /\ q.entity = Nothing /\ q.fields \in Fields
          /\ ~Updates(c) => q.fields = Nothing
          /\ op[c] \in {"caption", "uncaption", "unimage", "replace"} =>
               q.todo # {} /\ q.todo \subseteq Image
  BY RequestTyped
<1> DEFINE first == FirstStage[op[c]]
           r == [q EXCEPT !.at = first]
<1>2. /\ op[c] = "remove" => first = "rm"
      /\ op[c] = "caption" => first = "access"
      /\ op[c] = "unimage" => first = "access"
      /\ op[c] = "uncaption" => first = "untext"
      /\ op[c] = "replace" => first = "put"
      /\ op[c] = "prepend" => first = "readdir"
      /\ op[c] = "detect" => first = "readdir"
      /\ op[c] = "meta" => first = "find"
      /\ op[c] \in {"remove", "caption", "unimage", "uncaption", "replace", "prepend",
                    "detect", "meta"}
  BY <1>1 DEF FirstStage
<1> HIDE DEF first
<1>3. r \in CallRecord /\ r.tags <= r.sampled
  <2>1. first \in Stage
    BY <1>2 DEF Stage
  <2> QED
    BY <1>1, <2>1 DEF CallRecord
<1>4. Becomes(c, r) /\ call'[c] = r
  BY <1>1 DEF Begins, Becomes, DatasetInv, DatasetTypeOK, first
<1>5. /\ stale'[c] = FALSE /\ stale' \in [Call -> BOOLEAN]
      /\ \A d \in Call \ {c} : stale'[d] = stale[d]
  BY DEF DatasetInv, DatasetTypeOK
<1>6. /\ call'[c].at = first /\ ~call'[c].isNew /\ call'[c].fields = q.fields
      /\ call'[c].entity = Nothing /\ call'[c].tags = 0 /\ call'[c].todo = q.todo
  BY <1>1, <1>4 DEF CallRecord
<1>7. CallInv(c)'
  BY <1>1, <1>2, <1>5, <1>6, NothingIs DEF CallInv, StagesOf, TodoOf, FieldsOf, HoldOf,
     ReachOf, DirOf, SeenOf, At, Saving, OneImage, Prepends, InFlight, Updates, RowWriter, disk,
     Unpacker
<1> QED
  BY <1>3, <1>4, <1>5, <1>7, OwnInv DEF DatasetInv, DatasetTypeOK

-----------------------------------------------------------------------------
(* Steps that change files *)

\* A prepend knows nothing of captions and images that others have touched.
LEMMA TouchedReach ==
    ASSUME NEW d \in Call, NEW S \in SUBSET Stem, ReachOf(d), call'[d] = call[d],
           before' = before, \A s \in Stem \ S : text'[s] = text[s],
           images' \subseteq images \cup {i \in Image : StemOf[i] \in S},
           images' \subseteq Image,
           Prepends(d) => touched'[d] = touched[d] \cup S
    PROVE  ReachOf(d)'
<1> SUFFICES ASSUME Prepends(d) PROVE ReachOf(d)'
  BY DEF ReachOf, Prepends
<1>1. \A s \in Stem \ touched'[d] : s \in Stem \ touched[d] /\ text'[s] = text[s]
  OBVIOUS
<1>2. \A i \in images' : StemOf[i] \notin touched'[d] =>
          i \in images /\ StemOf[i] \in Stem \ touched'[d]
  BY StemAssumption
<1> QED
  BY <1>1, <1>2 DEF ReachOf, Prepends, At

\* Files are written or removed, as other requests than a prepend do.
LEMMA FilesInv ==
    ASSUME DatasetInv, NEW c \in Call, NEW r \in CallRecord, r.tags <= r.sampled,
           Becomes(c, r), NEW S \in SUBSET Stem, Touch(c, S),
           UNCHANGED <<dir, row, op, crashed, before, marked, stale, want, risk>>,
           text' \in [Stem -> Caption \cup {None}], images' \subseteq Image,
           \A s \in Stem \ S : text'[s] = text[s],
           \A s \in S : text'[s] \in {None, text[s], Written("tags")},
           images' \subseteq images \cup {i \in Image : StemOf[i] \in S},
           ~dir => images' = {} /\ \A s \in Stem : text'[s] = None,
           ~At(c, "delete"), CallInv(c)'
    PROVE  DatasetInv'
<1> USE DEF Becomes, DatasetInv
<1>1. call' \in [Call -> CallRecord] /\ call'[c] = r
        /\ \A d \in Call \ {c} : call'[d] = call[d]
  BY DEF DatasetTypeOK
<1>2. touched' \in [Call -> SUBSET Stem]
  BY DEF DatasetTypeOK, Touch
<1>3. DatasetTypeOK'
  BY <1>1, <1>2 DEF DatasetTypeOK
<1>4. TextInv'
  BY DEF TextInv, Written
<1>5. RowInv'
  <2>1. \A d \in Call : At(d, "delete") => At(d, "delete")'
    BY <1>1 DEF At
  <2> QED
    BY <2>1 DEF RowInv, RowHasDirectory, AcknowledgedKept
<1>6. ASSUME NEW d \in Call \ {c} PROVE CallInv(d)'
  <2>1. CallInv(d) /\ call'[d] = call[d]
    BY <1>1
  <2>2. Prepends(d) => touched'[d] = touched[d] \cup S
    BY <2>1 DEF Prepends, CallInv, StagesOf, Touch, InFlight, Ended
  <2>3. ReachOf(d)'
    BY <2>1, <2>2, TouchedReach DEF CallInv
  <2>4. StagesOf(d)' /\ TodoOf(d)' /\ FieldsOf(d)' /\ HoldOf(d)'
    BY <2>1, OwnStays, HoldStays
  <2>5. DirOf(d)' /\ SeenOf(d)'
    BY <2>1, DirStays, SeenStays
  <2> QED
    BY <2>3, <2>4, <2>5 DEF CallInv
<1> QED
  BY <1>1, <1>3, <1>4, <1>5, <1>6

\* The text of a caption that an upload or a user writes.
LEMMA WrittenTyped == Written("tags") \in Caption
BY DEF Written, Caption, Body

LEMMA PutImageInv ==
    ASSUME DatasetInv, NEW c \in Call, NEW r \in CallRecord, r.tags <= r.sampled,
           Becomes(c, r), NEW i \in Image, PutImage(c, i), dir,
           UNCHANGED <<row, op, crashed>>, ~At(c, "delete"), CallInv(c)'
    PROVE  DatasetInv'
<1>1. /\ images' = images \cup {i} /\ text' = text /\ Touch(c, {StemOf[i]})
      /\ {StemOf[i]} \in SUBSET Stem
      /\ UNCHANGED <<dir, row, op, crashed, before, marked, stale, want, risk>>
  BY StemAssumption DEF PutImage
<1>2. text' \in [Stem -> Caption \cup {None}] /\ images' \subseteq Image
  BY <1>1 DEF DatasetInv, DatasetTypeOK
<1>3. /\ images' \subseteq images \cup {j \in Image : StemOf[j] \in {StemOf[i]}}
      /\ \A s \in Stem : text'[s] = text[s]
  BY <1>1
<1> QED
  BY <1>1, <1>2, <1>3, FilesInv

LEMMA PutTextInv ==
    ASSUME DatasetInv, NEW c \in Call, NEW r \in CallRecord, r.tags <= r.sampled,
           Becomes(c, r), NEW s \in Stem, NEW x \in {None, Written("tags")}, PutText(c, s, x),
           dir \/ x = None, UNCHANGED <<row, op, crashed>>, ~At(c, "delete"), CallInv(c)'
    PROVE  DatasetInv'
<1>1. /\ text' = [text EXCEPT ![s] = x] /\ images' = images /\ Touch(c, {s})
      /\ {s} \in SUBSET Stem
      /\ UNCHANGED <<dir, row, op, crashed, before, marked, stale, want, risk>>
  BY DEF PutText
<1>2. text' \in [Stem -> Caption \cup {None}] /\ images' \subseteq Image
  BY <1>1, WrittenTyped DEF DatasetInv, DatasetTypeOK
<1>3. /\ \A t \in Stem \ {s} : text'[t] = text[t]
      /\ text'[s] = x
      /\ ~dir => images' = {} /\ \A t \in Stem : text'[t] = None
  BY <1>1 DEF DatasetInv, DatasetTypeOK
<1> QED
  BY <1>1, <1>2, <1>3, FilesInv

\* One file of an upload is written.
LEMMA WriteFileInv ==
    ASSUME DatasetInv, NEW c \in Call, NEW f \in Image \cup Stem, WriteFile(c, f)
    PROVE  DatasetInv'
<1> USE DEF WriteFile, At
<1> DEFINE r == [call[c] EXCEPT !.todo = @ \ {f}]
<1>1. call[c] \in CallRecord /\ call[c].tags <= call[c].sampled /\ CallInv(c)
  BY DEF DatasetInv, DatasetTypeOK
<1>2. r \in CallRecord /\ r.tags <= r.sampled
  BY <1>1 DEF CallRecord
<1>3. Becomes(c, r) /\ call'[c] = r
  BY DEF Becomes, DatasetInv, DatasetTypeOK
<1>4. UNCHANGED <<dir, row, op, crashed, before, marked, stale, want, risk>>
  BY DEF PutImage, PutText
<1>5. CallInv(c)'
  <2>1. /\ call'[c].at = "write" /\ call'[c].isNew = call[c].isNew
        /\ call'[c].fields = call[c].fields /\ call'[c].entity = call[c].entity
        /\ call'[c].tags = call[c].tags
    BY <1>1, <1>3 DEF CallRecord
  <2> QED
    BY <1>1, <1>4, <2>1 DEF CallInv, StagesOf, TodoOf, FieldsOf, HoldOf,
       ReachOf, DirOf, SeenOf, At, Saving, OneImage, Prepends, InFlight, Updates, RowWriter,
       Ended
<1>6. CASE f \in Image
  BY <1>2, <1>3, <1>5, <1>6, PutImageInv
<1>7. CASE f \notin Image
  BY <1>2, <1>3, <1>5, <1>7, PutTextInv
<1> QED
  BY <1>6, <1>7

\* An image is replaced, or a caption written.
LEMMA WriteTargetInv ==
    ASSUME DatasetInv, NEW c \in Call, WriteTarget(c)
    PROVE  DatasetInv'
<1> USE DEF WriteTarget, At
<1> DEFINE r == [Fresh EXCEPT !.at = "done"]
<1>1. CASE ~dir
  BY <1>1, AnswerInv DEF Ended
<1>2. CASE dir
  <2>1. Becomes(c, r) /\ call'[c] = r
    BY <1>2 DEF Answers, Becomes, DatasetInv, DatasetTypeOK
  <2>2. r \in CallRecord /\ r.tags <= r.sampled
    BY OverTyped DEF Ended
  <2>3. CallInv(c)'
    BY <2>1, OverKnows DEF Ended
  <2>4. Target(c) \in Image
    BY DEF Target, DatasetInv, CallInv, TodoOf, OneImage
  <2>5. CASE op[c] = "replace"
    BY <1>2, <2>1, <2>2, <2>3, <2>4, <2>5, PutImageInv
  <2>6. CASE op[c] # "replace"
    BY <1>2, <2>1, <2>2, <2>3, <2>4, <2>6, StemAssumption, PutTextInv
  <2> QED
    BY <2>5, <2>6
<1> QED
  BY <1>1, <1>2

\* A caption goes.
LEMMA UnlinkCaptionInv ==
    ASSUME DatasetInv, NEW c \in Call, UnlinkCaption(c)
    PROVE  DatasetInv'
<1> USE DEF UnlinkCaption, At
<1> DEFINE r == [Fresh EXCEPT !.at = "done"]
<1>1. Becomes(c, r) /\ call'[c] = r
  BY DEF Answers, Becomes, DatasetInv, DatasetTypeOK
<1>2. r \in CallRecord /\ r.tags <= r.sampled
  BY OverTyped DEF Ended
<1>3. CallInv(c)'
  BY <1>1, OverKnows DEF Ended
<1>4. StemOf[Target(c)] \in Stem
  <2>1. Target(c) \in Image
    BY DEF Target, DatasetInv, CallInv, TodoOf, OneImage
  <2> QED
    BY <2>1, StemAssumption
<1> QED
  BY <1>1, <1>2, <1>3, <1>4, PutTextInv

\* An image goes; its caption is next.
LEMMA UnlinkImageInv ==
    ASSUME DatasetInv, NEW c \in Call, UnlinkImage(c)
    PROVE  DatasetInv'
<1> USE DEF UnlinkImage, At
<1> DEFINE r == [call[c] EXCEPT !.at = "untext"]
<1>1. call[c] \in CallRecord /\ call[c].tags <= call[c].sampled /\ CallInv(c)
  BY DEF DatasetInv, DatasetTypeOK
<1>2. Target(c) \in Image /\ StemOf[Target(c)] \in Stem
  <2>1. Target(c) \in Image
    BY <1>1 DEF Target, CallInv, TodoOf, OneImage
  <2> QED
    BY <2>1, StemAssumption
<1>3. CASE Target(c) \notin images
  BY <1>3, AnswerInv DEF Ended, disk, history
<1>4. CASE Target(c) \in images
  <2>1. Becomes(c, r) /\ call'[c] = r
    BY <1>4 DEF Goes, Becomes, DatasetInv, DatasetTypeOK
  <2>2. r \in CallRecord /\ r.tags <= r.sampled
    BY <1>1 DEF CallRecord, Stage
  <2>3. CallInv(c)'
    BY <1>1, <2>1 DEF CallInv, StagesOf, TodoOf, FieldsOf, HoldOf,
       ReachOf, DirOf, SeenOf, At, Saving, OneImage, Prepends, InFlight, Updates, RowWriter,
       CallRecord, Ended
  <2>4. /\ images' = images \ {Target(c)} /\ text' = text /\ Touch(c, {StemOf[Target(c)]})
        /\ {StemOf[Target(c)]} \in SUBSET Stem
        /\ UNCHANGED <<dir, row, op, crashed, before, marked, stale, want, risk>>
    BY <1>2, <1>4
  <2>5. /\ text' \in [Stem -> Caption \cup {None}] /\ images' \subseteq Image
        /\ images' \subseteq images /\ \A s \in Stem : text'[s] = text[s]
        /\ ~dir => images' = {} /\ \A s \in Stem : text'[s] = None
    BY <2>4 DEF DatasetInv, DatasetTypeOK
  <2> QED
    BY <2>1, <2>2, <2>3, <2>4, <2>5, FilesInv
<1> QED
  BY <1>3, <1>4

\* fs.rm empties the directory.
LEMMA RmFilesInv ==
    ASSUME DatasetInv, NEW c \in Call, RmFiles(c)
    PROVE  DatasetInv'
<1> USE DEF RmFiles, At
<1> DEFINE r == [call[c] EXCEPT !.at = "rmdir"]
<1>1. call[c] \in CallRecord /\ call[c].tags <= call[c].sampled /\ CallInv(c)
  BY DEF DatasetInv, DatasetTypeOK
<1>2. Becomes(c, r) /\ call'[c] = r
  BY DEF Goes, Becomes, DatasetInv, DatasetTypeOK
<1>3. r \in CallRecord /\ r.tags <= r.sampled
  BY <1>1 DEF CallRecord, Stage
<1>4. CallInv(c)'
  BY <1>1, <1>2 DEF CallInv, StagesOf, TodoOf, FieldsOf, HoldOf,
     ReachOf, DirOf, SeenOf, At, Saving, OneImage, Prepends, InFlight, Updates, RowWriter,
     CallRecord, Ended
<1>5. /\ text' \in [Stem -> Caption \cup {None}] /\ images' = {} /\ Stem \in SUBSET Stem
      /\ \A s \in Stem : text'[s] = None
  OBVIOUS
<1> QED
  BY <1>2, <1>3, <1>4, <1>5, FilesInv

\* The text stays; the token is there once more, and shows where it is put first.
LEMMA PrependedIs ==
    ASSUME NEW h \in Caption, NEW style \in BOOLEAN
    PROVE  /\ Prepended(h, style) \in Caption /\ Prepended(h, style) # None
           /\ Prepended(h, style).lead = h.lead + 1 /\ Prepended(h, style).lead > 0
           /\ Prepended(h, style).body = h.body /\ (~style => Prepended(h, style).opens)
<1>1. h.lead \in Nat
  BY DEF Caption
<1>2. Prepended(h, style).lead = h.lead + 1
  BY DEF Prepended, Caption
<1>3. Prepended(h, style).body = h.body
  BY DEF Prepended, Caption
<1>4. ~style => Prepended(h, style).opens
  BY DEF Prepended, Caption
<1>5. Prepended(h, style) \in Caption
  <2> DEFINE g == [h EXCEPT !.lead = @ + 1]
  <2>1. g \in Caption
    BY DEF Caption
  <2>2. Prepended(h, style) = [g EXCEPT !.opens = ~style]
    BY DEF Prepended
  <2> HIDE DEF g
  <2> QED
    BY <2>1, <2>2 DEF Caption
<1> QED
  BY <1>1, <1>2, <1>3, <1>4, <1>5, NoneAssumption

\* A prepend writes the caption it holds, with the token.
LEMMA RewriteCaptionInv ==
    ASSUME DatasetInv, NEW c \in Call, RewriteCaption(c)
    PROVE  DatasetInv'
<1> USE DEF RewriteCaption, At
<1> DEFINE s == call[c].held.stem
           x == Prepended(call[c].held.caption, call[c].style)
           r == [call[c] EXCEPT !.at = "read", !.held = None]
<1>1. call[c] \in CallRecord /\ call[c].tags <= call[c].sampled /\ CallInv(c)
  BY DEF DatasetInv, DatasetTypeOK
<1>2. s \in Stem /\ call[c].held.caption \in Caption
  <2>1. call[c].held \in [stem : Stem, caption : Caption]
    BY <1>1 DEF CallInv, TodoOf
  <2> QED
    BY <2>1
<1>3. /\ x \in Caption /\ x # None /\ x.lead = call[c].held.caption.lead + 1 /\ x.lead > 0
      /\ x.body = call[c].held.caption.body /\ (~call[c].style => x.opens)
  <2>1. call[c].style \in BOOLEAN
    BY <1>1 DEF CallRecord
  <2> QED
    BY <1>2, <2>1, PrependedIs
<1> HIDE DEF x
<1>4. Becomes(c, r) /\ call'[c] = r
  BY DEF Becomes, DatasetInv, DatasetTypeOK
<1>5. r \in CallRecord /\ r.tags <= r.sampled
  BY <1>1 DEF CallRecord, Stage
<1>6. /\ text' \in [Stem -> Caption \cup {None}] /\ text'[s] = x
      /\ \A t \in Stem \ {s} : text'[t] = text[t]
      /\ UNCHANGED <<dir, images, row, op, crashed, before, stale, want, risk>>
  BY <1>2, <1>3 DEF DatasetInv, DatasetTypeOK, x
<1>7. /\ touched' \in [Call -> SUBSET Stem] /\ touched'[c] = touched[c]
      /\ marked \subseteq marked' /\ marked' \subseteq Stem
      /\ ~(call[c].skip /\ ~call[c].style) => s \in marked'
  BY <1>2 DEF DatasetInv, DatasetTypeOK, Touch
<1>8. /\ call' \in [Call -> CallRecord] /\ \A d \in Call \ {c} : call'[d] = call[d]
      /\ \A d \in Call : call'[d].tags <= call'[d].sampled
  BY <1>4, <1>5 DEF Becomes, DatasetInv, DatasetTypeOK
<1>9. DatasetTypeOK'
  BY <1>6, <1>7, <1>8 DEF DatasetInv, DatasetTypeOK
<1>10. TextInv'
  <2>1. ASSUME NEW t \in Stem, text'[t] # None
        PROVE  /\ text'[t].opens => text'[t].lead > 0
               /\ t \notin marked' => text'[t].lead = 0 \/ (text'[t].lead = 1 /\ text'[t].opens)
    <3>1. CASE t # s
      BY <1>6, <1>7, <2>1, <3>1 DEF DatasetInv, TextInv
    <3>2. CASE t = s
      <4>1. text'[t].lead > 0
        BY <1>3, <1>6, <3>2
      <4>2. ASSUME s \notin marked' PROVE x.lead = 1 /\ x.opens
        BY <1>1, <1>3, <1>7, <4>2 DEF CallInv, HoldOf
      <4> QED
        BY <1>6, <3>2, <4>1, <4>2
    <3> QED
      BY <3>1, <3>2
  <2> QED
    BY <2>1 DEF TextInv
<1>11. RowInv'
  <2>1. \A d \in Call : At(d, "delete") => At(d, "delete")'
    BY <1>8 DEF At
  <2> QED
    BY <1>6, <2>1 DEF DatasetInv, RowInv, RowHasDirectory, AcknowledgedKept
<1>12. CallInv(c)'
  <2>1. ReachOf(c)'
    <3>1. op[c] = "prepend" /\ Prepends(c) /\ ReachOf(c)
      BY <1>1 DEF CallInv, StagesOf, Prepends
    <3>2. /\ call'[c].at = "read" /\ call'[c].todo = call[c].todo
      BY <1>1, <1>4 DEF CallRecord
    <3>3. ASSUME NEW t \in Stem \ touched'[c]
          PROVE  /\ text'[t] = None <=> before'[c][t] = None
                 /\ text'[t] # None => text'[t].body = before'[c][t].body
      <4>1. t \in Stem \ touched[c] /\ before' = before
        BY <1>6, <1>7, <3>3
      <4>2. /\ text[t] = None <=> before[c][t] = None
            /\ text[t] # None => text[t].body = before[c][t].body
            /\ s = t => text[t] # None /\ call[c].held.caption.body = before[c][t].body
        BY <3>1, <4>1 DEF ReachOf
      <4>3. t # s => text'[t] = text[t]
        BY <1>6
      <4> HIDE DEF s
      <4> QED
        BY <1>3, <1>6, <4>1, <4>2, <4>3
    <3>4. ASSUME NEW i \in images', StemOf[i] \notin touched'[c], text'[StemOf[i]] # None
          PROVE  i \in call'[c].todo \/ text'[StemOf[i]].lead > 0
      BY <1>3, <1>6, <1>7, <3>1, <3>2, <3>4, StemAssumption DEF ReachOf, DatasetInv, DatasetTypeOK
    <3> QED
      BY <3>2, <3>3, <3>4 DEF ReachOf, At
  <2> QED
    <3>1. /\ call'[c].at = "read" /\ call'[c].todo = call[c].todo
          /\ call'[c].fields = call[c].fields /\ call'[c].entity = call[c].entity
          /\ call'[c].isNew = call[c].isNew
      BY <1>1, <1>4 DEF CallRecord
    <3>2. op[c] = "prepend" /\ call[c].todo \subseteq Image /\ ~Updates(c) /\ ~Updates(c)'
      BY <1>1, <1>6 DEF CallInv, StagesOf, TodoOf, Prepends, Updates
    <3>3. StagesOf(c)' /\ TodoOf(c)'
      BY <1>6, <3>1, <3>2 DEF StagesOf, TodoOf, At, Saving, OneImage, Prepends
    <3>4. FieldsOf(c)' /\ HoldOf(c)'
      BY <1>1, <3>1 DEF CallInv, FieldsOf, HoldOf, At
    <3>5. DirOf(c)'
      BY <1>1, <1>6, <3>1, <3>2 DEF CallInv, DirOf, RowWriter, InFlight, At, Ended
    <3>6. SeenOf(c)'
      BY <1>1, <1>6, <3>1, <3>2 DEF CallInv, SeenOf, Saving, At, Unpacker
    <3> QED
      BY <2>1, <3>3, <3>4, <3>5, <3>6 DEF CallInv
<1>13. ASSUME NEW d \in Call \ {c} PROVE CallInv(d)'
  <2>1. CallInv(d) /\ call'[d] = call[d]
    BY <1>8 DEF DatasetInv
  <2>2. ReachOf(d)'
    <3>1. CASE s \in touched[c]
      <4>1. Prepends(d) => touched'[d] = touched[d] \cup {s}
        BY <2>1, <3>1 DEF Prepends, CallInv, StagesOf, Touch, InFlight, Ended, DatasetInv, DatasetTypeOK
      <4>2. {s} \in SUBSET Stem /\ images' = images /\ images' \subseteq Image
              /\ \A t \in Stem \ {s} : text'[t] = text[t]
        BY <1>2, <1>6 DEF DatasetInv, DatasetTypeOK
      <4>3. ReachOf(d) /\ call'[d] = call[d] /\ before' = before
        BY <1>6, <2>1 DEF CallInv
      <4> QED
        BY <4>1, <4>2, <4>3, TouchedReach
    <3>2. CASE s \notin touched[c]
      <4>1. touched' = touched
        BY <3>2
      <4>2. text[s] # None /\ x.body = text[s].body
        BY <1>1, <1>2, <1>3, <3>2 DEF CallInv, ReachOf, Prepends
      <4> QED
        <5> SUFFICES ASSUME Prepends(d) PROVE ReachOf(d)'
          BY <2>1 DEF ReachOf, Prepends
        <5>1. /\ ReachOf(d) /\ call'[d] = call[d] /\ touched'[d] = touched[d]
              /\ before' = before /\ images' = images
              /\ \A i \in images : StemOf[i] \in Stem
          BY <1>6, <2>1, <4>1, StemAssumption DEF CallInv, DatasetInv, DatasetTypeOK
        <5>2. ASSUME NEW t \in Stem \ touched[d]
              PROVE  /\ text'[t] = None <=> before[d][t] = None
                     /\ text'[t] # None => text'[t].body = before[d][t].body
                     /\ At(d, "rewrite") /\ call[d].held.stem = t =>
                          text'[t] # None /\ call[d].held.caption.body = before[d][t].body
          <6>1. /\ text[t] = None <=> before[d][t] = None
                /\ text[t] # None => text[t].body = before[d][t].body
                /\ At(d, "rewrite") /\ call[d].held.stem = t =>
                     text[t] # None /\ call[d].held.caption.body = before[d][t].body
            BY <5>1 DEF ReachOf
          <6>2. text'[t] = text[t] \/ (text[t] # None /\ text'[t] # None /\ text'[t].body = text[t].body)
            BY <1>3, <1>6, <4>2
          <6> QED
            BY <6>1, <6>2
        <5>3. ASSUME NEW i \in images, StemOf[i] \notin touched[d], text'[StemOf[i]] # None
              PROVE  \/ i \in call[d].todo
                     \/ At(d, "rewrite") /\ call[d].held.stem = StemOf[i]
                     \/ text'[StemOf[i]].lead > 0
          <6>1. text[StemOf[i]] # None
            BY <1>6, <4>2, <5>1, <5>3
          <6>2. text'[StemOf[i]] = text[StemOf[i]] \/ text'[StemOf[i]].lead > 0
            BY <1>3, <1>6, <5>1
          <6> QED
            BY <5>1, <5>3, <6>1, <6>2 DEF ReachOf
        <5>4. At(d, "rewrite")' <=> At(d, "rewrite")
          BY <5>1 DEF At
        <5> HIDE DEF At
        <5>5. \A t \in Stem \ touched'[d] :
                 /\ text'[t] = None <=> before'[d][t] = None
                 /\ text'[t] # None => text'[t].body = before'[d][t].body
                 /\ At(d, "rewrite")' /\ call'[d].held.stem = t =>
                      text'[t] # None /\ call'[d].held.caption.body = before'[d][t].body
          BY <5>1, <5>2, <5>4
        <5>6. \A i \in images' :
                 StemOf[i] \notin touched'[d] /\ text'[StemOf[i]] # None =>
                     \/ i \in call'[d].todo
                     \/ At(d, "rewrite")' /\ call'[d].held.stem = StemOf[i]
                     \/ text'[StemOf[i]].lead > 0
          BY <5>1, <5>3, <5>4
        <5> QED
          BY <5>5, <5>6 DEF ReachOf
    <3> QED
      BY <3>1, <3>2
  <2>3. HoldOf(d)'
    BY <1>7, <2>1, HoldStays
  <2>4. StagesOf(d)' /\ TodoOf(d)' /\ FieldsOf(d)'
    BY <1>6, <2>1, OwnStays
  <2>5. DirOf(d)' /\ SeenOf(d)'
    BY <1>6, <2>1, DirStays, SeenStays
  <2> QED
    BY <2>2, <2>3, <2>4, <2>5 DEF CallInv
<1> QED
  BY <1>6, <1>9, <1>10, <1>11, <1>12, <1>13 DEF DatasetInv

-----------------------------------------------------------------------------
(* Steps that change the directory or the row *)

\* The directory of an upload is made.
LEMMA MkdirInv ==
    ASSUME DatasetInv, NEW c \in Call, Mkdir(c)
    PROVE  DatasetInv'
<1> USE DEF Mkdir, At, history
<1> DEFINE r == [call[c] EXCEPT !.at = "write"]
<1>1. call[c] \in CallRecord /\ call[c].tags <= call[c].sampled /\ CallInv(c)
  BY DEF DatasetInv, DatasetTypeOK
<1>2. call'[c] = r /\ \A d \in Call \ {c} : call'[d] = call[d]
  BY DEF Goes, Becomes, DatasetInv, DatasetTypeOK
<1>3. r \in CallRecord /\ r.tags <= r.sampled
  BY <1>1 DEF CallRecord, Stage
<1>4. DatasetTypeOK'
  <2>1. call' \in [Call -> CallRecord] /\ \A d \in Call : call'[d].tags <= call'[d].sampled
    BY <1>2, <1>3 DEF Goes, Becomes, DatasetInv, DatasetTypeOK
  <2> QED
    BY <2>1 DEF DatasetInv, DatasetTypeOK
<1>5. TextInv' /\ RowInv'
  BY DEF DatasetInv, TextInv, RowInv, RowHasDirectory, AcknowledgedKept
<1>6. CallInv(c)'
  BY <1>1, <1>2 DEF CallInv, StagesOf, TodoOf, FieldsOf, HoldOf, ReachOf, DirOf, SeenOf,
     Saving, OneImage, Prepends, InFlight, Updates, RowWriter, CallRecord, Unpacker, Ended
<1>7. ASSUME NEW d \in Call \ {c} PROVE CallInv(d)'
  <2>1. CallInv(d) /\ call'[d] = call[d]
    BY <1>2 DEF DatasetInv
  <2> QED
    BY <2>1 DEF CallInv, StagesOf, TodoOf, FieldsOf, HoldOf, ReachOf, DirOf, SeenOf,
       Prepends, InFlight, RowWriter, Updates
<1> QED
  BY <1>4, <1>5, <1>6, <1>7 DEF DatasetInv

\* A call that will save knows that the row has changed.
LEMMA StaleSeen ==
    ASSUME NEW d \in Call, SeenOf(d), call'[d] = call[d], UNCHANGED op,
           stale'[d] = (stale[d] \/ Holding(d))
    PROVE  SeenOf(d)'
<1>1. (Updates(d)' <=> Updates(d)) /\ op' = op /\ call'[d] = call[d]
  BY DEF Updates
<1>2. ~stale'[d] => ~stale[d] /\ call[d].at \notin Saving /\ ~call[d].isNew
  BY DEF Holding, Saving
<1>3. /\ Updates(d)' /\ call'[d].at \in Saving =>
           /\ DOMAIN call'[d].fields \subseteq DOMAIN call'[d].entity
           /\ \A k \in DOMAIN call'[d].fields : call'[d].entity[k] = call'[d].fields[k]
      /\ ~Updates(d)' =>
           /\ call'[d].fields = Nothing
           /\ call'[d].at \in Saving => DOMAIN call'[d].entity \subseteq {"captionType"}
           /\ call'[d].at \in {"mkdir", "write", "find"} => call'[d].entity = Nothing
           /\ call'[d].at \in {"readdir", "sample"} /\ op'[d] \in Unpacker => call'[d].isNew
           /\ call'[d].at \in Saving /\ ~call'[d].isNew => call'[d].entity = Nothing
  BY <1>1 DEF SeenOf
<1> QED
  BY <1>1, <1>2, <1>3 DEF SeenOf

\* The row is saved or deleted: the others know.
LEMMA RowChangesInv ==
    ASSUME DatasetInv, NEW c \in Call, NEW new \in Meta \cup {None}, RowChanges(c, new),
           Answers(c, "done"), UNCHANGED <<disk, op, crashed, before, touched, marked, risk>>,
           want' \in Partial, RowInv'
    PROVE  DatasetInv'
<1> USE DEF RowChanges, disk
<1>1. call'[c] = [Fresh EXCEPT !.at = "done"] /\ \A d \in Call \ {c} : call'[d] = call[d]
  BY DEF Answers, Becomes, DatasetInv, DatasetTypeOK
<1>2. DatasetTypeOK'
  <2>1. /\ call' \in [Call -> CallRecord]
        /\ \A d \in Call : call'[d].tags <= call'[d].sampled
    BY <1>1, OverTyped DEF Answers, Becomes, DatasetInv, DatasetTypeOK, Ended
  <2>2. stale' \in [Call -> BOOLEAN]
    BY DEF DatasetInv, DatasetTypeOK
  <2> QED
    BY <2>1, <2>2 DEF DatasetInv, DatasetTypeOK
<1>3. TextInv'
  BY DEF DatasetInv, TextInv
<1>4. CallInv(c)'
  BY <1>1, OverKnows DEF Ended
<1>5. ASSUME NEW d \in Call \ {c} PROVE CallInv(d)'
  <2>1. CallInv(d) /\ call'[d] = call[d] /\ stale'[d] = (stale[d] \/ Holding(d))
    BY <1>1 DEF DatasetInv
  <2>2. SeenOf(d)'
    BY <2>1, StaleSeen DEF CallInv
  <2> QED
    BY <2>1, <2>2 DEF CallInv, StagesOf, TodoOf, FieldsOf, HoldOf, ReachOf, DirOf,
       At, Prepends, InFlight, RowWriter, Updates
<1> QED
  BY <1>2, <1>3, <1>4, <1>5 DEF DatasetInv

\* The delete of the row.
LEMMA DeleteRowInv ==
    ASSUME DatasetInv, NEW c \in Call, DeleteRow(c)
    PROVE  DatasetInv'
<1> USE DEF DeleteRow
<1>1. row' = None /\ want' = Nothing
  BY DEF RowChanges
<1>2. RowInv'
  BY <1>1 DEF RowInv, RowHasDirectory, AcknowledgedKept
<1>3. want' \in Partial
  BY <1>1, NothingIs DEF Fields
<1> QED
  BY <1>2, <1>3, RowChangesInv

\* The delete of the row fails.
LEMMA DeleteRowFailsInv ==
    ASSUME DatasetInv, NEW c \in Call, DeleteRowFails(c)
    PROVE  DatasetInv'
<1> USE DEF DeleteRowFails, disk
<1>1. call'[c] = [Fresh EXCEPT !.at = "done"] /\ \A d \in Call \ {c} : call'[d] = call[d]
  BY DEF Answers, Becomes, DatasetInv, DatasetTypeOK
<1>2. DatasetTypeOK'
  <2>1. /\ call' \in [Call -> CallRecord]
        /\ \A d \in Call : call'[d].tags <= call'[d].sampled
    BY <1>1, OverTyped DEF Answers, Becomes, DatasetInv, DatasetTypeOK, Ended
  <2> QED
    BY <2>1 DEF DatasetInv, DatasetTypeOK
<1>3. TextInv' /\ RowInv'
  BY DEF DatasetInv, TextInv, RowInv, RowHasDirectory, AcknowledgedKept
<1>4. CallInv(c)'
  BY <1>1, OverKnows DEF Ended
<1>5. ASSUME NEW d \in Call \ {c} PROVE CallInv(d)'
  <2>1. CallInv(d) /\ call'[d] = call[d]
    BY <1>1 DEF DatasetInv
  <2> QED
    BY <2>1 DEF CallInv, StagesOf, TodoOf, FieldsOf, HoldOf, ReachOf, DirOf, SeenOf,
       At, Prepends, InFlight, RowWriter, Updates
<1> QED
  BY <1>2, <1>3, <1>4, <1>5 DEF DatasetInv

\* The directory goes, and what users were told with it.
LEMMA RmDirInv ==
    ASSUME DatasetInv, NEW c \in Call, RmDir(c)
    PROVE  DatasetInv'
<1> USE DEF RmDir, At
<1> DEFINE r == [call[c] EXCEPT !.at = "delete"]
<1>1. call[c] \in CallRecord /\ call[c].tags <= call[c].sampled /\ CallInv(c)
  BY DEF DatasetInv, DatasetTypeOK
<1>2. call'[c] = r /\ \A d \in Call \ {c} : call'[d] = call[d]
  BY DEF Goes, Becomes, DatasetInv, DatasetTypeOK
<1>3. r \in CallRecord /\ r.tags <= r.sampled /\ r.at = "delete"
  BY <1>1 DEF CallRecord, Stage
<1>4. DatasetTypeOK'
  <2>1. call' \in [Call -> CallRecord] /\ \A d \in Call : call'[d].tags <= call'[d].sampled
    BY <1>2, <1>3 DEF Goes, Becomes, DatasetInv, DatasetTypeOK
  <2>2. want' \in Partial /\ risk' \in BOOLEAN
    BY NothingIs DEF Fields, DatasetInv, DatasetTypeOK
  <2> QED
    BY <2>1, <2>2 DEF DatasetInv, DatasetTypeOK
<1>5. TextInv' /\ RowInv'
  BY <1>2, <1>3, NothingIs DEF DatasetInv, TextInv, RowInv, RowHasDirectory, AcknowledgedKept
<1>6. op[c] = "remove" /\ ~RowWriter(c)
  BY <1>1 DEF CallInv, StagesOf, RowWriter, FirstStage, Updates
<1>7. CallInv(c)'
  BY <1>1, <1>2, <1>6 DEF CallInv, StagesOf, TodoOf, FieldsOf, HoldOf, ReachOf, DirOf, SeenOf,
     Saving, OneImage, Prepends, InFlight, Updates, RowWriter, CallRecord, Ended
<1>8. ASSUME NEW d \in Call \ {c} PROVE CallInv(d)'
  <2>1. CallInv(d) /\ call'[d] = call[d]
    BY <1>2 DEF DatasetInv
  <2>2. DirOf(d)'
    BY <2>1 DEF DirOf, RowWriter, InFlight, Updates
  <2> QED
    BY <2>1, <2>2 DEF CallInv, StagesOf, TodoOf, FieldsOf, HoldOf, ReachOf, SeenOf,
       Prepends, Updates
<1> QED
  BY <1>4, <1>5, <1>7, <1>8 DEF DatasetInv

\* A call that saves and the row it saves: what users are told is there.
LEMMA RowSavedInv ==
    ASSUME DatasetInv, NEW c \in Call, NEW new \in Meta \cup {None}, RowSaved(c, new),
           Answers(c, "done"), UNCHANGED <<op, crashed>>, ~At(c, "delete"),
           RowHasDirectory', (AcknowledgedKept /\ want \in Partial)'
    PROVE  DatasetInv'
<1> USE DEF RowSaved
<1>1. UNCHANGED <<disk, op, crashed, before, touched, marked, risk>> /\ RowChanges(c, new)
  OBVIOUS
<1>2. ~dir' => want' = Nothing
  <2>1. ASSUME ~dir' PROVE want' = Nothing
    <3>1. ~dir
      BY <2>1 DEF disk
    <3> QED
      BY <3>1 DEF DatasetInv, RowInv
  <2> QED
    BY <2>1
<1>3. RowInv'
  BY <1>2 DEF RowInv
<1> QED
  BY <1>1, <1>3, RowChangesInv

\* A row is inserted, or the insert fails.
LEMMA InsertRowInv ==
    ASSUME DatasetInv, NEW c \in Call, InsertRow(c)
    PROVE  DatasetInv'
<1> USE DEF InsertRow, At
<1> DEFINE new == Assign(Defaults, call[c].entity)
           f == call[c].fields
<1>1. CallInv(c)
  BY DEF DatasetInv
<1>2. CASE row # None
  BY <1>2, AnswerInv DEF Ended
<1>3. CASE row = None
  <2>1. /\ call[c].entity \in Fields /\ f \in Fields
        /\ Defaults \in Fields /\ DOMAIN Defaults = Column
    <3>1. Defaults \in Meta
      BY DEF Defaults, Meta, CaptionType
    <3> QED
      BY <1>1, <3>1, MetaIs DEF CallInv, FieldsOf
  <2>2. /\ new \in Fields /\ DOMAIN new = Column \cup DOMAIN call[c].entity
        /\ \A k \in DOMAIN call[c].entity : new[k] = call[c].entity[k]
    BY <2>1, AssignFields
  <2> HIDE DEF new
  <2>3. new \in Meta /\ new # None
    BY <2>1, <2>2, FieldsHave, MetaIs, NoneAssumption
  <2>4. /\ RowSaved(c, new) /\ Answers(c, "done") /\ UNCHANGED <<op, crashed>>
        /\ row' = new
    BY <1>3 DEF RowSaved, RowChanges, new
  <2>5. want = Nothing /\ UNCHANGED <<dir, risk>>
    BY <1>3, <2>4 DEF DatasetInv, RowInv, AcknowledgedKept, RowSaved, disk
  <2>6. \/ want' = Nothing
        \/ want' = new
        \/ want' = f /\ DOMAIN f \subseteq DOMAIN call[c].entity
             /\ \A k \in DOMAIN f : f[k] = call[c].entity[k]
    <3>1. CASE ~dir
      <4>1. want' = want
        BY <2>3, <2>4, <3>1 DEF RowSaved
      <4> QED
        BY <2>5, <4>1
    <3>2. CASE dir /\ stale[c] /\ Updates(c)
      BY <2>3, <2>4, <3>2 DEF RowSaved
    <3>3. CASE dir /\ stale[c] /\ ~Updates(c)
      <4>1. want' = [k \in DOMAIN want |-> IF k = "captionType" THEN new[k] ELSE want[k]]
        BY <2>3, <2>4, <3>3 DEF RowSaved
      <4> QED
        BY <2>5, <4>1, NothingIs DEF Nothing
    <3>4. CASE dir /\ ~stale[c]
      <4>1. want' = Assign(want, f)
        BY <2>3, <2>4, <3>4 DEF RowSaved
      <4>2. Assign(Nothing, f) = f
        BY <2>1, FieldsHave, NothingIs DEF Assign
      <4>3. Updates(c) \/ f = Nothing
        BY <1>1 DEF CallInv, SeenOf
      <4> QED
        BY <1>1, <2>5, <4>1, <4>2, <4>3 DEF CallInv, SeenOf, Saving
    <3> QED
      BY <3>1, <3>2, <3>3, <3>4
  <2>7. (AcknowledgedKept /\ want \in Partial)'
    BY <2>1, <2>2, <2>3, <2>4, <2>6, NothingIs DEF AcknowledgedKept, Fields
  <2>8. RowHasDirectory'
    <3>1. RowWriter(c) /\ InFlight(c)
      BY <1>1 DEF CallInv, StagesOf, Saving, RowWriter, InFlight, FirstStage, Updates, Unpacker,
         Ended
    <3>2. dir \/ risk
      BY <1>1, <3>1 DEF CallInv, DirOf
    <3> QED
      BY <2>5, <3>2 DEF RowHasDirectory
  <2> QED
    BY <2>3, <2>4, <2>7, <2>8, RowSavedInv
<1> QED
  BY <1>2, <1>3

\* The columns of an update that has seen the row are those of its fields.
LEMMA UpdateKeeps ==
    ASSUME DatasetInv, NEW c \in Call, At(c, "update"), row # None
    PROVE  LET new == [k \in Column |-> IF k \in call[c].cols
                                        THEN call[c].entity[k] ELSE row[k]]
               f == call[c].fields
           IN  /\ new \in Meta /\ new # None
               /\ Updates(c) /\ ~stale[c] =>
                    \A k \in Column : new[k] = IF k \in DOMAIN f THEN f[k] ELSE row[k]
               /\ ~Updates(c) => \A k \in Column \ {"captionType"} : new[k] = row[k]
               /\ ~Updates(c) /\ ~call[c].isNew => \A k \in Column : new[k] = row[k]
<1> DEFINE new == [k \in Column |-> IF k \in call[c].cols THEN call[c].entity[k] ELSE row[k]]
           f == call[c].fields
<1>1. /\ call[c].entity \in Fields /\ f \in Fields /\ SeenOf(c)
      /\ call[c].cols \subseteq DOMAIN call[c].entity
      /\ row \in Fields /\ DOMAIN row = Column
  BY MetaIs DEF DatasetInv, DatasetTypeOK, CallInv, FieldsOf
<1>2. new = [k \in Column |-> new[k]] /\ \A k \in Column : new[k] \in Value(k)
  BY <1>1, FieldsHave
<1>3. new \in Meta /\ new # None
  <2> HIDE DEF new
  <2>1. new \in Fields /\ DOMAIN new = Column
    BY <1>2, FieldsAre
  <2> QED
    BY <2>1, MetaIs, NoneAssumption
<1>4. ASSUME Updates(c), ~stale[c], NEW k \in Column
      PROVE  new[k] = IF k \in DOMAIN f THEN f[k] ELSE row[k]
  <2>1. /\ call[c].entity = Assign(row, f)
        /\ call[c].cols = {j \in Column : call[c].entity[j] # row[j]}
    BY <1>1, <1>4 DEF SeenOf, Saving, At
  <2>2. new[k] = call[c].entity[k]
    BY <2>1
  <2>3. Assign(row, f)[k] = IF k \in DOMAIN f THEN f[k] ELSE row[k]
    <3>1. row \in Fields /\ f \in Fields /\ k \in DOMAIN row \cup DOMAIN f
      BY <1>1, <1>4
    <3> HIDE DEF f
    <3> QED
      BY <3>1, AssignFields
  <2> QED
    BY <2>1, <2>2, <2>3
<1>5. ASSUME ~Updates(c) PROVE \A k \in Column \ {"captionType"} : new[k] = row[k]
  BY <1>1, <1>5 DEF SeenOf, Saving, At
<1>6. ASSUME ~Updates(c), ~call[c].isNew PROVE \A k \in Column : new[k] = row[k]
  BY <1>1, <1>6, NothingIs DEF SeenOf, Saving, At
<1> QED
  BY <1>3, <1>4, <1>5, <1>6

\* Columns of the row are updated.
LEMMA UpdateRowInv ==
    ASSUME DatasetInv, NEW c \in Call, UpdateRow(c)
    PROVE  DatasetInv'
<1> USE DEF UpdateRow
<1> DEFINE new == [k \in Column |-> IF k \in call[c].cols THEN call[c].entity[k] ELSE row[k]]
           f == call[c].fields
<1>1. CallInv(c) /\ ~At(c, "delete") /\ f \in Fields
  BY DEF DatasetInv, CallInv, FieldsOf, At
<1>2. CASE row = None
  <2>1. RowSaved(c, None)
    BY <1>2
  <2>2. row' = None /\ want' = want /\ UNCHANGED <<dir, risk>>
    BY <2>1, NoneAssumption DEF RowSaved, RowChanges, disk
  <2>3. RowHasDirectory' /\ (AcknowledgedKept /\ want \in Partial)'
    BY <1>2, <2>2 DEF RowHasDirectory, AcknowledgedKept, DatasetInv, DatasetTypeOK, RowInv
  <2> QED
    BY <1>1, <2>1, <2>3, RowSavedInv
<1>3. CASE row # None
  <2>1. RowSaved(c, new)
    BY <1>3
  <2>2. /\ new \in Meta /\ new # None
        /\ Updates(c) /\ ~stale[c] =>
             \A k \in Column : new[k] = IF k \in DOMAIN f THEN f[k] ELSE row[k]
        /\ ~Updates(c) => \A k \in Column \ {"captionType"} : new[k] = row[k]
        /\ ~Updates(c) /\ ~call[c].isNew => \A k \in Column : new[k] = row[k]
    BY <1>3, UpdateKeeps
  <2> HIDE DEF new
  <2>3. row' = new /\ UNCHANGED <<dir, risk>>
    BY <2>1 DEF RowSaved, RowChanges, disk
  <2>4. want \in Partial /\ DOMAIN want \subseteq Column /\ \A k \in DOMAIN want : row[k] = want[k]
    BY <1>3 DEF DatasetInv, DatasetTypeOK, RowInv, AcknowledgedKept, Partial
  <2>5. want' \in Partial /\ \A k \in DOMAIN want' : new[k] = want'[k]
    <3>1. CASE ~dir
      <4>1. want' = want
        BY <2>1, <2>2, <3>1 DEF RowSaved
      <4>2. want = Nothing
        BY <3>1 DEF DatasetInv, RowInv
      <4> QED
        BY <4>1, <4>2, NothingIs DEF Fields
    <3>2. CASE dir /\ stale[c] /\ Updates(c)
      BY <2>1, <2>2, <3>2, MetaIs DEF RowSaved, Fields
    <3>3. CASE dir /\ stale[c] /\ ~Updates(c)
      <4>1. want' = [k \in DOMAIN want |-> IF k = "captionType" THEN new[k] ELSE want[k]]
        BY <2>1, <2>2, <3>3 DEF RowSaved
      <4>2. \A k \in DOMAIN want : new[k] = want'[k]
        BY <2>2, <2>4, <3>3, <4>1
      <4>3. \A k \in Column : new[k] \in CaptionType \cup Call \cup {None}
        BY <2>2, MetaIs, FieldsHave, ValuesTyped
      <4>4. want' \in [DOMAIN want -> CaptionType \cup Call \cup {None}]
        BY <2>4, <4>1, <4>2, <4>3
      <4> QED
        BY <2>4, <4>1, <4>2, <4>4 DEF Partial
    <3>4. CASE dir /\ ~stale[c]
      <4>1. want' = Assign(want, f)
        BY <2>1, <2>2, <3>4 DEF RowSaved
      <4>2. DOMAIN want' = DOMAIN want \cup DOMAIN f /\ DOMAIN want' \subseteq Column
        BY <1>1, <2>4, <4>1, FieldsHave DEF Assign
      <4>3. \A k \in DOMAIN want' : want'[k] = IF k \in DOMAIN f THEN f[k] ELSE want[k]
        BY <4>1 DEF Assign
      <4>4. \A k \in DOMAIN want' : new[k] = want'[k]
        <5>1. CASE Updates(c)
          BY <2>2, <2>4, <3>4, <4>2, <4>3, <5>1
        <5>2. CASE ~Updates(c) /\ call[c].isNew
          <6>1. want = Nothing /\ f = Nothing
            BY <1>1, <3>4, <5>2 DEF CallInv, SeenOf
          <6> QED
            BY <4>2, <6>1, NothingIs
        <5>3. CASE ~Updates(c) /\ ~call[c].isNew
          <6>1. f = Nothing /\ \A k \in Column : new[k] = row[k]
            BY <1>1, <2>2, <5>3 DEF CallInv, SeenOf
          <6> QED
            BY <2>4, <4>2, <4>3, <6>1, NothingIs
        <5> QED
          BY <5>1, <5>2, <5>3
      <4>5. \A k \in Column : new[k] \in CaptionType \cup Call \cup {None}
        BY <2>2, MetaIs, FieldsHave, ValuesTyped
      <4>6. want' \in [DOMAIN want' -> CaptionType \cup Call \cup {None}]
        BY <4>1, <4>2, <4>4, <4>5 DEF Assign
      <4> QED
        BY <4>2, <4>4, <4>6 DEF Partial
    <3> QED
      BY <3>1, <3>2, <3>3, <3>4
  <2>6. (AcknowledgedKept /\ want \in Partial)'
    BY <2>2, <2>3, <2>5 DEF AcknowledgedKept
  <2>7. RowHasDirectory'
    <3>1. \A d \in Call : At(d, "delete") => At(d, "delete")'
      BY <1>1 DEF Answers, Becomes, At, DatasetInv, DatasetTypeOK
    <3> QED
      BY <1>3, <2>3, <3>1 DEF RowHasDirectory, DatasetInv, RowInv
  <2> QED
    BY <1>1, <2>1, <2>2, <2>6, <2>7, RowSavedInv
<1> QED
  BY <1>2, <1>3

-----------------------------------------------------------------------------
(* All steps of the requests *)

\* The API dies: its calls are over.
LEMMA LostInv ==
    ASSUME DatasetInv, CallsLost, crashed' = TRUE,
           risk' = (risk \/ \E c \in Call : At(c, "delete")),
           UNCHANGED <<disk, row, op, before, touched, marked, stale, want>>
    PROVE  DatasetInv'
<1> USE DEF disk
<1>1. \A c \in Call : call'[c] = IF InFlight(c) THEN [Fresh EXCEPT !.at = "lost"] ELSE call[c]
  BY DEF CallsLost
<1>2. DatasetTypeOK'
  <2>1. \A c \in Call : call'[c] \in CallRecord /\ call'[c].tags <= call'[c].sampled
    <3> TAKE c \in Call
    <3>1. CASE InFlight(c)
      <4>1. call'[c] = [Fresh EXCEPT !.at = "lost"] /\ "lost" \in Ended \cup {"idle"}
        BY <1>1, <3>1 DEF Ended
      <4> QED
        BY <4>1, OverTyped
    <3>2. CASE ~InFlight(c)
      BY <1>1, <3>2 DEF DatasetInv, DatasetTypeOK
    <3> QED
      BY <3>1, <3>2
  <2>2. call' \in [Call -> CallRecord]
    BY <2>1 DEF CallsLost
  <2>3. risk' \in BOOLEAN
    BY DEF DatasetInv, DatasetTypeOK
  <2> QED
    BY <2>1, <2>2, <2>3 DEF DatasetInv, DatasetTypeOK
<1>3. TextInv' /\ RowInv'
  BY DEF DatasetInv, TextInv, RowInv, RowHasDirectory, AcknowledgedKept
<1>4. ASSUME NEW c \in Call PROVE CallInv(c)'
  <2>1. CASE InFlight(c)
    BY <1>1, <2>1, OverKnows DEF Ended
  <2>2. CASE ~InFlight(c)
    <3>1. CallInv(c) /\ call'[c] = call[c]
      BY <1>1, <2>2 DEF DatasetInv
    <3> QED
      BY <2>2, <3>1 DEF CallInv, StagesOf, TodoOf, FieldsOf, HoldOf, ReachOf, DirOf, SeenOf,
         At, Prepends, InFlight, RowWriter, Updates
  <2> QED
    BY <2>1, <2>2
<1> QED
  BY <1>2, <1>3, <1>4 DEF DatasetInv

\* A request goes on.
LEMMA ProceedsInv ==
    ASSUME DatasetInv, NEW c \in Call, Proceeds(c) \/ NotFound(c)
    PROVE  DatasetInv'
<1>1. ASSUME NEW f \in Image \cup Stem, WriteFile(c, f) PROVE DatasetInv'
  BY <1>1, WriteFileInv
<1>2. ASSUME NEW s \in Stem, SampleCaption(c, s) PROVE DatasetInv'
  BY <1>2, SampleCaptionInv
<1>3. ASSUME NEW i \in Image, ReadCaption(c, i) PROVE DatasetInv'
  BY <1>3, ReadCaptionInv
<1>4. CASE Mkdir(c) \/ FilesWritten(c) \/ AssertAgain(c) \/ ListDir(c) \/ SampleDone(c)
  BY <1>4, MkdirInv, FilesWrittenInv, AssertAgainInv, ListDirInv, SampleDoneInv
<1>5. CASE FindRow(c) \/ SelectRow(c) \/ InsertRow(c) \/ UpdateRow(c)
  BY <1>5, FindRowInv, SelectRowInv, InsertRowInv, UpdateRowInv
<1>6. CASE RmFiles(c) \/ RmDir(c) \/ DeleteRow(c) \/ DeleteRowFails(c)
  BY <1>6, RmFilesInv, RmDirInv, DeleteRowInv, DeleteRowFailsInv
<1>7. CASE AccessImage(c) \/ WriteTarget(c) \/ UnlinkImage(c) \/ UnlinkCaption(c)
           \/ RewriteCaption(c)
  BY <1>7, AccessImageInv, WriteTargetInv, UnlinkImageInv, UnlinkCaptionInv, RewriteCaptionInv
<1>8. CASE WriteFails(c) \/ ListFails(c) \/ RmDirFails(c) \/ RewriteFails(c) \/ NotFound(c)
  BY <1>8, AnswerInv DEF WriteFails, ListFails, RmDirFails, RewriteFails, NotFound, At, Ended
<1>9. CASE PrependDone(c)
  BY <1>9, AnswerInv DEF PrependDone, At, Ended
<1> QED
  BY <1>1, <1>2, <1>3, <1>4, <1>5, <1>6, <1>7, <1>8, <1>9 DEF Proceeds

\* A request begins.
LEMMA BeginsInv ==
    ASSUME DatasetInv, NEW c \in Call, Uploads(c) \/ Requests(c)
    PROVE  DatasetInv'
<1>1. CASE Uploads(c)
  BY <1>1, UploadBeginsInv DEF Uploads, Unpacker
<1>2. CASE AssertExists(c)
  BY <1>2, AssertExistsInv
<1>3. CASE NotFound(c)
  BY <1>3, ProceedsInv
<1> QED
  BY <1>1, <1>2, <1>3 DEF Requests

\* Nothing changes for the requests.
LEMMA DatasetFrame == DatasetInv /\ UNCHANGED datasetVars => DatasetInv'
<1> SUFFICES ASSUME DatasetInv, UNCHANGED datasetVars PROVE DatasetInv'
  OBVIOUS
<1>1. UNCHANGED <<dir, images, text, row, op, call, crashed, before, touched, marked, stale, want, risk>>
  BY DEF datasetVars, disk, history
<1>2. DatasetTypeOK'
  BY <1>1 DEF DatasetInv, DatasetTypeOK
<1>3. TextInv' /\ RowInv'
  BY <1>1 DEF DatasetInv, TextInv, RowInv, RowHasDirectory, AcknowledgedKept, At
<1>4. ASSUME NEW d \in Call PROVE CallInv(d)'
  <2>1. CallInv(d) /\ call'[d] = call[d]
    BY <1>1 DEF DatasetInv
  <2>2. StagesOf(d)' /\ TodoOf(d)' /\ FieldsOf(d)' /\ HoldOf(d)'
    BY <1>1, <2>1, OwnStays, HoldStays
  <2>3. ReachOf(d)'
    BY <1>1, <2>1, ReachStays
  <2>4. DirOf(d)' /\ SeenOf(d)'
    BY <1>1, <2>1, DirStays, SeenStays
  <2> QED
    BY <2>2, <2>3, <2>4 DEF CallInv
<1> QED
  BY <1>1, <1>2, <1>3, <1>4 DEF DatasetInv

-----------------------------------------------------------------------------
(* The steps of a session *)

\* Nothing changes for the session.
LEMMA SessionFrame ==
    ASSUME SessionInv, DatasetTypeOK', UNCHANGED <<op, sessionVars, part, had, raced>>
    PROVE  SessionInv'
BY DEF SessionInv, UploadTypeOK, SessionGone, Standing, Removing, sessionVars

\* One part moves on, and nothing is taken out of the session.
LEMMA PartStepInv ==
    ASSUME SessionInv, DatasetTypeOK', NEW c \in Call, NEW p \in Part, part' = [part EXCEPT ![c] = p],
           UNCHANGED <<op, session, had, raced>>,
           chunks \subseteq chunks', chunks' \subseteq Chunk, zip' \in Call \cup {None},
           whole' \in BOOLEAN, whole' => zip' # None, ~session => chunks' = {} /\ zip' = None,
           Standing(c, "removing") => p.at = "removing",
           p.at = "assembling" => Standing(c, "assembling"),
           p.at = "storing" => op[c] = "chunk" /\ p.next \in Chunk,
           p.at \in Completing => op[c] = "complete",
           p.at \in {"done", "failed"} => p.at = part[c].at \/ op[c] # "complete"
    PROVE  SessionInv'
<1> USE DEF SessionInv, Standing
<1>1. /\ part' \in [Call -> Part] /\ part'[c] = p
      /\ \A d \in Call \ {c} : part'[d] = part[d]
  BY DEF UploadTypeOK
<1>2. UploadTypeOK'
  BY <1>1 DEF UploadTypeOK
<1>3. Removing => Removing'
  <2> SUFFICES ASSUME NEW d \in Call, part[d].at = "removing" PROVE part'[d].at = "removing"
    BY DEF Removing
  <2> QED
    BY <1>1
<1>4. SessionGone'
  BY <1>1 DEF SessionGone
<1> QED
  BY <1>1, <1>2, <1>3, <1>4

\* Only the stage of a part changes, to one that asks nothing of the session.
LEMMA MovesInv ==
    ASSUME SessionInv, DatasetTypeOK', NEW c \in Call, NEW stage, Moves(c, stage),
           stage \in {"extract", "opening", "unpacking", "cleaning", "refused", "unwritten"},
           stage \in Completing => op[c] = "complete", ~Standing(c, "removing"),
           UNCHANGED <<op, sessionVars, had, raced>>
    PROVE  SessionInv'
<1> DEFINE p == [part[c] EXCEPT !.at = stage]
<1>1. p \in Part /\ p.at = stage
  BY DEF SessionInv, UploadTypeOK, Part, Completing, Settled
<1>2. part' = [part EXCEPT ![c] = p]
  BY DEF Moves
<1> HIDE DEF p
<1> QED
  BY <1>1, <1>2, PartStepInv DEF SessionInv, UploadTypeOK, Completing, sessionVars

\* A chunk is on its way to the directory.
LEMMA ChunkAcceptedInv ==
    ASSUME SessionInv, DatasetTypeOK', NEW c \in Call, NEW i \in Chunk, ChunkAccepted(c, i),
           op[c] = "chunk", UNCHANGED op
    PROVE  SessionInv'
<1> USE DEF SessionInv, ChunkAccepted, Standing
<1> DEFINE g == [Unsent EXCEPT !.at = "storing"]
           r == [Unsent EXCEPT !.at = "storing", !.next = i]
<1>1. r \in Part /\ r.at = "storing" /\ r.next = i
  <2>1. g \in Part
    BY UnsentTyped DEF Part
  <2>2. r = [g EXCEPT !.next = i] /\ i \in 0..Chunks
    BY ChunksAssumption DEF Chunk
  <2>3. r.at = "storing" /\ r.next = i
    BY DEF Unsent
  <2> HIDE DEF g, r
  <2>4. r \in Part
    BY <2>1, <2>2 DEF Part
  <2> QED
    BY <2>3, <2>4
<1>2. part' = [part EXCEPT ![c] = r]
  OBVIOUS
<1>3. UNCHANGED <<op, session, chunks, zip, whole, had, raced>> /\ ~Standing(c, "removing")
  BY DEF sessionVars
<1>4. chunks' \subseteq Chunk /\ zip' \in Call \cup {None} /\ whole' \in BOOLEAN /\ (whole' => zip' # None)
      /\ (~session => chunks' = {} /\ zip' = None)
  BY <1>3 DEF UploadTypeOK
<1> HIDE DEF r
<1> QED
  BY <1>1, <1>2, <1>3, <1>4, PartStepInv DEF Completing

\* A chunk is stored, or the session has gone.
LEMMA StoreChunkInv ==
    ASSUME SessionInv, DatasetTypeOK', NEW c \in Call, StoreChunk(c), UNCHANGED op
    PROVE  SessionInv'
<1> USE DEF SessionInv, StoreChunk, Standing, Moves
<1>1. op[c] = "chunk" /\ had' = had /\ raced' = raced /\ session' = session /\ zip' = zip /\ whole' = whole
  OBVIOUS
<1>2. chunks \subseteq chunks' /\ chunks' \subseteq Chunk /\ (~session => chunks' = chunks)
  <2>1. part[c].next \in Chunk
    OBVIOUS
  <2> QED
    BY <2>1 DEF UploadTypeOK
<1>3. PICK s \in {"done", "failed"} : part' = [part EXCEPT ![c].at = s]
  OBVIOUS
<1> DEFINE p == [part[c] EXCEPT !.at = s]
<1>4. p \in Part /\ p.at = s
  BY DEF UploadTypeOK, Part, Settled
<1>5. part' = [part EXCEPT ![c] = p]
  BY <1>3
<1> HIDE DEF p
<1>6. /\ zip' \in Call \cup {None} /\ whole' \in BOOLEAN /\ (whole' => zip' # None)
      /\ (~session => chunks' = {} /\ zip' = None)
  BY <1>1, <1>2 DEF UploadTypeOK
<1>7. p.at \notin Completing /\ p.at # "storing" /\ part[c].at = "storing"
  BY <1>4 DEF Completing
<1> QED
  BY <1>1, <1>2, <1>4, <1>5, <1>6, <1>7, PartStepInv DEF Completing

LEMMA BeginTyped ==
    ASSUME NEW q \in Part, NEW n \in 0..Chunks
    PROVE  LET r == [q EXCEPT !.at = "assembling", !.total = n, !.stream = "opening"]
           IN  r \in Part /\ r.at = "assembling"
BY DEF Part

\* A completion begins with the chunks that are there.
LEMMA CompleteBeginsInv ==
    ASSUME SessionInv, DatasetTypeOK', NEW c \in Call, NEW n \in 1..Chunks, CompleteBegins(c, n),
           op[c] = "complete", UNCHANGED op
    PROVE  SessionInv'
<1> USE DEF SessionInv, CompleteBegins, Standing
<1> DEFINE r == [Unsent EXCEPT !.at = "assembling", !.total = n, !.stream = "opening"]
<1>1. r \in Part /\ r.at = "assembling"
  <2> HIDE DEF SessionInv, CompleteBegins, Standing
  <2>1. n \in 0..Chunks
    BY ChunksAssumption
  <2> QED
    BY <2>1, UnsentTyped, BeginTyped
<1>2. part' = [part EXCEPT ![c] = r] /\ had' = [had EXCEPT ![c] = chunks]
  OBVIOUS
<1> HIDE DEF r
<1>3. UploadTypeOK'
  BY <1>1, <1>2 DEF UploadTypeOK, sessionVars
<1>4. Removing => Removing'
  BY <1>2 DEF Removing, UploadTypeOK
<1> QED
  BY <1>1, <1>2, <1>3, <1>4 DEF UploadTypeOK, SessionGone, Completing, sessionVars

LEMMA OpenZipInv ==
    ASSUME SessionInv, DatasetTypeOK', NEW c \in Call, OpenZip(c), UNCHANGED op
    PROVE  SessionInv'
<1> USE DEF SessionInv, OpenZip, Standing
<1>1. PICK w \in {"none", "open"} : part' = [part EXCEPT ![c].stream = w]
  OBVIOUS
<1> DEFINE p == [part[c] EXCEPT !.stream = w]
<1>2. p \in Part /\ p.at = part[c].at /\ p.next = part[c].next
  BY DEF UploadTypeOK, Part
<1>3. part' = [part EXCEPT ![c] = p]
  BY <1>1
<1>4. chunks' \subseteq Chunk /\ zip' \in Call \cup {None} /\ whole' \in BOOLEAN /\ (whole' => zip' # None)
      /\ session
  BY NoneAssumption DEF UploadTypeOK
<1>5. /\ p.at = "storing" => op[c] = "chunk" /\ p.next \in Chunk
      /\ p.at \in Completing => op[c] = "complete"
      /\ Standing(c, "removing") => p.at = "removing"
      /\ p.at = "assembling" => Standing(c, "assembling")
  BY <1>2 DEF UploadTypeOK
<1>6. UNCHANGED <<session, chunks, had, raced>>
  OBVIOUS
<1>7. p.at \in {"done", "failed"} => p.at = part[c].at \/ op[c] # "complete"
  BY <1>2
<1> HIDE DEF p, SessionInv, OpenZip, Standing
<1> QED
  BY <1>2, <1>3, <1>4, <1>5, <1>6, <1>7, PartStepInv

\* A chunk is read; or it is missing, and the completion is given up.
LEMMA ReadChunkInv ==
    ASSUME SessionInv, DatasetTypeOK', NEW c \in Call, ReadChunk(c), UNCHANGED op
    PROVE  SessionInv'
<1> USE DEF SessionInv, ReadChunk, Standing
<1>1. op[c] = "complete" /\ UNCHANGED <<sessionVars, had, raced>>
  BY DEF Completing
<1>4. /\ UNCHANGED <<session, chunks, zip, whole>> /\ part[c].at = "assembling"
      /\ chunks \subseteq Chunk /\ zip \in Call \cup {None} /\ whole \in BOOLEAN
      /\ (whole => zip # None) /\ (~session => chunks = {} /\ zip = None)
  BY DEF UploadTypeOK, sessionVars
<1>2. CASE part[c].next \notin chunks
  <2>1. PICK w \in {"none", "opening"} :
           part' = [part EXCEPT ![c].at = "cleaning", ![c].stream = w]
    BY <1>2 DEF GivesUp
  <2> DEFINE p == [part[c] EXCEPT !.at = "cleaning", !.stream = w]
  <2>2. p \in Part /\ p.at = "cleaning"
    BY DEF UploadTypeOK, Part
  <2>3. part' = [part EXCEPT ![c] = p]
    BY <2>1 DEF UploadTypeOK
  <2> HIDE DEF p
  <2> QED
    BY <1>1, <1>4, <2>2, <2>3, PartStepInv DEF Completing
<1>3. CASE part[c].next \in chunks
  <2> DEFINE p == [part[c] EXCEPT !.next = @ + 1]
  <2>1. part[c].next + 1 \in 0..Chunks
    BY ChunksAssumption DEF UploadTypeOK, Part
  <2>2. p \in Part /\ p.at = part[c].at
    BY <2>1 DEF UploadTypeOK, Part
  <2>3. part' = [part EXCEPT ![c] = p]
    BY <1>3
  <2> HIDE DEF p
  <2> QED
    BY <1>1, <1>4, <2>2, <2>3, PartStepInv DEF Completing
<1> QED
  BY <1>2, <1>3

LEMMA EndTyped ==
    ASSUME NEW q \in Part, NEW s \in {"extract", "unwritten"}
    PROVE  LET p == [q EXCEPT !.at = s, !.stream = "none"] IN p \in Part /\ p.at = s
BY DEF Part, Settled

\* The stream has finished, or failed.
LEMMA StreamEndsInv ==
    ASSUME SessionInv, DatasetTypeOK', NEW c \in Call, Assembled(c) \/ StreamFails(c), UNCHANGED op
    PROVE  SessionInv'
<1> USE DEF SessionInv, Assembled, StreamFails, Heard, Standing
<1>1. op[c] = "complete" /\ UNCHANGED <<session, chunks, zip, had, raced>>
  BY DEF Completing, sessionVars
<1>2. whole' \in BOOLEAN /\ (whole' => zip # None)
  <2>1. CASE StreamFails(c)
    BY <2>1 DEF UploadTypeOK, sessionVars
  <2>2. CASE Assembled(c)
    <3>1. PICK all \in BOOLEAN : /\ all => zip # None
                                 /\ whole' \in IF zip = c THEN {all} ELSE {whole, whole \/ all}
      BY <2>2
    <3> QED
      BY <3>1 DEF UploadTypeOK
  <2> QED
    BY <2>1, <2>2
<1>3. PICK s \in {"extract", "unwritten"} :
         part' = [part EXCEPT ![c].at = s, ![c].stream = "none"]
  OBVIOUS
<1> DEFINE p == [part[c] EXCEPT !.at = s, !.stream = "none"]
<1>4. p \in Part /\ p.at = s
  <2>1. part[c] \in Part
    BY DEF UploadTypeOK
  <2> HIDE DEF SessionInv, Assembled, StreamFails, Heard, Standing
  <2> QED
    BY <2>1, EndTyped
<1>5. part' = [part EXCEPT ![c] = p]
  BY <1>3 DEF UploadTypeOK
<1> HIDE DEF p
<1> QED
  BY <1>1, <1>2, <1>4, <1>5, PartStepInv DEF UploadTypeOK, Completing

\* The files of the session are unlinked.
LEMMA SweepInv ==
    ASSUME SessionInv, DatasetTypeOK', NEW c \in Call, Sweep(c), UNCHANGED op
    PROVE  SessionInv'
<1> USE DEF SessionInv, Sweep, Standing, Moves, Unpacked
<1> DEFINE p == [part[c] EXCEPT !.at = "removing"]
<1>1. /\ op[c] = "complete" /\ UNCHANGED <<session, had, raced>>
      /\ chunks' = {} /\ zip' = None /\ whole' = FALSE
  BY DEF Completing
<1>2. p \in Part /\ p.at = "removing"
  BY DEF UploadTypeOK, Part, Completing
<1>3. part' = [part EXCEPT ![c] = p]
  OBVIOUS
<1> HIDE DEF p
<1>4. /\ part' \in [Call -> Part] /\ part'[c] = p
      /\ \A d \in Call \ {c} : part'[d] = part[d]
  BY <1>2, <1>3 DEF UploadTypeOK
<1>5. UploadTypeOK'
  BY <1>1, <1>4 DEF UploadTypeOK
<1>6. Removing'
  BY <1>2, <1>4 DEF Removing
<1> QED
  BY <1>1, <1>2, <1>4, <1>5, <1>6 DEF SessionGone

\* The directory of the session is removed, or is not empty any more.
LEMMA CleanInv ==
    ASSUME SessionInv, DatasetTypeOK', NEW c \in Call, Clean(c), UNCHANGED op
    PROVE  SessionInv'
<1> USE DEF SessionInv, Clean, Standing, Moves
<1> DEFINE p == [part[c] EXCEPT !.at = Outcome(c)]
<1>1. op[c] = "complete" /\ UNCHANGED <<chunks, zip, whole, had>>
  BY DEF Completing
<1>2. /\ (~session' \/ raced') /\ (raced => raced') /\ (~session => ~session')
      /\ (~session' => chunks = {} /\ zip = None)
      /\ session' \in BOOLEAN /\ raced' \in BOOLEAN
  BY DEF UploadTypeOK
<1>3. Outcome(c) \in {"done", "failed"}
  BY DEF Outcome
<1>4. p \in Part /\ p.at \in {"done", "failed"}
  BY <1>3 DEF UploadTypeOK, Part, Settled
<1>5. part' = [part EXCEPT ![c] = p]
  OBVIOUS
<1> HIDE DEF p
<1>6. /\ part' \in [Call -> Part] /\ part'[c] = p
      /\ \A d \in Call \ {c} : part'[d] = part[d]
  BY <1>4, <1>5 DEF UploadTypeOK
<1>7. UploadTypeOK'
  BY <1>1, <1>2, <1>6 DEF UploadTypeOK
<1> QED
  BY <1>1, <1>2, <1>4, <1>6, <1>7 DEF SessionGone, Completing

\* The API dies: all parts that were busy are lost.
LEMMA AllLostInv ==
    ASSUME SessionInv, DatasetTypeOK', AllLost
    PROVE  SessionInv'
<1> USE DEF SessionInv, AllLost
<1>1. \A c \in Call : part'[c] = IF Busy(c) THEN [Unsent EXCEPT !.at = "lost"]
                                 ELSE [part[c] EXCEPT !.stream = "none"]
  OBVIOUS
<1>2. [Unsent EXCEPT !.at = "lost"] \in Part /\ [Unsent EXCEPT !.at = "lost"].at = "lost"
  BY UnsentTyped DEF Part, Settled
<1>3. \A c \in Call : LET p == [part[c] EXCEPT !.stream = "none"] IN p \in Part /\ p.at = part[c].at
  BY DEF UploadTypeOK, Part
<1>4. \A c \in Call : /\ part'[c] \in Part
                      /\ part'[c].at = IF Busy(c) THEN "lost" ELSE part[c].at
  BY <1>1, <1>2, <1>3
<1>5. \A c \in Call : part'[c].at \in {"idle"} \cup Settled
  BY <1>4 DEF Busy, Settled
<1>6. UploadTypeOK'
  BY <1>4 DEF UploadTypeOK, sessionVars
<1>7. SessionGone'
  BY <1>4 DEF SessionGone, sessionVars
<1> QED
  BY <1>5, <1>6, <1>7 DEF Standing, Completing, Settled

-----------------------------------------------------------------------------
(* All steps *)

\* What the requests ask for is settled when they are sent.
LEMMA OpStays == UploadNext => UNCHANGED op
<1> USE DEF datasetVars
<1>1. ASSUME NEW c \in Call, Proceeds(c) \/ Uploads(c) \/ Requests(c) PROVE UNCHANGED op
  BY <1>1 DEF Proceeds, Uploads, Requests, UploadBegins, AssertExists, NotFound, Mkdir, WriteFile,
     WriteFails, FilesWritten, AssertAgain, ListDir, ListFails, SampleCaption, SampleDone, FindRow,
     SelectRow, InsertRow, UpdateRow, RmFiles, RmDir, RmDirFails, DeleteRow, DeleteRowFails,
     AccessImage, WriteTarget, UnlinkImage, UnlinkCaption, ReadCaption, RewriteCaption,
     RewriteFails, PrependDone
<1>2. ASSUME NEW c \in Call, Unpacks(c) PROVE Proceeds(c)
  BY <1>2 DEF Unpacks, Proceeds
<1>3. ASSUME NEW c \in Call, SessionProceeds(c) PROVE UNCHANGED op
  <2>1. CASE Extract(c)
    BY <2>1 DEF Extract, UploadBegins
  <2>2. CASE Unpacks(c)
    BY <1>1, <1>2, <2>2
  <2>3. CASE OpenUnheard(c) \/ ZipFails(c)
    BY <2>3 DEF OpenUnheard, AllLost, ZipFails
  <2> QED
    BY <1>3, <2>1, <2>2, <2>3 DEF SessionProceeds, StoreChunk, OpenZip, ReadChunk, Assembled,
       StreamFails, Conflict, ListZip, Sweep, Clean
<1>4. ASSUME NEW c \in Call, ChunkStep(c) \/ CompleteStep(c) PROVE UNCHANGED op
  BY <1>4 DEF ChunkStep, CompleteStep, ChunkAccepted, Refused, CompleteBegins
<1>5. ASSUME NEW c \in Call, DatasetStep(c) PROVE UNCHANGED op
  BY <1>1, <1>5 DEF DatasetStep, NotFound
<1>6. CASE Dies
  BY <1>6 DEF Dies, AllLost
<1> QED
  BY <1>1, <1>3, <1>4, <1>5, <1>6 DEF UploadNext

\* A session goes on.
LEMMA SessionProceedsInv ==
    ASSUME UploadInv, NEW c \in Call, SessionProceeds(c), UNCHANGED op
    PROVE  UploadInv'
<1> USE DEF UploadInv
<1>1. ASSUME UNCHANGED datasetVars PROVE DatasetInv' /\ DatasetTypeOK'
  BY <1>1, DatasetFrame DEF DatasetInv
<1>2. CASE StoreChunk(c) \/ OpenZip(c) \/ ReadChunk(c) \/ Assembled(c) \/ StreamFails(c)
  <2>1. UNCHANGED datasetVars
    BY <1>2 DEF StoreChunk, OpenZip, ReadChunk, Assembled, StreamFails
  <2> QED
    BY <1>1, <1>2, <2>1, StoreChunkInv, OpenZipInv, ReadChunkInv, StreamEndsInv
<1>3. CASE Sweep(c) \/ Clean(c)
  <2>1. UNCHANGED datasetVars
    BY <1>3 DEF Sweep, Clean
  <2> QED
    BY <1>1, <1>3, <2>1, SweepInv, CleanInv
<1>4. CASE Conflict(c) \/ ListZip(c)
  <2>1. UNCHANGED datasetVars /\ op[c] = "complete" /\ ~Standing(c, "removing")
    BY <1>4 DEF Conflict, ListZip, SessionInv, Standing, Completing
  <2>2. DatasetTypeOK' /\ DatasetInv'
    BY <1>1, <2>1
  <2> QED
    BY <1>4, <2>1, <2>2, MovesInv DEF Conflict, ListZip
<1>5. CASE Extract(c)
  <2>1. op[c] = "complete" /\ ~Standing(c, "removing")
    BY <1>5 DEF Extract, SessionInv, Standing, Completing
  <2>2. DatasetInv' /\ DatasetTypeOK'
    BY <1>5, <2>1, UploadBeginsInv DEF Extract, DatasetInv, Unpacker
  <2> QED
    BY <1>5, <2>1, <2>2, MovesInv DEF Extract
<1>6. CASE ZipFails(c)
  <2>1. DatasetInv' /\ DatasetTypeOK'
    BY <1>6, AnswerInv DEF ZipFails, DatasetInv, At, Ended
  <2> QED
    BY <1>6, <2>1, SessionFrame DEF ZipFails
<1>7. CASE Unpacks(c)
  <2>1. Proceeds(c) /\ UNCHANGED <<sessionVars, part, had, raced>>
    BY <1>7 DEF Unpacks, Proceeds
  <2>2. DatasetInv' /\ DatasetTypeOK'
    BY <2>1, ProceedsInv DEF DatasetInv
  <2> QED
    BY <2>1, <2>2, SessionFrame
<1>8. CASE OpenUnheard(c)
  <2>1. AllLost
    BY <1>8 DEF OpenUnheard
  <2>2. DatasetInv' /\ DatasetTypeOK'
    BY <2>1, LostInv DEF AllLost, DatasetInv
  <2> QED
    BY <2>1, <2>2, AllLostInv
<1> QED
  BY <1>2, <1>3, <1>4, <1>5, <1>6, <1>7, <1>8 DEF SessionProceeds

LEMMA UploadNextInv == UploadInv /\ [UploadNext]_uploadVars => UploadInv'
<1> SUFFICES ASSUME UploadInv, [UploadNext]_uploadVars PROVE UploadInv'
  OBVIOUS
<1> USE DEF UploadInv
<1>1. ASSUME UNCHANGED datasetVars PROVE DatasetInv' /\ DatasetTypeOK'
  BY <1>1, DatasetFrame DEF DatasetInv
<1>2. CASE UNCHANGED uploadVars
  <2>1. UNCHANGED <<datasetVars, op, sessionVars, part, had, raced>>
    BY <1>2 DEF uploadVars, datasetVars
  <2> QED
    BY <1>1, <2>1, SessionFrame
<1>3. UploadNext => UNCHANGED op
  BY OpStays
<1>4. ASSUME NEW c \in Call, UploadNext, ChunkStep(c) \/ CompleteStep(c) PROVE UploadInv'
  <2>1. UNCHANGED <<datasetVars, op>>
    BY <1>3, <1>4 DEF ChunkStep, CompleteStep, ChunkAccepted, Refused, CompleteBegins
  <2>2. DatasetInv' /\ DatasetTypeOK'
    BY <1>1, <2>1
  <2>3. CASE Refused(c)
    BY <2>1, <2>2, <2>3, MovesInv DEF Refused, Standing, Completing
  <2>4. ASSUME op[c] = "chunk", NEW i \in Chunk, ChunkAccepted(c, i) PROVE UploadInv'
    BY <2>1, <2>2, <2>4, ChunkAcceptedInv
  <2>5. ASSUME op[c] = "complete", NEW n \in 1..Chunks, CompleteBegins(c, n) PROVE UploadInv'
    BY <2>1, <2>2, <2>5, CompleteBeginsInv
  <2> QED
    BY <1>4, <2>3, <2>4, <2>5 DEF ChunkStep, CompleteStep
<1>5. ASSUME NEW c \in Call, UploadNext, SessionProceeds(c) PROVE UploadInv'
  BY <1>3, <1>5, SessionProceedsInv
<1>6. ASSUME NEW c \in Call, UploadNext,
             DatasetStep(c) \/ ((Uploads(c) \/ Requests(c)) /\ UNCHANGED <<sessionVars, part, had, raced>>)
      PROVE  UploadInv'
  <2>1. UNCHANGED <<op, sessionVars, part, had, raced>>
    BY <1>3, <1>6 DEF DatasetStep
  <2>2. DatasetInv' /\ DatasetTypeOK'
    BY <1>6, ProceedsInv, BeginsInv DEF DatasetStep, DatasetInv
  <2> QED
    BY <2>1, <2>2, SessionFrame
<1>7. CASE Dies
  <2>1. AllLost
    BY <1>7 DEF Dies
  <2>2. DatasetInv' /\ DatasetTypeOK'
    BY <2>1, LostInv DEF AllLost, DatasetInv
  <2> QED
    BY <2>1, <2>2, AllLostInv
<1> QED
  BY <1>2, <1>4, <1>5, <1>6, <1>7 DEF UploadNext

\* The invariant of the dataset and its sessions, for any requests, files, chunks
\* and crashes.
THEOREM UploadInvariance == UploadSpec => []UploadInv
<1> QED
  BY InitInv, UploadNextInv, PTL DEF UploadSpec

-----------------------------------------------------------------------------
(* What follows for the requests *)

\* Whatever requests overlap, and wherever the API dies, every request stands at
\* a stage of its handler, nothing lies in a directory that is not there, and no
\* chunk or archive in a session that is not there.
THEOREM UploadTyped == UploadSpec => []UploadTypeOK
<1>1. UploadInv => UploadTypeOK
  BY DEF UploadInv, SessionInv
<1> QED
  BY <1>1, UploadInvariance, PTL

\* remove() leaves no row without its directory, but for the cases the property
\* names.
THEOREM RowIsNotLeft == UploadSpec => []RowHasDirectory
<1>1. UploadInv => RowHasDirectory
  BY DEF UploadInv, DatasetInv, RowInv
<1> QED
  BY <1>1, UploadInvariance, PTL

\* What updateMeta() has acknowledged stays in the row: through uploads,
\* detections, crashes, and saves of those that have not read an older row.
THEOREM MetaIsKept == UploadSpec => []AcknowledgedKept
<1>1. UploadInv => AcknowledgedKept
  BY DEF UploadInv, DatasetInv, RowInv
<1> QED
  BY <1>1, UploadInvariance, PTL

\* completeChunkedUpload() has removed the session when it answers, whatever it
\* answers, but for the cases the property names.
THEOREM SessionIsRemoved == UploadSpec => []SessionGone
<1>1. UploadInv => SessionGone
  BY DEF UploadInv, SessionInv
<1> QED
  BY <1>1, UploadInvariance, PTL

\* A step of a request is not one of another.
LEMMA OthersStand ==
    ASSUME NEW c \in Call, Proceeds(c) \/ Uploads(c) \/ Requests(c) \/ ZipFails(c) \/ Extract(c),
           NEW d \in Call \ {c}, DatasetTypeOK
    PROVE  call'[d] = call[d]
BY DEF DatasetTypeOK, Becomes, Goes, Answers, Begins, RequestBegins,
   Proceeds, Uploads, Requests, UploadBegins, AssertExists, NotFound, Mkdir, WriteFile,
   WriteFails, FilesWritten, AssertAgain, ListDir, ListFails, SampleCaption, SampleDone, FindRow,
   SelectRow, InsertRow, UpdateRow, RmFiles, RmDir, RmDirFails, DeleteRow, DeleteRowFails,
   AccessImage, WriteTarget, UnlinkImage, UnlinkCaption, ReadCaption, RewriteCaption,
   RewriteFails, PrependDone, ZipFails, Extract

\* Only its own end takes a prepend from reading to done.
LEMMA PrependEnds ==
    ASSUME UploadTypeOK, NEW c \in Call, At(c, "read"), call'[c].at = "done",
           UploadNext \/ UNCHANGED call
    PROVE  call[c].todo = {}
<1> USE DEF At
<1>1. DatasetTypeOK
  BY DEF UploadTypeOK
<1>2. ASSUME NEW d \in Call, Proceeds(d) \/ Uploads(d) \/ Requests(d) \/ ZipFails(d) \/ Extract(d)
      PROVE  d = c
  BY <1>1, <1>2, OthersStand
<1>3. ~Uploads(c) /\ ~Requests(c) /\ ~ZipFails(c) /\ ~Extract(c)
  BY DEF Uploads, Requests, UploadBegins, AssertExists, NotFound, ZipFails, Extract
<1>4. ~(\E i \in Image : ReadCaption(c, i))
  <2> SUFFICES ASSUME NEW i \in Image, ReadCaption(c, i) PROVE FALSE
    OBVIOUS
  <2> DEFINE r == [call[c] EXCEPT !.todo = @ \ {i}]
             w == [r EXCEPT !.at = "rewrite",
                            !.held = [stem |-> StemOf[i], caption |-> text[StemOf[i]]]]
  <2>1. r.at = "read" /\ w.at \in {"read", "rewrite"}
    BY <1>1 DEF DatasetTypeOK, CallRecord
  <2>2. call' = [call EXCEPT ![c] = r] \/ call' = [call EXCEPT ![c] = w]
    BY DEF ReadCaption, Becomes
  <2> HIDE DEF r, w
  <2> QED
    BY <1>1, <2>1, <2>2 DEF DatasetTypeOK
<1>5. Proceeds(c) => PrependDone(c)
  BY <1>4 DEF Proceeds, Mkdir, WriteFile, WriteFails, FilesWritten, AssertAgain, ListDir, ListFails,
     SampleCaption, SampleDone, FindRow, SelectRow, InsertRow, UpdateRow, RmFiles, RmDir, RmDirFails,
     DeleteRow, DeleteRowFails, AccessImage, WriteTarget, UnlinkImage, UnlinkCaption, RewriteCaption,
     RewriteFails
<1>6. ASSUME CallsLost PROVE FALSE
  BY <1>6 DEF CallsLost, Fresh
<1>7. ASSUME NEW d \in Call, Unpacks(d) PROVE Proceeds(d)
  BY <1>7 DEF Unpacks, Proceeds
<1>8. call' # call
  OBVIOUS
<1>9. ASSUME NEW d \in Call, SessionProceeds(d) PROVE Proceeds(d) \/ ZipFails(d) \/ Extract(d)
  BY <1>6, <1>7, <1>8, <1>9 DEF SessionProceeds, OpenUnheard, AllLost, StoreChunk, OpenZip, ReadChunk,
     Assembled, StreamFails, Conflict, ListZip, Sweep, Clean, datasetVars
<1>10. ASSUME NEW d \in Call, ChunkStep(d) \/ CompleteStep(d) PROVE FALSE
  BY <1>8, <1>10 DEF ChunkStep, CompleteStep, ChunkAccepted, Refused, CompleteBegins, datasetVars
<1>11. ~Dies
  BY <1>6 DEF Dies, AllLost
<1>12. PrependDone(c)
  BY <1>2, <1>3, <1>5, <1>8, <1>9, <1>10, <1>11 DEF UploadNext, DatasetStep, Requests
<1> QED
  BY <1>12 DEF PrependDone

\* prependToken() reaches every caption of the images it listed that nobody else
\* has touched since, with its text as it was, and calls that skip what they see
\* never put the token twice before a caption, however they overlap.
THEOREM PrependIsRight == UploadSpec => PrependIsExact
<1>1. ASSUME UploadInv, [UploadNext]_uploadVars
      PROVE  [\A c \in Call :
                 op[c] = "prepend" /\ At(c, "read") /\ call'[c].at = "done" =>
                     \A s \in {StemOf[i] : i \in images} \ touched[c] :
                         before[c][s] # None =>
                             text[s].lead > 0 /\ text[s].body = before[c][s].body]_datasetVars
  <2> SUFFICES ASSUME NEW c \in Call, At(c, "read"), call'[c].at = "done",
                      NEW s \in {StemOf[i] : i \in images} \ touched[c], before[c][s] # None
               PROVE  text[s].lead > 0 /\ text[s].body = before[c][s].body
    OBVIOUS
  <2>1. UploadTypeOK /\ DatasetTypeOK /\ ReachOf(c)
    BY <1>1 DEF UploadInv, SessionInv, DatasetInv, CallInv
  <2>2. call[c].todo = {}
    BY <1>1, <2>1, PrependEnds DEF uploadVars, datasetVars
  <2>3. PICK i \in images : s = StemOf[i]
    OBVIOUS
  <2>4. s \in Stem \ touched[c]
    BY <2>1, <2>3, StemAssumption DEF DatasetTypeOK
  <2>5. text[s] # None /\ text[s].body = before[c][s].body
    BY <2>1, <2>4 DEF ReachOf, Prepends, At
  <2> QED
    BY <2>1, <2>2, <2>3, <2>4, <2>5 DEF ReachOf, Prepends, At
<1>2. UploadInv => PrefixedOnce
  <2> SUFFICES ASSUME UploadInv, NEW s \in Stem \ marked, text[s] # None
               PROVE  text[s].lead <= 1
    BY DEF PrefixedOnce
  <2>1. text[s].lead = 0 \/ text[s].lead = 1
    BY DEF UploadInv, DatasetInv, TextInv
  <2> QED
    BY <2>1
<1> QED
  BY <1>1, <1>2, UploadInvariance, PTL DEF UploadSpec, PrependIsExact, PrependReaches

\* completeChunkedUpload() is given up for a missing chunk only when the chunk
\* was missing from the start, or the session was removed under it.
THEOREM MissingChunkIsReal == UploadSpec => MissingIsReal
<1>1. ASSUME UploadInv, [UploadNext]_uploadVars
      PROVE  [\A c \in Call :
                 Standing(c, "assembling") /\ part'[c].at = "cleaning" =>
                     \/ part[c].next \notin had[c]
                     \/ ~session \/ raced \/ \E d \in Call : Standing(d, "removing")]_uploadVars
  <2> SUFFICES ASSUME NEW c \in Call, Standing(c, "assembling"), part'[c].at = "cleaning"
               PROVE  part[c].next \notin had[c] \/ ~session \/ raced \/ Removing
    BY DEF Removing
  <2> USE DEF Standing, Moves
  <2>1. UploadTypeOK /\ (session /\ ~raced /\ ~Removing => had[c] \subseteq chunks)
    BY <1>1 DEF UploadInv, SessionInv
  <2>2. UploadNext /\ part' # part
    BY <1>1 DEF uploadVars
  <2>3. ~AllLost
    <3> SUFFICES ASSUME AllLost PROVE FALSE
      OBVIOUS
    <3>1. Busy(c)
      BY DEF Busy, Settled
    <3>2. part'[c] = [Unsent EXCEPT !.at = "lost"]
      BY <3>1 DEF AllLost
    <3> QED
      BY <3>2 DEF Unsent
  <2>4. ASSUME NEW d \in Call, ChunkStep(d) \/ CompleteStep(d) PROVE FALSE
    BY <2>1, <2>4 DEF ChunkStep, CompleteStep, ChunkAccepted, Refused, CompleteBegins, UploadTypeOK
  <2>5. ASSUME NEW d \in Call, SessionProceeds(d) PROVE ReadChunk(c) /\ part[c].next \notin chunks
    <3>1. ~StoreChunk(d) /\ ~OpenZip(d) /\ ~OpenUnheard(d) /\ ~Assembled(d) /\ ~StreamFails(d) /\ ~Conflict(d)
          /\ ~Extract(d) /\ ~ListZip(d)
      <4>1. ~StoreChunk(d)
        BY <2>1 DEF StoreChunk, UploadTypeOK, Part
      <4>2. ~OpenZip(d) /\ ~Assembled(d) /\ ~StreamFails(d)
        BY <2>1 DEF OpenZip, Assembled, StreamFails, UploadTypeOK, Part
      <4>3. ~OpenUnheard(d)
        BY <2>3 DEF OpenUnheard
      <4>4. ~Conflict(d) /\ ~Extract(d) /\ ~ListZip(d)
        BY <2>1 DEF Conflict, Extract, ListZip, UploadTypeOK, Part
      <4> QED
        BY <4>1, <4>2, <4>3, <4>4
    <3>2. ~ZipFails(d) /\ ~Unpacks(d)
      BY <2>2 DEF ZipFails, Unpacks
    <3>3. ~Sweep(d) /\ ~Clean(d)
      <4>1. ASSUME NEW s \in {"removing", "done", "failed"}, part' = [part EXCEPT ![d].at = s]
            PROVE  FALSE
        BY <2>1, <4>1 DEF UploadTypeOK, Part
      <4> QED
        BY <4>1 DEF Sweep, Clean, Outcome
    <3>4. ReadChunk(d)
      BY <2>5, <3>1, <3>2, <3>3 DEF SessionProceeds
    <3> QED
      BY <2>1, <3>4 DEF ReadChunk, GivesUp, UploadTypeOK, Part
  <2>6. ReadChunk(c) /\ part[c].next \notin chunks
    BY <2>2, <2>3, <2>4, <2>5 DEF UploadNext, DatasetStep, Dies
  <2> QED
    BY <2>1, <2>6
<1> QED
  BY <1>1, UploadInvariance, PTL DEF UploadSpec, MissingIsReal
=============================================================================
