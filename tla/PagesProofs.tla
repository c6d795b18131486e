----------------------------- MODULE PagesProofs -----------------------------
(***************************************************************************)
(* Three places of the UI whose answers meet a page that has moved on: the *)
(* upload of a dataset, the metadata of one, and the table of jobs.        *)
(***************************************************************************)
EXTENDS UploadPage, DatasetPage, JobsTable, FiniteSetTheorems, WellFoundedInduction, TLAPS

-----------------------------------------------------------------------------
(***************************************************************************)
(* What the place of an upload shows, for any number of uploads, files and *)
(* pieces.  It shows one of the uploads under way, so that one that ends   *)
(* must not hide another: all that are under way beside each other were    *)
(* left in a drawer, or were begun beside one that was.                    *)
(***************************************************************************)
Part == {"waiting", "sending", "stored", "lost"}
Record == [mode : Mode, chunked : BOOLEAN, stage : Stage, here : BOOLEAN,
           part : UNION {[P -> Part] : P \in SUBSET Nat}]
Ongoing == {"opening", "sending", "completing"}

PlaceTyped ==
    /\ place \in {"page", "drawer"} /\ view \in {"form", "result", "shut"} /\ mode \in Mode
    /\ picked \subseteq Files /\ left \subseteq Attempt /\ late \subseteq Mode
    /\ uploading \in [Mode -> BOOLEAN] /\ upload \in [Attempt -> Record]

\* An upload has lost no part unless it has failed, and waits for none any more
\* when it is completed.
PartsTrue(u) ==
    /\ u.chunked => u.mode = "zip" /\ DOMAIN u.part = 1..Pieces
    /\ u.stage \in {"opening", "completing"} => u.chunked
    /\ u.stage = "opening" => \A p \in DOMAIN u.part : u.part[p] = "waiting"
    /\ ~u.chunked => \A p \in DOMAIN u.part : u.part[p] # "waiting"
    /\ u.stage \in Ongoing => \A p \in DOMAIN u.part : u.part[p] # "lost"
    /\ u.stage \in {"completing", "ok"} => \A p \in DOMAIN u.part : u.part[p] = "stored"

\* Where there is more than one upload under way they were all left.
LeftTogether ==
    \A a, b \in Attempt : UnderWay(a) /\ UnderWay(b) => (a \in left <=> b \in left)

\* The files of an upload that was not left stay selected.
StillPicked ==
    \A a \in Attempt \ left :
        UnderWay(a) /\ upload[a].mode = "files" => picked \subseteq DOMAIN upload[a].part

\* What the page never does, and the drawer neither.
PlaceTrue ==
    /\ place = "page" => left = {}
    /\ view = "result" => place = "page" /\ \A a \in Attempt : ~UnderWay(a)
    /\ place = "drawer" => /\ mode = "files" /\ ~uploading["zip"]
                           /\ \A a \in Attempt : upload[a].here => upload[a].mode = "files"

PlaceInv ==
    /\ PlaceTyped /\ (\A a \in Attempt : PartsTrue(upload[a]))
    /\ UploadShown /\ LeftTogether /\ StillPicked /\ PlaceTrue

LEMMA PlaceInitInv == UploadInit => PlaceInv
<1> SUFFICES ASSUME UploadInit PROVE PlaceInv
  OBVIOUS
<1> USE DEF UploadInit
<1>1. Unused \in Record /\ PartsTrue(Unused) /\ ~Unused.here
  <2>1. Unused.part \in [{} -> Part] /\ {} \in SUBSET Nat
    BY DEF Unused
  <2> QED
    BY <2>1 DEF Unused, Record, PartsTrue, Mode, Stage, Ongoing
<1>2. PlaceTyped
  BY <1>1 DEF PlaceTyped, Mounted, Mode, Idle
<1>3. \A a \in Attempt : ~UnderWay(a) /\ PartsTrue(upload[a]) /\ ~upload[a].here
  BY <1>1 DEF UnderWay
<1>4. UploadShown /\ LeftTogether /\ StillPicked
  BY <1>3 DEF UploadShown, LeftTogether, StillPicked, Idle
<1>5. PlaceTrue
  BY <1>3 DEF PlaceTrue, Mounted, Idle, Mode
<1> QED
  BY <1>2, <1>3, <1>4, <1>5 DEF PlaceInv

\* The record of an upload goes on, and the place shows what it showed.
LEMMA QuietlyInv ==
    ASSUME PlaceInv, NEW a \in Attempt, NEW u \in Record, PartsTrue(u), Quietly(a, u),
           u.mode = upload[a].mode, u.here = upload[a].here,
           u.stage \in Ongoing <=> upload[a].stage \in Ongoing,
           DOMAIN u.part = DOMAIN upload[a].part
    PROVE  PlaceInv'
<1> USE DEF PlaceInv
<1>1. /\ UNCHANGED <<place, view, named, mode, archive, picked, error, uploading, left, late>>
      /\ upload' = [upload EXCEPT ![a] = u]
  BY DEF Quietly, choiceVars
<1>2. PlaceTyped' /\ upload'[a] = u /\ \A b \in Attempt \ {a} : upload'[b] = upload[b]
  BY <1>1 DEF PlaceTyped
<1>3. \A b \in Attempt : /\ upload'[b].mode = upload[b].mode /\ upload'[b].here = upload[b].here
                         /\ DOMAIN upload'[b].part = DOMAIN upload[b].part
                         /\ PartsTrue(upload[b])'
                         /\ UnderWay(b)' <=> UnderWay(b)
  BY <1>2 DEF UnderWay, Ongoing, PartsTrue
<1>4. UploadShown'
  BY <1>1, <1>3 DEF UploadShown
<1>5. LeftTogether' /\ StillPicked'
  BY <1>1, <1>3 DEF LeftTogether, StillPicked
<1>6. PlaceTrue'
  BY <1>1, <1>3 DEF PlaceTrue
<1> QED
  BY <1>2, <1>3, <1>4, <1>5, <1>6

\* An upload under way ends, well or badly.
LEMMA EndsInv ==
    ASSUME PlaceInv, NEW a \in Attempt, NEW u \in Record, upload[a].stage \in Ongoing,
           u.mode = upload[a].mode, u.here = upload[a].here,
           \/ Succeeds(a, u) /\ PartsTrue([u EXCEPT !.stage = "ok"])
           \/ Fails(a, u) /\ PartsTrue([u EXCEPT !.stage = "failed"])
    PROVE  PlaceInv'
<1> USE DEF PlaceInv
<1>1. PICK s \in {"ok", "failed"} :
         /\ upload' = [upload EXCEPT ![a] = [u EXCEPT !.stage = s]]
         /\ PartsTrue([u EXCEPT !.stage = s])
  BY DEF Succeeds, Fails
<1>2. /\ UNCHANGED <<place, named, mode, archive, left>>
      /\ ~u.here => UNCHANGED <<view, picked, uploading, late>>
      /\ u.here => /\ uploading' = [uploading EXCEPT ![u.mode] = FALSE]
                   /\ late' = late \ {u.mode} /\ picked' \in {picked, {}}
                   /\ view' = view \/ (place = "page" /\ view' = "result")
                        \/ (place # "page" /\ view' = "shut")
  BY DEF Succeeds, Fails
<1>3. [u EXCEPT !.stage = s] \in Record /\ u.mode \in Mode /\ u.here \in BOOLEAN
  BY DEF Record, Stage
<1>4. PlaceTyped'
  BY <1>1, <1>2, <1>3 DEF PlaceTyped
<1>5. /\ upload'[a] = [u EXCEPT !.stage = s]
      /\ \A b \in Attempt \ {a} : upload'[b] = upload[b]
      /\ upload'[a].here = u.here /\ upload'[a].mode = u.mode /\ upload'[a].stage = s
  BY <1>1, <1>3 DEF PlaceTyped, Record
<1>6. /\ ~UnderWay(a)' /\ (u.here <=> UnderWay(a))
      /\ \A b \in Attempt \ {a} : UnderWay(b)' <=> UnderWay(b)
  BY <1>5 DEF UnderWay, Ongoing
<1>7. \A b \in Attempt : PartsTrue(upload[b])'
  BY <1>1, <1>5 DEF PartsTrue
<1>8. UploadShown'
  <2>1. ASSUME NEW b \in Attempt \ left, UnderWay(b)' PROVE uploading'[upload'[b].mode]
    <3>1. b # a /\ UnderWay(b) /\ upload'[b] = upload[b]
      BY <1>5, <1>6, <2>1
    <3>2. uploading[upload[b].mode]
      BY <3>1 DEF UploadShown
    <3>3. ~u.here
      <4>1. ASSUME u.here PROVE a \in Attempt \ left
        BY <1>6, <3>1, <4>1 DEF LeftTogether
      <4> QED
        BY <1>6, <3>1, <4>1 DEF UploadShown
    <3> QED
      BY <1>2, <3>1, <3>2, <3>3
  <2>2. ASSUME NEW m \in Mode \ late', uploading'[m]
        PROVE  \E b \in Attempt : UnderWay(b)' /\ upload'[b].mode = m
    <3>1. uploading[m] /\ m \notin late /\ (u.here => m # u.mode)
      BY <1>2, <2>2 DEF PlaceTyped
    <3>2. PICK b \in Attempt : UnderWay(b) /\ upload[b].mode = m
      BY <3>1 DEF UploadShown
    <3> QED
      BY <1>5, <1>6, <3>1, <3>2
  <2>3. \A b, c \in Attempt \ left : UnderWay(b)' /\ UnderWay(c)' => b = c
    BY <1>6 DEF UploadShown
  <2> QED
    BY <1>2, <2>1, <2>2, <2>3 DEF UploadShown
<1>9. LeftTogether'
  BY <1>2, <1>6 DEF LeftTogether
<1>10. StillPicked'
  <2>1. picked' \subseteq picked
    BY <1>2
  <2> QED
    BY <1>2, <1>5, <1>6, <2>1 DEF StillPicked
<1>11. PlaceTrue'
  <2>1. ASSUME view' = "result" PROVE place = "page" /\ \A b \in Attempt : ~UnderWay(b)'
    <3>1. CASE view = "result"
      BY <1>6, <3>1 DEF PlaceTrue
    <3>2. CASE view # "result"
      <4>1. u.here /\ place = "page"
        BY <1>2, <2>1, <3>2
      <4>2. left = {} /\ UnderWay(a)
        BY <1>6, <4>1 DEF PlaceTrue
      <4> QED
        BY <1>6, <4>1, <4>2 DEF UploadShown
    <3> QED
      BY <3>1, <3>2
  <2>2. ASSUME place = "drawer"
        PROVE  /\ mode' = "files" /\ ~uploading'["zip"]
               /\ \A b \in Attempt : upload'[b].here => upload'[b].mode = "files"
    <3>1. mode = "files" /\ ~uploading["zip"]
          /\ \A b \in Attempt : upload[b].here => upload[b].mode = "files"
      BY <2>2 DEF PlaceTrue
    <3>2. uploading' = uploading \/ uploading' = [uploading EXCEPT ![u.mode] = FALSE]
      BY <1>2
    <3>3. ~uploading'["zip"]
      <4>1. uploading \in [Mode -> BOOLEAN] /\ "zip" \in Mode
        BY DEF PlaceTyped, Mode
      <4> QED
        BY ONLY <3>1, <3>2, <4>1
    <3>4. \A b \in Attempt : upload'[b].here = upload[b].here /\ upload'[b].mode = upload[b].mode
      BY <1>5
    <3> QED
      BY <1>2, <3>1, <3>3, <3>4
  <2> QED
    BY <1>2, <2>1, <2>2 DEF PlaceTrue
<1> QED
  BY <1>4, <1>7, <1>8, <1>9, <1>10, <1>11

-----------------------------------------------------------------------------
(* The loop over the batches *)

\* Some natural numbers have a first one: of what they leave up to each of them,
\* which is finite, something is least.
LEMMA MinIs ==
    ASSUME NEW S \in SUBSET Nat, S # {}
    PROVE  Min(S) \in S
<1> DEFINE upTo(n) == S \cap (0..n)
           below == {upTo(n) : n \in S}
<1>1. \A n \in S : upTo(n) \in FiniteSubsetsOf(S)
  <2> SUFFICES ASSUME NEW n \in S PROVE IsFiniteSet(upTo(n))
    BY DEF FiniteSubsetsOf
  <2>1. 0 \in Int /\ n \in Int /\ upTo(n) \in SUBSET (0..n)
    OBVIOUS
  <2>2. IsFiniteSet(0..n)
    BY <2>1, FS_Interval
  <2> HIDE DEF upTo
  <2> QED
    BY <2>1, <2>2, FS_Subset
<1>2. PICK low \in below : \A T \in below : ~(<<T, low>> \in StrictSubsetOrdering(S))
  <2>1. below \in SUBSET FiniteSubsetsOf(S) /\ below # {}
    BY <1>1
  <2> HIDE DEF below
  <2> QED
    BY <2>1, FS_StrictSubsetOrderingWellFounded, WFMin
<1>3. PICK x \in S : low = upTo(x)
  BY <1>2
<1>4. \A y \in S : x <= y
  <2> SUFFICES ASSUME NEW y \in S, y < x PROVE FALSE
    OBVIOUS
  <2>1. upTo(y) \subseteq upTo(x) /\ x \in upTo(x) /\ x \notin upTo(y)
    OBVIOUS
  <2>2. upTo(y) \in below
    OBVIOUS
  <2>3. upTo(y) \in SUBSET S /\ upTo(x) \in SUBSET S
    OBVIOUS
  <2> HIDE DEF upTo
  <2> QED
    BY <1>2, <1>3, <2>1, <2>2, <2>3 DEF StrictSubsetOrdering
<1> QED
  BY <1>4 DEF Min

\* The next batch is never empty as long as a piece waits.
LEMMA NextBatchIs ==
    ASSUME NEW u \in Record, u.chunked, PartsTrue(u), u.stage \in {"opening", "sending"}
    PROVE  /\ NextBatch(u) \in Record /\ PartsTrue(NextBatch(u))
           /\ NextBatch(u).mode = u.mode /\ NextBatch(u).here = u.here
           /\ NextBatch(u).stage \in Ongoing /\ DOMAIN NextBatch(u).part = DOMAIN u.part
<1> DEFINE waiting == {p \in DOMAIN u.part : u.part[p] = "waiting"}
           batch == Batch((Min(waiting) - 1) \div Concurrency)
           rest == IF waiting = {} THEN {} ELSE batch
           next == [p \in DOMAIN u.part |-> IF p \in rest THEN "sending" ELSE u.part[p]]
<1>1. DOMAIN u.part = 1..Pieces /\ u.part \in [DOMAIN u.part -> Part] /\ u.mode = "zip"
  BY DEF PartsTrue, Record
<1>2. waiting # {} => rest # {}
  <2> SUFFICES ASSUME waiting # {} PROVE batch # {}
    OBVIOUS
  <2>1. waiting \in SUBSET Nat
    BY <1>1
  <2> HIDE DEF waiting
  <2>2. Min(waiting) \in waiting
    BY <2>1, MinIs
  <2> QED
    BY <1>1, <2>2 DEF Batch, waiting
<1>3. CASE Sending(u) # {}
  <2>1. NextBatch(u) = u
    BY <1>3 DEF NextBatch
  <2> QED
    BY <2>1 DEF Ongoing
<1>4. CASE Sending(u) = {} /\ rest = {}
  <2>1. NextBatch(u) = [u EXCEPT !.stage = "completing"]
    BY <1>4 DEF NextBatch
  <2>2. \A p \in DOMAIN u.part : u.part[p] \in Part /\ u.part[p] # "waiting" /\ u.part[p] # "sending"
    BY <1>1, <1>2, <1>4 DEF Sending
  <2>3. \A p \in DOMAIN u.part : u.part[p] # "lost"
    BY DEF PartsTrue, Ongoing
  <2>4. \A p \in DOMAIN u.part : u.part[p] = "stored"
    BY <2>2, <2>3 DEF Part
  <2>5. NextBatch(u) \in Record
    BY <2>1 DEF Record, Stage
  <2>6. NextBatch(u).part = u.part /\ NextBatch(u).stage = "completing" /\ NextBatch(u).mode = u.mode
          /\ NextBatch(u).here = u.here /\ NextBatch(u).chunked
    BY <2>1 DEF Record
  <2> QED
    BY <1>1, <2>4, <2>5, <2>6 DEF PartsTrue, Ongoing
<1>5. CASE Sending(u) = {} /\ rest # {}
  <2>1. NextBatch(u) = [u EXCEPT !.stage = "sending", !.part = next]
    BY <1>5 DEF NextBatch
  <2> HIDE DEF rest
  <2>2. next \in [DOMAIN u.part -> Part]
    BY <1>1 DEF Part
  <2>3. DOMAIN u.part \in SUBSET Nat /\ DOMAIN next = DOMAIN u.part
    BY <1>1
  <2>4. \A p \in DOMAIN u.part : next[p] # "lost"
    BY DEF PartsTrue, Ongoing
  <2> HIDE DEF next
  <2>5. next \in UNION {[P -> Part] : P \in SUBSET Nat}
    BY <2>2, <2>3
  <2>6. NextBatch(u) \in Record
    BY <2>1, <2>5 DEF Record, Stage
  <2>7. NextBatch(u).part = next /\ NextBatch(u).stage = "sending" /\ NextBatch(u).mode = u.mode
          /\ NextBatch(u).here = u.here /\ NextBatch(u).chunked
    BY <2>1 DEF Record
  <2> QED
    BY <1>1, <2>3, <2>4, <2>6, <2>7 DEF PartsTrue, Ongoing
<1> QED
  BY <1>3, <1>4, <1>5

\* A part gets its answer.
LEMMA PartIs ==
    ASSUME NEW u \in Record, NEW p \in DOMAIN u.part, NEW s \in Part
    PROVE  /\ [u EXCEPT !.part[p] = s] \in Record
           /\ [u EXCEPT !.part[p] = s].part = [u.part EXCEPT ![p] = s]
           /\ DOMAIN [u EXCEPT !.part[p] = s].part = DOMAIN u.part
           /\ [u EXCEPT !.part[p] = s].mode = u.mode /\ [u EXCEPT !.part[p] = s].here = u.here
           /\ [u EXCEPT !.part[p] = s].stage = u.stage
           /\ [u EXCEPT !.part[p] = s].chunked = u.chunked
<1>1. PICK P \in SUBSET Nat : u.part \in [P -> Part]
  BY DEF Record
<1>2. [u.part EXCEPT ![p] = s] \in [P -> Part]
  BY <1>1
<1>3. [u.part EXCEPT ![p] = s] \in UNION {[Q -> Part] : Q \in SUBSET Nat}
  BY <1>2
<1>4. [u EXCEPT !.part[p] = s] = [u EXCEPT !.part = [u.part EXCEPT ![p] = s]]
  BY DEF Record
<1> DEFINE new == [u.part EXCEPT ![p] = s]
<1>5. DOMAIN new = DOMAIN u.part
  OBVIOUS
<1> HIDE DEF new
<1>6. [u EXCEPT !.part = new] \in Record
  BY <1>3 DEF Record, new
<1> QED
  BY <1>4, <1>5, <1>6 DEF Record, new

LEMMA SessionOpenedInv == ASSUME PlaceInv, NEW a \in Attempt, SessionOpened(a) PROVE PlaceInv'
<1> DEFINE u == upload[a]
<1>1. u \in Record /\ PartsTrue(u) /\ u.stage = "opening"
  BY DEF PlaceInv, PlaceTyped, SessionOpened
<1>2. u.chunked /\ u.stage \in Ongoing
  BY <1>1 DEF PartsTrue, Ongoing
<1> HIDE DEF u
<1>3. CASE Quietly(a, NextBatch(u))
  BY <1>1, <1>2, <1>3, NextBatchIs, QuietlyInv DEF u
<1>4. CASE Fails(a, u)
  <2>1. PartsTrue([u EXCEPT !.stage = "failed"])
    BY <1>1 DEF PartsTrue, Record, Ongoing
  <2> QED
    BY <1>1, <1>2, <1>4, <2>1, EndsInv DEF u
<1> QED
  BY <1>3, <1>4 DEF SessionOpened, u

LEMMA CompletedInv == ASSUME PlaceInv, NEW a \in Attempt, Completed(a) PROVE PlaceInv'
<1> DEFINE u == upload[a]
<1>1. u \in Record /\ PartsTrue(u) /\ u.stage = "completing"
  BY DEF PlaceInv, PlaceTyped, Completed
<1> HIDE DEF u
<1>2. PartsTrue([u EXCEPT !.stage = "failed"]) /\ PartsTrue([u EXCEPT !.stage = "ok"])
  BY <1>1 DEF PartsTrue, Record, Ongoing
<1>3. Succeeds(a, u) \/ Fails(a, u)
  BY DEF Completed, u
<1>4. u.stage \in Ongoing
  BY <1>1 DEF Ongoing
<1> QED
  BY <1>1, <1>2, <1>3, <1>4, EndsInv DEF u

LEMMA PartStoredInv == ASSUME PlaceInv, NEW a \in Attempt, PartStored(a) PROVE PlaceInv'
<1> DEFINE v == upload[a]
<1>1. v \in Record /\ PartsTrue(v)
  BY DEF PlaceInv, PlaceTyped
<1>2. PICK p \in Sending(v) :
         LET u == [v EXCEPT !.part[p] = "stored"]
         IN  IF u.stage # "sending" THEN Quietly(a, u)
             ELSE IF u.chunked THEN Quietly(a, NextBatch(u))
             ELSE IF Sending(u) = {} THEN Succeeds(a, u)
             ELSE Quietly(a, u)
  BY DEF PartStored
<1> DEFINE u == [v EXCEPT !.part[p] = "stored"]
<1> HIDE DEF v
<1>3. p \in DOMAIN v.part /\ v.part[p] = "sending" /\ "stored" \in Part
  BY DEF Sending, Part
<1>4. /\ u \in Record /\ u.part = [v.part EXCEPT ![p] = "stored"] /\ DOMAIN u.part = DOMAIN v.part
      /\ u.mode = v.mode /\ u.here = v.here /\ u.stage = v.stage /\ u.chunked = v.chunked
  BY <1>1, <1>3, PartIs
<1>5. /\ IF u.stage # "sending" THEN Quietly(a, u)
         ELSE IF u.chunked THEN Quietly(a, NextBatch(u))
         ELSE IF Sending(u) = {} THEN Succeeds(a, u)
         ELSE Quietly(a, u)
  BY <1>2
<1> HIDE DEF u
<1>6. \A q \in DOMAIN u.part : u.part[q] = IF q = p THEN "stored" ELSE v.part[q]
  BY <1>1, <1>3, <1>4 DEF Record
<1>7. PartsTrue(u)
  BY <1>1, <1>3, <1>4, <1>6 DEF PartsTrue
<1>8. CASE u.stage # "sending" \/ (~u.chunked /\ Sending(u) # {})
  <2>1. Quietly(a, u)
    BY <1>5, <1>8
  <2> QED
    BY <1>4, <1>7, <2>1, QuietlyInv DEF v
<1>9. CASE u.stage = "sending" /\ u.chunked
  <2>1. Quietly(a, NextBatch(u))
    BY <1>5, <1>9
  <2>2. v.stage \in Ongoing
    BY <1>4, <1>9 DEF Ongoing
  <2> QED
    BY <1>4, <1>7, <1>9, <2>1, <2>2, NextBatchIs, QuietlyInv DEF v
<1>10. CASE u.stage = "sending" /\ ~u.chunked /\ Sending(u) = {}
  <2>1. \A q \in DOMAIN u.part : u.part[q] \in Part /\ u.part[q] \notin {"waiting", "lost", "sending"}
    <3>1. PICK P \in SUBSET Nat : u.part \in [P -> Part]
      BY <1>4 DEF Record
    <3>2. \A q \in DOMAIN u.part : u.part[q] # "waiting" /\ u.part[q] # "lost"
      BY <1>7, <1>10 DEF PartsTrue, Ongoing
    <3> QED
      BY <1>10, <3>1, <3>2 DEF Sending
  <2>2. \A q \in DOMAIN u.part : u.part[q] = "stored"
    BY <2>1 DEF Part
  <2>3. PartsTrue([u EXCEPT !.stage = "ok"])
    BY <1>4, <1>10, <2>2 DEF PartsTrue, Record, Ongoing
  <2>4. v.stage \in Ongoing /\ Succeeds(a, u)
    BY <1>4, <1>5, <1>10 DEF Ongoing
  <2> QED
    BY <1>4, <2>3, <2>4, EndsInv DEF v
<1> QED
  BY <1>8, <1>9, <1>10

LEMMA PartLostInv == ASSUME PlaceInv, NEW a \in Attempt, PartLost(a) PROVE PlaceInv'
<1> DEFINE v == upload[a]
<1>1. v \in Record /\ PartsTrue(v)
  BY DEF PlaceInv, PlaceTyped
<1>2. PICK p \in Sending(v) :
         LET u == [v EXCEPT !.part[p] = "lost"]
         IN  IF u.stage = "sending" THEN Fails(a, u) ELSE Quietly(a, u)
  BY DEF PartLost
<1> DEFINE u == [v EXCEPT !.part[p] = "lost"]
<1> HIDE DEF v
<1>3. p \in DOMAIN v.part /\ v.part[p] = "sending" /\ "lost" \in Part
  BY DEF Sending, Part
<1>4. /\ u \in Record /\ u.part = [v.part EXCEPT ![p] = "lost"] /\ DOMAIN u.part = DOMAIN v.part
      /\ u.mode = v.mode /\ u.here = v.here /\ u.stage = v.stage /\ u.chunked = v.chunked
  BY <1>1, <1>3, PartIs
<1>5. IF u.stage = "sending" THEN Fails(a, u) ELSE Quietly(a, u)
  BY <1>2
<1> HIDE DEF u
<1>6. \A q \in DOMAIN u.part : u.part[q] = IF q = p THEN "lost" ELSE v.part[q]
  BY <1>1, <1>3, <1>4 DEF Record
<1>7. CASE u.stage = "sending"
  <2>1. PartsTrue([u EXCEPT !.stage = "failed"])
    BY <1>1, <1>4, <1>6, <1>7 DEF PartsTrue, Record, Ongoing
  <2>2. v.stage \in Ongoing /\ Fails(a, u)
    BY <1>4, <1>5, <1>7 DEF Ongoing
  <2> QED
    BY <1>4, <2>1, <2>2, EndsInv DEF v
<1>8. CASE u.stage # "sending"
  <2>1. v.stage \notin {"opening", "completing", "ok"}
    BY <1>1, <1>3 DEF PartsTrue
  <2>2. PartsTrue(u)
    BY <1>1, <1>4, <1>6, <1>8, <2>1 DEF PartsTrue, Ongoing
  <2> QED
    BY <1>4, <1>5, <1>8, <2>2, QuietlyInv DEF v
<1> QED
  BY <1>7, <1>8

\* What the user does to the form, when nothing is uploading: no upload is under
\* way but those that were left.
LEMMA IdleIs ==
    ASSUME PlaceInv, ~IsUploading
    PROVE  \A a \in Attempt : UnderWay(a) => a \in left
<1> SUFFICES ASSUME NEW a \in Attempt, UnderWay(a), a \notin left PROVE FALSE
  OBVIOUS
<1>1. uploading[upload[a].mode]
  BY DEF PlaceInv, UploadShown
<1>2. upload[a].mode \in Mode
  BY DEF PlaceInv, PlaceTyped, Record
<1> QED
  BY <1>1, <1>2 DEF IsUploading

LEMMA FormInv ==
    ASSUME PlaceInv,
           \/ EnterName \/ ChangeMode \/ ChooseArchive \/ DropFiles \/ ClearFiles \/ OpenDrawer
    PROVE  PlaceInv'
<1> USE DEF PlaceInv
<1>1. UNCHANGED <<place, uploading, upload, left, late>>
  BY DEF EnterName, ChangeMode, ChooseArchive, DropFiles, ClearFiles, OpenDrawer
<1>2. \A a \in Attempt : UnderWay(a)' <=> UnderWay(a)
  BY <1>1 DEF UnderWay
<1>3. /\ picked' = picked \/ (~IsUploading /\ picked' \subseteq Files)
      /\ mode' = mode \/ (place = "page" /\ mode' \in Mode)
      /\ view' = view \/ view' = "form"
  BY DEF EnterName, ChangeMode, ChooseArchive, DropFiles, ClearFiles, OpenDrawer
<1>4. PlaceTyped'
  BY <1>1, <1>3 DEF PlaceTyped
<1>5. \A a \in Attempt : PartsTrue(upload[a])'
  BY <1>1 DEF PartsTrue
<1>6. UploadShown' /\ LeftTogether'
  BY <1>1, <1>2 DEF UploadShown, LeftTogether
<1>7. StillPicked'
  BY <1>1, <1>2, <1>3, IdleIs DEF StillPicked
<1>8. PlaceTrue'
  BY <1>1, <1>2, <1>3 DEF PlaceTrue
<1> QED
  BY <1>4, <1>5, <1>6, <1>7, <1>8

\* A new upload is the only one under way, unless one that was left still is.
LEMMA StartInv == ASSUME PlaceInv, NEW a \in Attempt, Start(a) PROVE PlaceInv'
<1> USE DEF PlaceInv
<1> DEFINE large == mode = "zip" /\ archive = "large"
           part == IF large THEN [p \in 1..Pieces |-> "waiting"]
                   ELSE [p \in IF mode = "zip" THEN {1} ELSE picked |-> "sending"]
           u == [mode |-> mode, chunked |-> large, here |-> TRUE,
                 stage |-> IF large THEN "opening" ELSE "sending", part |-> part]
<1>1. /\ upload' = [upload EXCEPT ![a] = u] /\ uploading' = [uploading EXCEPT ![mode] = TRUE]
      /\ left' = IF \E b \in left : UnderWay(b) THEN left \cup {a} ELSE left
      /\ UNCHANGED <<place, view, named, mode, archive, picked, late>>
  BY DEF Start
<1>2. view = "form" /\ ~IsUploading /\ upload[a].stage = "none"
  BY DEF Start
<1>3. part \in UNION {[P -> Part] : P \in SUBSET Nat}
  <2>1. 1..Pieces \in SUBSET Nat /\ {1} \in SUBSET Nat /\ picked \in SUBSET Nat
    BY UploadAssumption DEF PlaceTyped
  <2>2. CASE large
    <3>1. part \in [1..Pieces -> Part]
      BY <2>2 DEF Part
    <3> QED
      BY <2>1, <3>1
  <2>3. CASE ~large
    <3>1. PICK P \in {{1}, picked} : part = [p \in P |-> "sending"]
      BY <2>3
    <3>2. part \in [P -> Part]
      BY <3>1 DEF Part
    <3> QED
      BY <2>1, <3>2
  <2> QED
    BY <2>2, <2>3
<1>4. /\ large => DOMAIN part = 1..Pieces /\ \A p \in DOMAIN part : part[p] = "waiting"
      /\ ~large => \A p \in DOMAIN part : part[p] = "sending"
      /\ mode # "zip" => DOMAIN part = picked
  OBVIOUS
<1>5. large \in BOOLEAN /\ (large => mode = "zip") /\ mode \in Mode
  BY DEF PlaceTyped
<1> HIDE DEF large, part
<1>6. u \in Record /\ PartsTrue(u)
  BY <1>3, <1>4, <1>5 DEF Record, Stage, PartsTrue, Ongoing
<1>7. u.mode = mode /\ u.here /\ u.stage \in Ongoing /\ (mode # "zip" => DOMAIN u.part = picked)
  BY <1>4 DEF Ongoing
<1> HIDE DEF u
<1>8. PlaceTyped'
  BY <1>1, <1>6 DEF PlaceTyped
<1>9. upload'[a] = u /\ \A b \in Attempt \ {a} : upload'[b] = upload[b]
  BY <1>1 DEF PlaceTyped
<1>10. /\ UnderWay(a)' /\ ~UnderWay(a)
       /\ \A b \in Attempt \ {a} : UnderWay(b)' <=> UnderWay(b)
  BY <1>2, <1>7, <1>9 DEF UnderWay, Ongoing
<1>11. \A b \in Attempt : PartsTrue(upload[b])'
  BY <1>6, <1>9 DEF PartsTrue
<1>12. \A b \in Attempt \ {a} : UnderWay(b) => b \in left /\ a \in left'
  BY <1>1, <1>2, IdleIs
<1>13. a \in left' => a \in left \/ \E b \in left : UnderWay(b)
  BY <1>1
<1>14. UploadShown'
  <2>1. ASSUME NEW b \in Attempt \ left', UnderWay(b)' PROVE b = a
    BY <1>1, <1>10, <1>12, <2>1
  <2>2. uploading'[upload'[a].mode]
    BY <1>1, <1>5, <1>7, <1>9 DEF PlaceTyped
  <2>3. ASSUME NEW m \in Mode \ late', uploading'[m]
        PROVE  \E b \in Attempt : UnderWay(b)' /\ upload'[b].mode = m
    <3>1. ~uploading[m]
      BY <1>2 DEF IsUploading
    <3>2. m = mode
      BY <1>1, <2>3, <3>1 DEF PlaceTyped
    <3> QED
      BY <1>7, <1>9, <1>10, <3>2
  <2> QED
    BY <2>1, <2>2, <2>3 DEF UploadShown
<1>15. LeftTogether'
  <2>1. \A b \in Attempt \ {a} : UnderWay(b)' => b \in left' /\ a \in left'
    BY <1>1, <1>10, <1>12
  <2> QED
    BY <2>1 DEF LeftTogether
<1>16. StillPicked'
  <2>1. \A b \in Attempt \ left' : UnderWay(b)' => b = a
    BY <1>1, <1>10, <1>12
  <2>2. upload'[a].mode = "files" => picked' \subseteq DOMAIN upload'[a].part
    BY <1>1, <1>7, <1>9
  <2> QED
    BY <2>1, <2>2 DEF StillPicked
<1>17. PlaceTrue'
  <2>1. place = "page" => left' = {}
    BY <1>1 DEF PlaceTrue
  <2>2. place = "drawer" => /\ mode = "files" /\ ~uploading'["zip"]
                            /\ \A b \in Attempt : upload'[b].here => upload'[b].mode = "files"
    BY <1>1, <1>7, <1>9 DEF PlaceTrue, PlaceTyped, Mode
  <2> QED
    BY <1>1, <1>2, <2>1, <2>2 DEF PlaceTrue
<1> QED
  BY <1>8, <1>11, <1>14, <1>15, <1>16, <1>17

\* Once nothing is shown to upload, nothing needs to be.
LEMMA ClosedInv ==
    ASSUME PlaceInv, Another \/ Leave \/ CloseDrawer
    PROVE  PlaceInv'
<1> USE DEF PlaceInv
<1>1. place' = place /\ late' = {} /\ picked' = {}
  BY DEF Another, Leave, CloseDrawer
<1>2. uploading' = Idle
  <2>1. CASE Another \/ Leave
    BY <2>1 DEF Another, Leave
  <2>2. CASE CloseDrawer
    <3>1. place = "drawer" /\ uploading' = [uploading EXCEPT !["files"] = FALSE]
      BY <2>2 DEF CloseDrawer
    <3>2. uploading \in [Mode -> BOOLEAN] /\ ~uploading["zip"]
      BY <3>1 DEF PlaceTyped, PlaceTrue
    <3> QED
      BY <3>1, <3>2 DEF Idle, Mode
  <2> QED
    BY <2>1, <2>2
<1>3. \A m \in Mode : ~uploading'[m]
  BY <1>2 DEF Idle
<1>4. /\ view' \in {"form", "shut"}
      /\ mode' = mode \/ (place = "page" /\ mode' = "zip") \/ (place = "drawer" /\ mode' = "files")
  BY DEF Another, Leave, CloseDrawer, Mounted, PlaceTyped
<1>5. /\ upload' \in [Attempt -> Record]
      /\ \A a \in Attempt : /\ upload'[a] = upload[a] \/ upload'[a] = [upload[a] EXCEPT !.here = FALSE]
                            /\ PartsTrue(upload[a])'
  <2>1. CASE Another \/ CloseDrawer
    <3>1. upload' = upload
      BY <2>1 DEF Another, CloseDrawer
    <3> QED
      BY <3>1 DEF PlaceTyped, PartsTrue
  <2>2. CASE Leave
    <3>1. upload' = [a \in Attempt |-> [upload[a] EXCEPT !.here = FALSE]]
      BY <2>2 DEF Leave
    <3>2. \A a \in Attempt : upload[a] \in Record /\ [upload[a] EXCEPT !.here = FALSE] \in Record
      <4>1. \A u \in Record : [u EXCEPT !.here = FALSE] \in Record
        BY DEF Record
      <4> QED
        BY <4>1 DEF PlaceTyped
    <3>3. upload' \in [Attempt -> Record]
      BY <3>1, <3>2
    <3>4. ASSUME NEW a \in Attempt PROVE PartsTrue(upload[a])'
      <4>1. upload'[a] = [upload[a] EXCEPT !.here = FALSE]
        BY <3>1
      <4>2. /\ upload'[a].chunked = upload[a].chunked /\ upload'[a].mode = upload[a].mode
            /\ upload'[a].stage = upload[a].stage /\ upload'[a].part = upload[a].part
        BY <3>2, <4>1 DEF Record
      <4>3. PartsTrue(upload[a])
        OBVIOUS
      <4> QED
        BY <4>2, <4>3 DEF PartsTrue
    <3> QED
      BY <3>1, <3>3, <3>4
  <2> QED
    BY <2>1, <2>2
<1>6. left \subseteq left' /\ left' \subseteq Attempt /\ (place = "page" => left' = {})
  BY DEF Another, Leave, CloseDrawer, PlaceTyped, PlaceTrue
<1>7. \A a \in Attempt : UnderWay(a)' => a \in left'
  <2>1. CASE Another
    BY <2>1 DEF Another, PlaceTrue, UnderWay
  <2>2. CASE Leave
    <3>1. \A a \in Attempt : ~upload'[a].here
      BY <2>2 DEF Leave, PlaceTyped, Record
    <3> QED
      BY <3>1 DEF UnderWay
  <2>3. CASE CloseDrawer
    BY <2>3 DEF CloseDrawer, UnderWay
  <2> QED
    BY <2>1, <2>2, <2>3
<1>8. PlaceTyped'
  BY <1>1, <1>2, <1>4, <1>5, <1>6 DEF PlaceTyped, Idle, Mode
<1>9. UploadShown' /\ LeftTogether' /\ StillPicked'
  BY <1>3, <1>7 DEF UploadShown, LeftTogether, StillPicked
<1>10. PlaceTrue'
  <2>1. \A a \in Attempt : upload'[a].mode = upload[a].mode /\ (upload'[a].here => upload[a].here)
    BY <1>5 DEF PlaceTyped, Record
  <2> QED
    BY <1>1, <1>3, <1>4, <1>6, <2>1 DEF PlaceTrue, Mode
<1> QED
  BY <1>5, <1>8, <1>9, <1>10

LEMMA ProgressInv == ASSUME PlaceInv, NEW a \in Attempt, Progress(a) PROVE PlaceInv'
<1> USE DEF PlaceInv
<1> DEFINE m == upload[a].mode
<1>1. /\ UNCHANGED <<place, view, named, mode, archive, picked, error, upload, left>>
      /\ uploading' = [uploading EXCEPT ![m] = TRUE]
      /\ late' = IF UnderWay(a) THEN late ELSE late \cup {m}
      /\ upload[a].here
  BY DEF Progress, choiceVars
<1>2. m \in Mode
  BY DEF PlaceTyped, Record
<1> HIDE DEF m
<1>3. \A b \in Attempt : (UnderWay(b)' <=> UnderWay(b)) /\ PartsTrue(upload[b])'
  BY <1>1 DEF UnderWay, PartsTrue
<1>4. PlaceTyped'
  BY <1>1, <1>2 DEF PlaceTyped
<1>5. LeftTogether' /\ StillPicked'
  BY <1>1, <1>3 DEF LeftTogether, StillPicked
<1>6. UploadShown'
  <2>1. \A n \in Mode : uploading'[n] <=> uploading[n] \/ n = m
    BY <1>1, <1>2 DEF PlaceTyped
  <2>2. \A b \in Attempt : upload[b].mode \in Mode
    BY DEF PlaceTyped, Record
  <2>3. \A b \in Attempt \ left : UnderWay(b) => uploading'[upload[b].mode]
    BY <2>1, <2>2 DEF UploadShown
  <2>4. ASSUME NEW n \in Mode \ late', uploading'[n]
        PROVE  \E b \in Attempt : UnderWay(b) /\ upload[b].mode = n
    <3>1. CASE n = m /\ UnderWay(a)
      BY <3>1 DEF m
    <3>2. CASE n # m \/ ~UnderWay(a)
      BY <1>1, <2>1, <2>4, <3>2 DEF UploadShown
    <3> QED
      BY <3>1, <3>2
  <2> QED
    BY <1>1, <1>3, <2>3, <2>4 DEF UploadShown
<1>7. PlaceTrue'
  <2>1. place = "drawer" => m = "files"
    BY <1>1 DEF PlaceTrue, m
  <2>2. place = "drawer" => ~uploading'["zip"]
    BY <1>1, <2>1 DEF PlaceTrue, PlaceTyped, Mode
  <2> QED
    BY <1>1, <1>3, <2>2 DEF PlaceTrue
<1> QED
  BY <1>3, <1>4, <1>5, <1>6, <1>7

LEMMA PlaceNextInv == PlaceInv /\ [UploadNext]_uploadVars => PlaceInv'
<1> SUFFICES ASSUME PlaceInv, [UploadNext]_uploadVars PROVE PlaceInv'
  OBVIOUS
<1>1. CASE EnterName \/ ChangeMode \/ ChooseArchive \/ DropFiles \/ ClearFiles \/ OpenDrawer
  BY <1>1, FormInv
<1>2. CASE Another \/ Leave \/ CloseDrawer
  BY <1>2, ClosedInv
<1>3. ASSUME NEW a \in Attempt, Start(a) PROVE PlaceInv'
  BY <1>3, StartInv
<1>4. ASSUME NEW a \in Attempt, SessionOpened(a) PROVE PlaceInv'
  BY <1>4, SessionOpenedInv
<1>5. ASSUME NEW a \in Attempt, PartStored(a) PROVE PlaceInv'
  BY <1>5, PartStoredInv
<1>6. ASSUME NEW a \in Attempt, PartLost(a) PROVE PlaceInv'
  BY <1>6, PartLostInv
<1>7. ASSUME NEW a \in Attempt, Progress(a) PROVE PlaceInv'
  BY <1>7, ProgressInv
<1>8. ASSUME NEW a \in Attempt, Completed(a) PROVE PlaceInv'
  BY <1>8, CompletedInv
<1>9. CASE UNCHANGED uploadVars
  <2>1. UNCHANGED <<place, view, mode, picked, uploading, upload, left, late>>
    BY <1>9 DEF uploadVars, choiceVars
  <2> QED
    BY <2>1 DEF PlaceInv, PlaceTyped, PartsTrue, UploadShown, LeftTogether, StillPicked, PlaceTrue,
                UnderWay
<1> QED
  BY <1>1, <1>2, <1>3, <1>4, <1>5, <1>6, <1>7, <1>8, <1>9 DEF UploadNext

\* The invariant of the two places, for any number of uploads, files and pieces.
THEOREM PlaceInvariance == UploadSpec => []PlaceInv
BY PlaceInitInv, PlaceNextInv, PTL DEF UploadSpec

\* The place says it uploads exactly while one of its uploads is under way, and
\* never runs two beside each other, but for those it was closed on and for the
\* progress of one that is over.
THEOREM UploadIsShown == UploadSpec => []UploadShown
<1>1. PlaceInv => UploadShown
  BY DEF PlaceInv
<1> QED
  BY PlaceInvariance, <1>1, PTL

\* Only an upload that is under way succeeds, with the parts it had.
LEMMA SuccessIs ==
    ASSUME PlaceInv, UploadNext, NEW a \in Attempt, upload'[a] # upload[a],
           upload'[a].stage = "ok", upload'[a].here
    PROVE  /\ UnderWay(a) /\ upload'[a].mode = upload[a].mode
           /\ DOMAIN upload'[a].part = DOMAIN upload[a].part
<1>1. upload \in [Attempt -> Record] /\ \A b \in Attempt : PartsTrue(upload[b])
  BY DEF PlaceInv, PlaceTyped
<1>2. ASSUME EnterName \/ ChangeMode \/ ChooseArchive \/ DropFiles \/ ClearFiles
                \/ Another \/ OpenDrawer \/ CloseDrawer \/ (\E b \in Attempt : Progress(b))
      PROVE  FALSE
  BY <1>2 DEF EnterName, ChangeMode, ChooseArchive, DropFiles, ClearFiles, Another, OpenDrawer,
              CloseDrawer, Progress
<1>3. ASSUME Leave PROVE FALSE
  <2>1. upload'[a] = [upload[a] EXCEPT !.here = FALSE]
    BY <1>3 DEF Leave
  <2> QED
    BY <1>1, <2>1 DEF Record
<1>4. ASSUME NEW b \in Attempt, Start(b) PROVE FALSE
  <2>1. b = a /\ upload'[b].stage \in {"opening", "sending"}
    BY <1>1, <1>4 DEF Start
  <2> QED
    BY <2>1
<1>5. ASSUME NEW b \in Attempt, NEW u \in Record, Quietly(b, u), u.stage # "ok" PROVE FALSE
  BY <1>1, <1>5 DEF Quietly
<1>6. ASSUME NEW b \in Attempt, NEW u \in Record, Fails(b, u) PROVE FALSE
  <2>1. b = a /\ upload'[a] = [u EXCEPT !.stage = "failed"]
    BY <1>1, <1>6 DEF Fails
  <2> QED
    BY <1>6, <2>1 DEF Record
<1>7. ASSUME NEW b \in Attempt, NEW u \in Record, Succeeds(b, u), upload[b].stage \in Ongoing,
             u.mode = upload[b].mode, u.here = upload[b].here,
             DOMAIN u.part = DOMAIN upload[b].part
      PROVE  /\ UnderWay(a) /\ upload'[a].mode = upload[a].mode
             /\ DOMAIN upload'[a].part = DOMAIN upload[a].part
  <2>1. b = a /\ upload'[a] = [u EXCEPT !.stage = "ok"]
    BY <1>1, <1>7 DEF Succeeds
  <2>2. upload'[a].here = u.here /\ upload'[a].mode = u.mode /\ upload'[a].part = u.part
    BY <1>7, <2>1 DEF Record
  <2> QED
    BY <1>7, <2>1, <2>2 DEF UnderWay, Ongoing
<1>8. ASSUME NEW b \in Attempt, SessionOpened(b) PROVE FALSE
  <2>1. upload[b] \in Record /\ PartsTrue(upload[b]) /\ upload[b].stage = "opening"
    BY <1>1, <1>8 DEF SessionOpened
  <2>2. NextBatch(upload[b]) \in Record /\ NextBatch(upload[b]).stage # "ok"
    BY <2>1, NextBatchIs DEF PartsTrue, Ongoing
  <2> QED
    BY <1>5, <1>6, <1>8, <2>1, <2>2 DEF SessionOpened
<1>9. ASSUME NEW b \in Attempt, Completed(b)
      PROVE  /\ UnderWay(a) /\ upload'[a].mode = upload[a].mode
             /\ DOMAIN upload'[a].part = DOMAIN upload[a].part
  <2>1. upload[b] \in Record /\ upload[b].stage \in Ongoing
    BY <1>1, <1>9 DEF Completed, Ongoing
  <2> QED
    BY <1>6, <1>7, <1>9, <2>1 DEF Completed
<1>10. ASSUME NEW b \in Attempt, PartLost(b) PROVE FALSE
  <2> DEFINE v == upload[b]
  <2>1. v \in Record /\ PartsTrue(v)
    BY <1>1
  <2>2. PICK p \in Sending(v) :
           LET u == [v EXCEPT !.part[p] = "lost"]
           IN  IF u.stage = "sending" THEN Fails(b, u) ELSE Quietly(b, u)
    BY <1>10 DEF PartLost
  <2> HIDE DEF v
  <2> DEFINE u == [v EXCEPT !.part[p] = "lost"]
  <2>3. p \in DOMAIN v.part /\ v.part[p] = "sending" /\ "lost" \in Part
    BY DEF Sending, Part
  <2>4. u \in Record /\ u.stage = v.stage
    BY <2>1, <2>3, PartIs
  <2>5. v.stage # "ok"
    BY <2>1, <2>3 DEF PartsTrue
  <2>6. Fails(b, u) \/ Quietly(b, u)
    BY <2>2
  <2> HIDE DEF u
  <2> QED
    BY <1>5, <1>6, <2>4, <2>5, <2>6
<1>11. ASSUME NEW b \in Attempt, PartStored(b)
       PROVE  /\ UnderWay(a) /\ upload'[a].mode = upload[a].mode
              /\ DOMAIN upload'[a].part = DOMAIN upload[a].part
  <2> DEFINE v == upload[b]
  <2>1. v \in Record /\ PartsTrue(v)
    BY <1>1
  <2>2. PICK p \in Sending(v) :
           LET u == [v EXCEPT !.part[p] = "stored"]
           IN  IF u.stage # "sending" THEN Quietly(b, u)
               ELSE IF u.chunked THEN Quietly(b, NextBatch(u))
               ELSE IF Sending(u) = {} THEN Succeeds(b, u)
               ELSE Quietly(b, u)
    BY <1>11 DEF PartStored
  <2> HIDE DEF v
  <2> DEFINE u == [v EXCEPT !.part[p] = "stored"]
  <2>3. p \in DOMAIN v.part /\ v.part[p] = "sending" /\ "stored" \in Part
    BY DEF Sending, Part
  <2>4. /\ u \in Record /\ u.part = [v.part EXCEPT ![p] = "stored"] /\ DOMAIN u.part = DOMAIN v.part
        /\ u.mode = v.mode /\ u.here = v.here /\ u.stage = v.stage /\ u.chunked = v.chunked
    BY <2>1, <2>3, PartIs
  <2>5. v.stage # "ok"
    BY <2>1, <2>3 DEF PartsTrue
  <2>6. \/ Quietly(b, u) \/ (u.stage = "sending" /\ u.chunked /\ Quietly(b, NextBatch(u)))
        \/ (u.stage = "sending" /\ Succeeds(b, u))
    BY <2>2
  <2> HIDE DEF u
  <2>7. CASE Quietly(b, u)
    BY <1>5, <2>4, <2>5, <2>7
  <2>8. CASE u.stage = "sending" /\ u.chunked /\ Quietly(b, NextBatch(u))
    <3>1. \A q \in DOMAIN u.part : u.part[q] = IF q = p THEN "stored" ELSE v.part[q]
      BY <2>1, <2>3, <2>4 DEF Record
    <3>2. PartsTrue(u)
      BY <2>1, <2>3, <2>4, <3>1 DEF PartsTrue
    <3>3. NextBatch(u) \in Record /\ NextBatch(u).stage # "ok"
      BY <2>4, <2>8, <3>2, NextBatchIs DEF Ongoing
    <3> QED
      BY <1>5, <2>8, <3>3
  <2>9. CASE u.stage = "sending" /\ Succeeds(b, u)
    BY <1>7, <2>4, <2>9 DEF v, Ongoing
  <2> QED
    BY <2>6, <2>7, <2>8, <2>9
<1> QED
  BY <1>2, <1>3, <1>4, <1>8, <1>9, <1>10, <1>11 DEF UploadNext

\* An upload completes or succeeds only when every part of it is stored, and the
\* files a success clears from the selection were all in it.
THEOREM SuccessesAreWhole == UploadSpec => SuccessIsWhole
<1> DEFINE Whole ==
       \A a \in Attempt :
          LET u == upload'[a]
          IN  u # upload[a] /\ u.stage \in {"completing", "ok"} =>
                 /\ \A p \in DOMAIN u.part : u.part[p] = "stored"
                 /\ a \in left \/ ~u.here \/ u.mode = "zip" \/ picked \subseteq DOMAIN u.part
<1>1. PlaceInv /\ [UploadNext]_uploadVars => [Whole]_uploadVars
  <2> SUFFICES ASSUME PlaceInv, UploadNext, NEW a \in Attempt, upload'[a] # upload[a],
                      upload'[a].stage \in {"completing", "ok"}
               PROVE  LET u == upload'[a]
                      IN  /\ \A p \in DOMAIN u.part : u.part[p] = "stored"
                          /\ a \in left \/ ~u.here \/ u.mode = "zip" \/ picked \subseteq DOMAIN u.part
    OBVIOUS
  <2>1. PlaceInv'
    BY PlaceNextInv
  <2>2. PartsTrue(upload[a])' /\ upload'[a] \in Record
    BY <2>1 DEF PlaceInv, PlaceTyped
  <2>3. \A p \in DOMAIN upload'[a].part : upload'[a].part[p] = "stored"
    BY <2>2 DEF PartsTrue
  <2>4. CASE upload'[a].stage = "completing"
    BY <2>2, <2>3, <2>4 DEF PartsTrue
  <2>5. CASE upload'[a].stage = "ok" /\ upload'[a].here /\ a \notin left /\ upload'[a].mode # "zip"
    <3>1. UnderWay(a) /\ upload'[a].mode = upload[a].mode
            /\ DOMAIN upload'[a].part = DOMAIN upload[a].part
      BY <2>5, SuccessIs
    <3>2. upload[a].mode = "files"
      BY <2>2, <2>5, <3>1 DEF Record, Mode
    <3> QED
      BY <2>3, <2>5, <3>1, <3>2 DEF PlaceInv, StillPicked
  <2> QED
    BY <2>3, <2>4, <2>5
<1> QED
  BY <1>1, PlaceInvariance, PTL DEF UploadSpec, SuccessIsWhole

-----------------------------------------------------------------------------
(***************************************************************************)
(* The card in which the metadata of a dataset are edited, for any number  *)
(* of texts, requests and surprises.                                       *)
(***************************************************************************)
Put == [column : MetaColumn, text : Nat, state : {"sent", "found", "saved", "failed", "done"},
        seen : [MetaColumn -> Nat]]

OnWay(n, column) == puts[n].column = column /\ puts[n].state \in {"sent", "found"}

\* One request, and no other, is taking this text there.
Carried(column, text) ==
    \E n \in DOMAIN puts : /\ OnWay(n, column) /\ puts[n].text = text
                          /\ \A m \in DOMAIN puts : OnWay(m, column) => m = n

SomeSaved == \E n \in DOMAIN puts : puts[n].state = "saved"

CardTyped ==
    /\ row \in [MetaColumn -> Nat] /\ meta \in [MetaColumn -> Nat] /\ wanted \in [MetaColumn -> Nat]
    /\ query \in {<<>>, <<"asked">>} \cup ({"read"} \X [MetaColumn -> Nat])
    /\ field \in [Input -> Nat] /\ focus \in Input \cup {"none"} /\ puts \in Seq(Put)
    /\ texts \in Nat /\ dropped \subseteq MetaColumn /\ unseen \in BOOLEAN /\ alert \in BOOLEAN

\* What was entered for a column is in the database, or one request takes it there.
EditOnItsWay ==
    \A c \in MetaColumn \ dropped :
        \/ c = focus
        \/ ~OnItsWay(c) /\ row[c] = wanted[c]
        \/ Carried(c, wanted[c])

\* What the database holds is on display, or will be asked for.
RowOnItsWay ==
    ~unseen => \/ SomeSaved
               \/ query = <<"asked">> \/ query = <<"read", row>>
               \/ query = <<>> /\ meta = row

\* A field shows what was entered, or what is on display.
FieldsTrue == ~unseen => \A c \in Input \ dropped : field[c] \in {wanted[c], meta[c]}

CardInv == CardTyped /\ EditOnItsWay /\ RowOnItsWay /\ FieldsTrue

LEMMA CardInitInv == CardInit => CardInv
<1> SUFFICES ASSUME CardInit PROVE CardInv
  OBVIOUS
<1> USE DEF CardInit
<1>1. [c \in MetaColumn |-> 0] \in [MetaColumn -> Nat] /\ [c \in Input |-> 0] \in [Input -> Nat]
  OBVIOUS
<1>2. puts \in Seq(Put) /\ DOMAIN puts = {}
  OBVIOUS
<1>3. CardTyped
  BY <1>1, <1>2 DEF CardTyped
<1>4. EditOnItsWay
  BY <1>2 DEF EditOnItsWay, OnItsWay
<1>5. RowOnItsWay
  BY DEF RowOnItsWay
<1>6. FieldsTrue
  BY DEF FieldsTrue, MetaColumn
<1> QED
  BY <1>3, <1>4, <1>5, <1>6 DEF CardInv

\* No request changes, and nothing is on its way that was not.
LEMMA SamePuts ==
    ASSUME puts' = puts
    PROVE  /\ SomeSaved' <=> SomeSaved
           /\ \A c : (OnItsWay(c)' <=> OnItsWay(c)) /\ \A t : Carried(c, t)' <=> Carried(c, t)
BY DEF OnItsWay, OnWay, Carried, SomeSaved

\* What becomes of the requests when one is sent.
LEMMA Sent ==
    ASSUME CardTyped, NEW column \in MetaColumn, NEW text \in Nat,
           puts' = Append(puts, [column |-> column, text |-> text, state |-> "sent", seen |-> row])
    PROVE  /\ puts' \in Seq(Put) /\ (SomeSaved => SomeSaved')
           /\ ~OnItsWay(column) => Carried(column, text)'
           /\ \A c \in MetaColumn \ {column} :
                 (OnItsWay(c)' <=> OnItsWay(c)) /\ \A t : Carried(c, t) => Carried(c, t)'
<1> DEFINE put == [column |-> column, text |-> text, state |-> "sent", seen |-> row]
<1>1. put \in Put /\ put.column = column /\ put.text = text /\ put.state = "sent"
  BY DEF CardTyped, Put
<1>2. puts \in Seq(Put)
  BY DEF CardTyped
<1> HIDE DEF put
<1>3. puts' = Append(puts, put)
  BY DEF put
<1>4. PICK last \in Nat :
         /\ puts' \in Seq(Put) /\ DOMAIN puts' = DOMAIN puts \cup {last} /\ last \notin DOMAIN puts
         /\ \A n \in DOMAIN puts : puts'[n] = puts[n]
         /\ puts'[last] = put
  <2> DEFINE end == Len(puts) + 1
  <2>1. /\ puts' \in Seq(Put) /\ DOMAIN puts' = DOMAIN puts \cup {end} /\ end \notin DOMAIN puts
        /\ \A n \in DOMAIN puts : puts'[n] = puts[n]
        /\ puts'[end] = put /\ end \in Nat
    BY <1>1, <1>2, <1>3
  <2> HIDE DEF end
  <2> QED
    BY <2>1
<1>5. \A n \in DOMAIN puts : \A c : OnWay(n, c)' <=> OnWay(n, c)
  BY <1>4 DEF OnWay
<1>6. \A c : OnWay(last, c)' <=> c = column
  BY <1>1, <1>4 DEF OnWay
<1>7. \A c : OnItsWay(c) <=> \E n \in DOMAIN puts : OnWay(n, c)
  BY DEF OnItsWay, OnWay
<1>8. \A c : OnItsWay(c)' <=> \E n \in DOMAIN puts' : OnWay(n, c)'
  BY DEF OnItsWay, OnWay
<1>9. SomeSaved => SomeSaved'
  BY <1>4 DEF SomeSaved
<1>10. ASSUME ~OnItsWay(column) PROVE Carried(column, text)'
  BY <1>1, <1>4, <1>5, <1>6, <1>7, <1>10 DEF Carried
<1>11. ASSUME NEW c \in MetaColumn \ {column}
       PROVE  (OnItsWay(c)' <=> OnItsWay(c)) /\ \A t : Carried(c, t) => Carried(c, t)'
  <2>1. OnItsWay(c)' <=> OnItsWay(c)
    BY <1>4, <1>5, <1>6, <1>7, <1>8
  <2>2. ASSUME NEW t, Carried(c, t) PROVE Carried(c, t)'
    <3>1. PICK n \in DOMAIN puts : /\ OnWay(n, c) /\ puts[n].text = t
                                   /\ \A m \in DOMAIN puts : OnWay(m, c) => m = n
      BY <2>2 DEF Carried
    <3>2. n \in DOMAIN puts' /\ OnWay(n, c)' /\ puts'[n].text = t
      BY <1>4, <1>5, <3>1
    <3>3. \A m \in DOMAIN puts' : OnWay(m, c)' => m = n
      BY <1>4, <1>5, <1>6, <3>1
    <3> QED
      BY <3>2, <3>3 DEF Carried
  <2> QED
    BY <2>1, <2>2
<1> QED
  BY <1>4, <1>9, <1>10, <1>11

\* What becomes of them when one moves on: while it is on its way, and when it
\* is not any more.
LEMMA Moved ==
    ASSUME CardTyped, NEW n \in DOMAIN puts, NEW put \in Put, puts' = [puts EXCEPT ![n] = put],
           put.column = puts[n].column, put.text = puts[n].text, puts[n].state # "saved"
    PROVE  /\ puts' \in Seq(Put) /\ (SomeSaved => SomeSaved')
           /\ put.state = "saved" => SomeSaved'
           /\ \A c \in MetaColumn \ {puts[n].column} :
                 (OnItsWay(c)' <=> OnItsWay(c)) /\ \A t : Carried(c, t) => Carried(c, t)'
           /\ OnWay(n, puts[n].column) /\ put.state \in {"sent", "found"} =>
                 \A c : (OnItsWay(c)' <=> OnItsWay(c)) /\ \A t : Carried(c, t) => Carried(c, t)'
           /\ \A t : OnWay(n, puts[n].column) /\ Carried(puts[n].column, t) => t = put.text
<1>1. puts \in Seq(Put)
  BY DEF CardTyped
<1>2. /\ puts' \in Seq(Put) /\ DOMAIN puts' = DOMAIN puts
      /\ \A m \in DOMAIN puts \ {n} : puts'[m] = puts[m]
      /\ puts'[n] = put
  BY <1>1
<1>3. SomeSaved => SomeSaved'
  <2> SUFFICES ASSUME NEW m \in DOMAIN puts, puts[m].state = "saved" PROVE SomeSaved'
    BY DEF SomeSaved
  <2>1. m # n
    OBVIOUS
  <2> QED
    BY <1>2, <2>1 DEF SomeSaved
<1>4. put.state = "saved" => SomeSaved'
  BY <1>2 DEF SomeSaved
<1>5. \A m \in DOMAIN puts \ {n} : \A c : OnWay(m, c)' <=> OnWay(m, c)
  BY <1>2 DEF OnWay
<1>6. \A c : OnWay(n, c)' <=> c = puts[n].column /\ put.state \in {"sent", "found"}
  BY <1>2 DEF OnWay
<1>7. \A c : OnWay(n, c) => c = puts[n].column
  BY DEF OnWay
<1>8. \A c : OnItsWay(c) <=> \E m \in DOMAIN puts : OnWay(m, c)
  BY DEF OnItsWay, OnWay
<1>9. \A c : OnItsWay(c)' <=> \E m \in DOMAIN puts' : OnWay(m, c)'
  BY DEF OnItsWay, OnWay
<1>10. \A m \in DOMAIN puts : puts'[m].text = puts[m].text
  BY <1>2
<1>11. ASSUME NEW c, OnWay(n, c)' <=> OnWay(n, c)
       PROVE  (OnItsWay(c)' <=> OnItsWay(c)) /\ \A t : Carried(c, t) => Carried(c, t)'
  <2>1. \A m \in DOMAIN puts : OnWay(m, c)' <=> OnWay(m, c)
    BY <1>5, <1>11
  <2>2. OnItsWay(c)' <=> OnItsWay(c)
    BY <1>2, <1>8, <1>9, <2>1
  <2>3. \A t : Carried(c, t) => Carried(c, t)'
    BY <1>2, <1>10, <2>1 DEF Carried
  <2> QED
    BY <2>2, <2>3
<1>12. \A t : OnWay(n, puts[n].column) /\ Carried(puts[n].column, t) => t = put.text
  BY DEF Carried
<1>13. \A c \in MetaColumn \ {puts[n].column} : OnWay(n, c)' <=> OnWay(n, c)
  BY <1>6, <1>7
<1>14. OnWay(n, puts[n].column) /\ put.state \in {"sent", "found"} =>
          \A c : OnWay(n, c)' <=> OnWay(n, c)
  BY <1>6, <1>7
<1> QED
  BY <1>2, <1>3, <1>4, <1>11, <1>12, <1>13, <1>14

\* The steps that leave the requests alone, but for the fetch and edits elsewhere.
LEMMA TypingInv ==
    ASSUME CardInv, EnterText \/ (\E c \in Input : Focus(c))
    PROVE  CardInv'
<1> USE DEF CardInv
<1>1. puts' = puts /\ UNCHANGED <<row, meta, query, alert, dropped, unseen>>
  BY DEF EnterText, Focus
<1>2. CASE \E c \in Input : Focus(c)
  <2>1. focus = "none" /\ focus' \in Input /\ UNCHANGED <<field, wanted, texts>>
    BY <1>2 DEF Focus
  <2>2. CardTyped'
    BY <1>1, <2>1 DEF CardTyped
  <2>3. \A c \in MetaColumn : c # focus
    BY <2>1 DEF MetaColumn, Input
  <2>4. EditOnItsWay'
    BY <1>1, <2>1, <2>3, SamePuts DEF EditOnItsWay
  <2>5. RowOnItsWay' /\ FieldsTrue'
    BY <1>1, <2>1, SamePuts DEF RowOnItsWay, FieldsTrue
  <2> QED
    BY <2>2, <2>4, <2>5
<1>3. CASE EnterText
  <2>1. /\ focus \in Input /\ focus' = focus /\ texts' = texts + 1
        /\ field' = [field EXCEPT ![focus] = texts + 1]
        /\ wanted' = [wanted EXCEPT ![focus] = texts + 1]
    BY <1>3 DEF EnterText, CardTyped
  <2>2. focus \in MetaColumn /\ texts + 1 \in Nat
    BY <2>1 DEF MetaColumn, CardTyped
  <2>3. CardTyped'
    BY <1>1, <2>1, <2>2 DEF CardTyped
  <2>4. \A c \in MetaColumn \ {focus} : wanted'[c] = wanted[c]
    BY <2>1 DEF CardTyped
  <2>5. EditOnItsWay'
    BY <1>1, <2>1, <2>4, SamePuts DEF EditOnItsWay
  <2>6. RowOnItsWay'
    BY <1>1, SamePuts DEF RowOnItsWay
  <2>7. \A c \in Input \ {focus} : field'[c] = field[c] /\ wanted'[c] = wanted[c]
    BY <2>1, <2>4 DEF CardTyped, MetaColumn
  <2>8. field'[focus] = texts + 1 /\ wanted'[focus] = texts + 1
    BY <2>1, <2>2 DEF CardTyped
  <2>9. FieldsTrue'
    BY <1>1, <2>1, <2>7, <2>8 DEF FieldsTrue
  <2> QED
    BY <2>3, <2>5, <2>6, <2>9
<1> QED
  BY <1>2, <1>3

\* A save is sent: it is the only one of its column, or the column is given up.
LEMMA SavingInv ==
    ASSUME CardInv, Blur \/ ChooseType
    PROVE  CardInv'
<1> USE DEF CardInv
<1>1. PICK column \in MetaColumn, text \in Nat :
         /\ puts' = Append(puts, [column |-> column, text |-> text, state |-> "sent", seen |-> row])
         /\ dropped' = IF text # wanted'[column] \/ OnItsWay(column) THEN dropped \cup {column}
                       ELSE dropped \ {column}
         /\ focus' = "none" /\ (focus = "none" \/ focus = column)
         /\ UNCHANGED <<row, meta, query, alert, field, unseen>>
         /\ texts' \in Nat /\ wanted' \in [MetaColumn -> Nat]
         /\ \A c \in MetaColumn \ {column} : wanted'[c] = wanted[c]
         /\ column \in Input => text = field[column]
  <2>1. CASE Blur
    <3>1. focus \in Input /\ focus \in MetaColumn /\ field[focus] \in Nat
      BY <2>1 DEF Blur, CardTyped, MetaColumn
    <3> QED
      BY <2>1, <3>1 DEF Blur, SaveField, CardTyped
  <2>2. CASE ChooseType
    <3>1. "type" \in MetaColumn /\ "type" \notin Input /\ texts + 1 \in Nat
      BY DEF MetaColumn, Input, CardTyped
    <3> QED
      BY <2>2, <3>1 DEF ChooseType, SaveField, CardTyped
  <2> QED
    BY <2>1, <2>2
<1>2. /\ puts' \in Seq(Put) /\ (SomeSaved => SomeSaved')
      /\ ~OnItsWay(column) => Carried(column, text)'
      /\ \A c \in MetaColumn \ {column} :
            (OnItsWay(c)' <=> OnItsWay(c)) /\ \A t : Carried(c, t) => Carried(c, t)'
  BY <1>1, Sent
<1>3. CardTyped'
  BY <1>1, <1>2 DEF CardTyped
<1>4. ASSUME NEW c \in MetaColumn \ dropped'
      PROVE  (~OnItsWay(c)' /\ row'[c] = wanted'[c]) \/ Carried(c, wanted[c])'
  <2>1. CASE c = column
    <3>1. text = wanted'[c] /\ ~OnItsWay(c)
      BY <1>1, <1>4, <2>1
    <3> QED
      BY <1>2, <2>1, <3>1
  <2>2. CASE c # column
    <3>1. c \notin dropped /\ c # focus
      BY <1>1, <1>4, <2>2 DEF CardTyped, MetaColumn, Input
    <3>2. wanted'[c] = wanted[c]
      BY <1>1, <2>2
    <3>3. (~OnItsWay(c) /\ row[c] = wanted[c]) \/ Carried(c, wanted[c])
      BY <3>1 DEF EditOnItsWay
    <3>4. Carried(c, wanted'[c]) => Carried(c, wanted[c])'
      BY <1>2, <2>2, <3>2
    <3> QED
      BY <1>1, <1>2, <2>2, <3>2, <3>3, <3>4
  <2> QED
    BY <2>1, <2>2
<1>5. EditOnItsWay'
  BY <1>4 DEF EditOnItsWay
<1>6. RowOnItsWay'
  BY <1>1, <1>2 DEF RowOnItsWay
<1>7. FieldsTrue'
  <2> SUFFICES ASSUME ~unseen, NEW c \in Input \ dropped' PROVE field[c] \in {wanted'[c], meta[c]}
    BY <1>1 DEF FieldsTrue
  <2>1. CASE c = column
    BY <1>1, <2>1
  <2>2. CASE c # column
    BY <1>1, <2>2 DEF FieldsTrue, MetaColumn
  <2> QED
    BY <2>1, <2>2
<1> QED
  BY <1>3, <1>5, <1>6, <1>7

\* A request that finds the row is on its way as before.
LEMMA FindRowInv == ASSUME CardInv, NEW n \in DOMAIN puts, FindRow(n) PROVE CardInv'
<1> USE DEF CardInv
<1> DEFINE put == [puts[n] EXCEPT !.state = "found", !.seen = row]
<1>1. puts[n] \in Put /\ puts[n].state = "sent"
  BY DEF FindRow, CardTyped
<1>2. /\ put \in Put /\ put.column = puts[n].column /\ put.text = puts[n].text
      /\ put.state = "found"
  BY <1>1 DEF Put, CardTyped
<1>3. /\ puts' = [puts EXCEPT ![n] = put] /\ OnWay(n, puts[n].column)
      /\ UNCHANGED <<row, meta, query, alert, field, focus, texts, surprises, wanted, dropped, unseen>>
  BY <1>1 DEF FindRow, OnWay
<1> HIDE DEF put
<1>4. /\ puts' \in Seq(Put) /\ (SomeSaved => SomeSaved')
      /\ \A c : (OnItsWay(c)' <=> OnItsWay(c)) /\ \A t : Carried(c, t) => Carried(c, t)'
  BY <1>1, <1>2, <1>3, Moved
<1>5. CardTyped'
  BY <1>3, <1>4 DEF CardTyped
<1>6. EditOnItsWay'
  <2> SUFFICES ASSUME NEW c \in MetaColumn \ dropped, c # focus
               PROVE  (~OnItsWay(c)' /\ row[c] = wanted[c]) \/ Carried(c, wanted[c])'
    BY <1>3 DEF EditOnItsWay
  <2>1. (~OnItsWay(c) /\ row[c] = wanted[c]) \/ Carried(c, wanted[c])
    BY DEF EditOnItsWay
  <2>2. Carried(c, wanted[c]) => Carried(c, wanted[c])'
    BY <1>3, <1>4
  <2> QED
    BY <1>4, <2>1, <2>2
<1>7. RowOnItsWay' /\ FieldsTrue'
  BY <1>3, <1>4 DEF RowOnItsWay, FieldsTrue
<1> QED
  BY <1>5, <1>6, <1>7

\* A request that writes the row: its column holds what was entered, and what
\* another call wrote to the others is given up.
LEMMA SaveRowInv == ASSUME CardInv, NEW n \in DOMAIN puts, SaveRow(n) PROVE CardInv'
<1> USE DEF CardInv
<1> DEFINE put == [puts[n] EXCEPT !.state = "saved"]
           d == puts[n].column
<1>1. puts[n] \in Put /\ puts[n].state = "found"
  BY DEF SaveRow, CardTyped
<1>2. /\ put \in Put /\ put.column = d /\ put.text = puts[n].text
      /\ put.state = "saved" /\ d \in MetaColumn /\ put.text \in Nat
      /\ puts[n].seen \in [MetaColumn -> Nat]
  BY <1>1 DEF Put
<1>3. PICK seen \in [MetaColumn -> Nat] :
         /\ puts' = [puts EXCEPT ![n] = put] /\ OnWay(n, d)
         /\ row' = [seen EXCEPT ![d] = put.text]
         /\ dropped' = dropped \cup {c \in MetaColumn \ {d} : row'[c] # row[c]}
         /\ UNCHANGED <<meta, query, alert, field, focus, texts, surprises, wanted, unseen>>
  BY <1>1, <1>2 DEF SaveRow, OnWay
<1> HIDE DEF put
<1>4. /\ puts' \in Seq(Put) /\ SomeSaved'
      /\ \A c \in MetaColumn \ {d} :
            (OnItsWay(c)' <=> OnItsWay(c)) /\ \A t : Carried(c, t) => Carried(c, t)'
      /\ \A t : Carried(d, t) => t = put.text
  BY <1>1, <1>2, <1>3, Moved
<1>5. row' \in [MetaColumn -> Nat] /\ row'[d] = put.text
  BY <1>2, <1>3
<1>6. CardTyped'
  BY <1>3, <1>4, <1>5 DEF CardTyped
<1>7. \A c : OnItsWay(c)' <=> \E m \in DOMAIN puts' : OnWay(m, c)'
  BY DEF OnItsWay, OnWay
<1>8. OnItsWay(d)
  BY <1>3 DEF OnItsWay, OnWay
<1>9. \A t : Carried(d, t) => \A m \in DOMAIN puts' : ~(puts'[m].column = d /\ puts'[m].state \in {"sent", "found"})
  <2>1. DOMAIN puts' = DOMAIN puts /\ puts'[n] = put /\ \A m \in DOMAIN puts \ {n} : puts'[m] = puts[m]
    BY <1>3 DEF CardTyped
  <2> QED
    BY <1>2, <1>3, <2>1 DEF Carried, OnWay
<1> HIDE DEF d
<1>10. ASSUME NEW c \in MetaColumn \ dropped', c # focus
       PROVE  (~OnItsWay(c)' /\ row'[c] = wanted[c]) \/ Carried(c, wanted[c])'
  <2>1. c \notin dropped /\ ((~OnItsWay(c) /\ row[c] = wanted[c]) \/ Carried(c, wanted[c]))
    BY <1>3, <1>10 DEF EditOnItsWay
  <2>2. CASE c = d
    <3>1. Carried(c, wanted[c])
      BY <1>8, <2>1, <2>2
    <3>2. row'[c] = wanted[c]
      BY <1>4, <1>5, <2>2, <3>1
    <3>3. ~OnItsWay(c)'
      BY <1>9, <2>2, <3>1 DEF OnItsWay
    <3> QED
      BY <3>2, <3>3
  <2>3. CASE c # d
    <3>1. row'[c] = row[c]
      BY <1>3, <1>10, <2>3
    <3>2. Carried(c, wanted[c]) => Carried(c, wanted[c])'
      BY <1>3, <1>4, <2>3
    <3> QED
      BY <1>4, <2>1, <2>3, <3>1, <3>2
  <2> QED
    BY <2>2, <2>3
<1>11. EditOnItsWay'
  BY <1>3, <1>10 DEF EditOnItsWay
<1>12. RowOnItsWay'
  BY <1>4 DEF RowOnItsWay
<1>13. FieldsTrue'
  BY <1>3 DEF FieldsTrue
<1> QED
  BY <1>6, <1>11, <1>12, <1>13

\* A request that ends: one that failed has given its column up, and the answer
\* to one that did not has the dataset fetched.
LEMMA AnsweredInv ==
    ASSUME CardInv, NEW n \in DOMAIN puts, UpdateFails(n) \/ Updated(n)
    PROVE  CardInv'
<1> USE DEF CardInv
<1> DEFINE d == puts[n].column
<1>1. PICK s \in {"failed", "done"} :
         /\ puts' = [puts EXCEPT ![n].state = s]
         /\ UNCHANGED <<row, meta, alert, field, focus, texts, wanted>>
         /\ s = "failed" => dropped' = dropped \cup {d} /\ unseen' /\ query' = query
         /\ s = "done" => /\ dropped' = dropped /\ unseen' = unseen /\ query' = <<"asked">>
                          /\ ~OnWay(n, d)
  BY DEF UpdateFails, Updated, OnWay
<1>2. puts[n] \in Put /\ d \in MetaColumn
  <2>1. puts[n] \in Put
    BY DEF CardTyped
  <2> QED
    BY <2>1 DEF Put
<1>3. [puts[n] EXCEPT !.state = s] \in Put
  BY <1>2 DEF Put
<1>4. puts' \in Seq(Put) /\ DOMAIN puts' = DOMAIN puts
  BY <1>1, <1>3 DEF CardTyped
<1>5. /\ \A m \in DOMAIN puts : puts'[m].column = puts[m].column /\ puts'[m].text = puts[m].text
      /\ \A m \in DOMAIN puts \ {n} : puts'[m] = puts[m]
      /\ puts'[n].state = s
  BY <1>1, <1>2, <1>4 DEF CardTyped, Put
<1>6. unseen' \in BOOLEAN /\ dropped' \subseteq MetaColumn
         /\ query' \in {query, <<"asked">>}
  BY <1>1, <1>2 DEF CardTyped
<1>7. CardTyped'
  BY <1>1, <1>4, <1>6 DEF CardTyped
<1> HIDE DEF d
<1>8. ASSUME NEW c \in MetaColumn \ dropped', c # focus
      PROVE  (~OnItsWay(c)' /\ row[c] = wanted[c]) \/ Carried(c, wanted[c])'
  <2>1. c \notin dropped /\ (c = d => ~OnWay(n, c))
    BY <1>1, <1>8
  <2>2. \A m \in DOMAIN puts : OnWay(m, c)' <=> OnWay(m, c)
    BY <1>1, <1>4, <1>5, <2>1 DEF OnWay, d
  <2>3. OnItsWay(c)' <=> OnItsWay(c)
    BY <1>4, <2>2 DEF OnItsWay, OnWay
  <2>4. \A t : Carried(c, t) => Carried(c, t)'
    BY <1>4, <1>5, <2>2 DEF Carried
  <2>5. Carried(c, wanted[c]) => Carried(c, wanted[c])'
    BY <1>1, <2>4
  <2> QED
    BY <1>8, <2>1, <2>3, <2>5 DEF EditOnItsWay
<1>9. EditOnItsWay'
  BY <1>1, <1>8 DEF EditOnItsWay
<1>10. RowOnItsWay' /\ FieldsTrue'
  BY <1>1 DEF RowOnItsWay, FieldsTrue
<1> QED
  BY <1>7, <1>9, <1>10

\* The fetch of the dataset, begun or answered.
LEMMA FetchingInv == ASSUME CardInv, Refetch \/ Read PROVE CardInv'
<1> USE DEF CardInv
<1>1. UNCHANGED <<row, meta, alert, field, focus, puts, texts, wanted, dropped, unseen>>
  BY DEF Refetch, Read
<1>2. \/ query' = <<"asked">>
      \/ query' = <<"read", row>> /\ query = <<"asked">>
  BY DEF Refetch, Read
<1>3. query' \in {<<>>, <<"asked">>} \cup ({"read"} \X [MetaColumn -> Nat])
  BY <1>2 DEF CardTyped
<1>4. CardTyped'
  BY <1>1, <1>3 DEF CardTyped
<1>5. EditOnItsWay'
  BY <1>1, SamePuts DEF EditOnItsWay
<1>6. RowOnItsWay' /\ FieldsTrue'
  BY <1>1, <1>2 DEF RowOnItsWay, FieldsTrue
<1> QED
  BY <1>4, <1>5, <1>6

\* The alert: the column that was being edited is given up, unless the database
\* holds what was entered.
LEMMA ReadFailsInv == ASSUME CardInv, ReadFails PROVE CardInv'
<1> USE DEF CardInv
<1>1. /\ UNCHANGED <<row, meta, field, puts, texts, wanted>>
      /\ query' = <<>> /\ alert' = TRUE /\ focus' = "none" /\ unseen' = TRUE
      /\ dropped' = dropped \cup {c \in Input : c = focus /\ (row[c] # wanted[c] \/ OnItsWay(c))}
  BY DEF ReadFails
<1>2. CardTyped'
  BY <1>1 DEF CardTyped, MetaColumn
<1>3. EditOnItsWay'
  <2> SUFFICES ASSUME NEW c \in MetaColumn \ dropped'
               PROVE  (~OnItsWay(c) /\ row[c] = wanted[c]) \/ Carried(c, wanted[c])
    BY <1>1, SamePuts DEF EditOnItsWay
  <2>1. CASE c = focus
    <3>1. c \in Input
      BY <2>1 DEF CardTyped, MetaColumn, Input
    <3> QED
      BY <1>1, <2>1, <3>1
  <2>2. CASE c # focus
    BY <1>1, <2>2 DEF EditOnItsWay
  <2> QED
    BY <2>1, <2>2
<1>4. RowOnItsWay' /\ FieldsTrue'
  BY <1>1 DEF RowOnItsWay, FieldsTrue
<1> QED
  BY <1>2, <1>3, <1>4

\* The dataset on display is replaced, and with it both fields, or the card is
\* there again.
LEMMA RefreshedInv == ASSUME CardInv, Refreshed PROVE CardInv'
<1> USE DEF CardInv
<1>1. PICK read \in [MetaColumn -> Nat] : query = <<"read", read>>
  <2>1. query # <<>> /\ query # <<"asked">>
    BY DEF Refreshed
  <2>2. query \in {"read"} \X [MetaColumn -> Nat]
    BY <2>1 DEF CardTyped
  <2> QED
    BY <2>2
<1>2. /\ query' = <<>> /\ alert' = FALSE /\ meta' = read
      /\ unseen' = (unseen /\ ~((meta' # meta \/ alert) /\ meta' = row))
      /\ UNCHANGED <<row, focus, puts, texts, wanted, dropped>>
  BY <1>1 DEF Refreshed
<1>3. \/ meta' = meta /\ ~alert /\ field' = field
      \/ field' = [c \in Input |-> meta'[c]]
  BY DEF Refreshed
<1>4. CardTyped'
  <2>1. field' \in [Input -> Nat]
    BY <1>1, <1>2, <1>3 DEF CardTyped, MetaColumn
  <2>2. unseen' \in BOOLEAN
    BY <1>2
  <2> QED
    BY <1>1, <1>2, <2>1, <2>2 DEF CardTyped
<1>5. EditOnItsWay'
  BY <1>2, SamePuts DEF EditOnItsWay
<1>6. RowOnItsWay'
  <2> SUFFICES ASSUME ~unseen' PROVE SomeSaved' \/ meta' = row
    BY <1>2 DEF RowOnItsWay
  <2>1. CASE unseen
    BY <1>2, <2>1
  <2>2. CASE ~unseen
    BY <1>1, <1>2, <2>2, SamePuts DEF RowOnItsWay
  <2> QED
    BY <2>1, <2>2
<1>7. FieldsTrue'
  <2>1. CASE meta' = meta /\ ~alert /\ field' = field
    <3>1. unseen' = unseen
      BY <1>2, <2>1 DEF CardTyped
    <3> QED
      BY <1>2, <2>1, <3>1 DEF FieldsTrue
  <2>2. CASE field' = [c \in Input |-> meta'[c]]
    BY <2>2 DEF FieldsTrue
  <2> QED
    BY <1>3, <2>1, <2>2
<1> QED
  BY <1>4, <1>5, <1>6, <1>7

\* What is entered elsewhere is in the database at once.
LEMMA ElsewhereInv == ASSUME CardInv, Elsewhere PROVE CardInv'
<1> USE DEF CardInv
<1> DEFINE new == texts + 1
<1>1. PICK d \in MetaColumn :
         /\ row' = [row EXCEPT ![d] = new] /\ wanted' = [wanted EXCEPT ![d] = new]
         /\ dropped' = IF OnItsWay(d) THEN dropped \cup {d} ELSE dropped \ {d}
         /\ texts' = new /\ unseen' = TRUE
         /\ UNCHANGED <<meta, query, alert, field, focus, puts>>
  BY DEF Elsewhere
<1>2. new \in Nat
  BY DEF CardTyped
<1> HIDE DEF new
<1>3. CardTyped'
  BY <1>1, <1>2 DEF CardTyped
<1>4. /\ row'[d] = new /\ wanted'[d] = new
      /\ \A c \in MetaColumn \ {d} : row'[c] = row[c] /\ wanted'[c] = wanted[c]
  BY <1>1 DEF CardTyped
<1>5. ASSUME NEW c \in MetaColumn \ dropped', c # focus
      PROVE  (~OnItsWay(c)' /\ row'[c] = wanted'[c]) \/ Carried(c, wanted[c])'
  <2>1. CASE c = d
    BY <1>1, <1>4, <1>5, <2>1, SamePuts
  <2>2. CASE c # d
    <3>1. (~OnItsWay(c) /\ row[c] = wanted[c]) \/ Carried(c, wanted[c])
      BY <1>1, <1>5, <2>2 DEF EditOnItsWay
    <3>2. Carried(c, wanted[c]) => Carried(c, wanted'[c])
      BY <1>4, <2>2
    <3> QED
      BY <1>1, <1>4, <2>2, <3>1, <3>2 DEF OnItsWay, OnWay, Carried
  <2> QED
    BY <2>1, <2>2
<1>6. EditOnItsWay'
  BY <1>1, <1>5 DEF EditOnItsWay
<1>7. RowOnItsWay' /\ FieldsTrue'
  BY <1>1 DEF RowOnItsWay, FieldsTrue
<1> QED
  BY <1>3, <1>6, <1>7

LEMMA CardNextInv == CardInv /\ [CardNext]_cardVars => CardInv'
<1> SUFFICES ASSUME CardInv, [CardNext]_cardVars PROVE CardInv'
  OBVIOUS
<1>1. CASE EnterText \/ \E c \in Input : Focus(c)
  BY <1>1, TypingInv
<1>2. CASE Blur \/ ChooseType
  BY <1>2, SavingInv
<1>3. ASSUME NEW n \in DOMAIN puts, FindRow(n) PROVE CardInv'
  BY <1>3, FindRowInv
<1>4. ASSUME NEW n \in DOMAIN puts, SaveRow(n) PROVE CardInv'
  BY <1>4, SaveRowInv
<1>5. ASSUME NEW n \in DOMAIN puts, UpdateFails(n) \/ Updated(n) PROVE CardInv'
  BY <1>5, AnsweredInv
<1>6. CASE Refetch \/ Read
  BY <1>6, FetchingInv
<1>10. CASE ReadFails
  BY <1>10, ReadFailsInv
<1>7. CASE Refreshed
  BY <1>7, RefreshedInv
<1>8. CASE Elsewhere
  BY <1>8, ElsewhereInv
<1>9. CASE UNCHANGED cardVars
  <2>1. UNCHANGED <<row, meta, query, alert, field, focus, puts, texts, wanted, dropped, unseen>>
    BY <1>9 DEF cardVars
  <2>2. CardTyped'
    BY <2>1 DEF CardInv, CardTyped
  <2>3. EditOnItsWay'
    BY <2>1, SamePuts DEF CardInv, EditOnItsWay
  <2>4. RowOnItsWay' /\ FieldsTrue'
    BY <2>1, SamePuts DEF CardInv, RowOnItsWay, FieldsTrue
  <2> QED
    BY <2>2, <2>3, <2>4 DEF CardInv
<1> QED
  BY <1>1, <1>2, <1>3, <1>4, <1>5, <1>6, <1>7, <1>8, <1>9, <1>10 DEF CardNext

\* The invariant of the card, for any number of texts, requests and surprises.
THEOREM CardInvariance == CardSpec => []CardInv
BY CardInitInv, CardNextInv, PTL DEF CardSpec

\* When all is quiet the database holds what was last entered for each column the
\* card did not give up, and the fields show it.
THEOREM EditsAreKept == CardSpec => []EditsReach
<1>1. CardInv => EditsReach
  <2> SUFFICES ASSUME CardInv, Quiet
               PROVE  /\ \A c \in MetaColumn \ dropped : row[c] = wanted[c]
                      /\ ~unseen => meta = row /\ \A c \in Input \ dropped : field[c] = row[c]
    BY DEF EditsReach
  <2>1. \A c \in MetaColumn : c # focus
    BY DEF Quiet, MetaColumn, Input
  <2>2. \A c : ~OnItsWay(c) /\ \A t : ~Carried(c, t)
    BY DEF Quiet, OnItsWay, OnWay, Carried
  <2>3. \A c \in MetaColumn \ dropped : row[c] = wanted[c]
    BY <2>1, <2>2 DEF CardInv, EditOnItsWay
  <2>4. ~unseen => meta = row
    BY DEF Quiet, CardInv, RowOnItsWay, SomeSaved
  <2>5. ASSUME ~unseen, NEW c \in Input \ dropped PROVE field[c] = row[c]
    <3>1. c \in MetaColumn
      BY DEF MetaColumn
    <3> QED
      BY <2>3, <2>4, <2>5, <3>1 DEF CardInv, FieldsTrue
  <2> QED
    BY <2>3, <2>4, <2>5
<1> QED
  BY <1>1, CardInvariance, PTL

-----------------------------------------------------------------------------
(***************************************************************************)
(* The table of jobs, for any number of jobs, requests and failures.  What *)
(* it lists and what the requests under way will still write into it are   *)
(* together what the API has, as long as none of them has crossed a poll.  *)
(***************************************************************************)
Status == {"pending", "running", "killed", "ended"}
Row == [job : Train, status : Status]
Request == [kind : {"create", "kill"}, job : Train,
            state : {"sent", "begun", "handled", "done"},
            answer : Status \cup {"none"}, crossed : BOOLEAN]

\* A request has taken effect, perhaps, and is not answered.
Pending(n) == orders[n].state \in {"begun", "handled"}
Creates(n, j) == orders[n].kind = "create" /\ orders[n].job = j
Kills(n, j) == orders[n].kind = "kill" /\ orders[n].job = j

Listed(rs, j) == \E k \in DOMAIN rs : rs[k].job = j
HasRow(j) == \E n \in DOMAIN rows : rows[n].job = j

TableTyped ==
    /\ rows \in Seq(Row)
    /\ list = <<>> \/ \E rs \in Seq(Row) : list = <<rs>>
    /\ \/ listFetch \in {<<>>, <<"asked">>}
       \/ \E rs \in Seq(Row) : listFetch = <<"read", rs>>
    /\ asking = <<>> \/ \E j \in Train : asking = <<j>>
    /\ orders \in Seq(Request)
    /\ hidden \in BOOLEAN /\ overtaken \in BOOLEAN

\* A job has one row, and whatever is listed, asked for or under way is of one
\* that has; but for the one that is being created, which has none before.
JobsTrue ==
    /\ \A m, n \in DOMAIN rows : rows[m].job = rows[n].job => m = n
    /\ list # <<>> => \A k \in DOMAIN list[1] : HasRow(list[1][k].job)
    /\ Len(listFetch) = 2 => \A k \in DOMAIN listFetch[2] : HasRow(listFetch[2][k].job)
    /\ asking # <<>> => HasRow(asking[1])
    /\ \A n \in DOMAIN orders :
          orders[n].kind = "kill" \/ Pending(n) => HasRow(orders[n].job)
    /\ \A n \in DOMAIN orders :
          orders[n].kind = "create" /\ orders[n].state = "sent" => ~HasRow(orders[n].job)

\* One creation is under way at a time, and nobody has seen its job unless it
\* has crossed a poll.
CreationsTrue ==
    /\ \A m, n \in DOMAIN orders :
          /\ orders[m].kind = "create" /\ orders[m].state # "done"
          /\ orders[n].kind = "create" /\ orders[n].state # "done"
          => m = n
    /\ \A n \in DOMAIN orders :
          orders[n].kind = "create" /\ Pending(n) /\ ~orders[n].crossed =>
             /\ list # <<>> => ~Listed(list[1], orders[n].job)
             /\ Len(listFetch) = 2 => ~Listed(listFetch[2], orders[n].job)
             /\ asking # <<orders[n].job>>
             /\ \A m \in DOMAIN orders : ~Kills(m, orders[n].job)

\* A kill that has begun, or is answered, has found that the job runs no longer.
KillsTrue ==
    /\ \A n \in DOMAIN orders : orders[n].state = "handled" => orders[n].answer \in Status
    /\ \A n \in DOMAIN orders :
          /\ orders[n].kind = "kill" /\ orders[n].state = "handled" => orders[n].answer # "running"
          /\ orders[n].kind = "kill" /\ orders[n].state = "begun" =>
                \A m \in DOMAIN rows :
                   rows[m].job = orders[n].job => rows[m].status \notin {"pending", "running"}

\* Nothing has changed that no answer will tell.
Told == ~hidden /\ ~overtaken /\ \A n \in DOMAIN orders : Pending(n) => ~orders[n].crossed

BeingCreated(j) == \E n \in DOMAIN orders : Creates(n, j) /\ Pending(n)
BeingKilled(j) == \E n \in DOMAIN orders : Kills(n, j) /\ Pending(n)

\* The answers on their way say what the rows say.
AnswersTell ==
    Told => \A n \in DOMAIN orders : orders[n].state = "handled" =>
               \A m \in DOMAIN rows : rows[m].job = orders[n].job => rows[m].status = orders[n].answer

\* The list, with the requests under way, is the rows; and so is a list that is
\* on its way.
ListTells ==
    /\ Told /\ Len(listFetch) = 2 => listFetch[2] = rows
    /\ Told /\ Len(listFetch) # 2 /\ list # <<>> =>
          /\ \A m \in DOMAIN rows :
                \/ \E k \in DOMAIN list[1] : list[1][k] = rows[m]
                \/ BeingCreated(rows[m].job)
                \/ BeingKilled(rows[m].job) /\ Listed(list[1], rows[m].job)
          /\ Len(rows) = Len(list[1]) + (IF \E j \in Train : BeingCreated(j) THEN 1 ELSE 0)

TableInv == TableTyped /\ JobsTrue /\ CreationsTrue /\ KillsTrue /\ AnswersTell /\ ListTells

LEMMA TableInitInv == TableInit => TableInv
<1> SUFFICES ASSUME TableInit PROVE TableInv
  OBVIOUS
<1>1. rows \in Seq(Row) /\ Len(rows) \in {0, 1}
  <2>1. CASE rows = <<>>
    BY <2>1
  <2>2. CASE \E j \in Train, s \in {"running", "ended"} : rows = <<[job |-> j, status |-> s]>>
    <3>1. PICK r \in Row : rows = <<r>>
      BY <2>2 DEF Row, Status
    <3> QED
      BY <3>1
  <2> QED
    BY <2>1, <2>2 DEF TableInit
<1>2. list = <<>> /\ listFetch = <<>> /\ asking = <<>> /\ orders = <<>> /\ DOMAIN orders = {}
  BY DEF TableInit
<1>3. TableTyped
  <2>1. orders \in Seq(Request)
    BY <1>2
  <2> QED
    BY <1>1, <1>2, <2>1 DEF TableTyped, TableInit
<1>4. JobsTrue
  BY <1>1, <1>2 DEF JobsTrue
<1>5. CreationsTrue /\ KillsTrue /\ AnswersTell /\ ListTells
  BY <1>2 DEF CreationsTrue, KillsTrue, AnswersTell, ListTells
<1> QED
  BY <1>3, <1>4, <1>5 DEF TableInv

\* What is said of requests and rows that do not change.
LEMMA SameOrders ==
    ASSUME orders' = orders
    PROVE  /\ \A n : Pending(n)' <=> Pending(n)
           /\ \A n, j : (Creates(n, j)' <=> Creates(n, j)) /\ (Kills(n, j)' <=> Kills(n, j))
           /\ \A j : (BeingCreated(j)' <=> BeingCreated(j)) /\ (BeingKilled(j)' <=> BeingKilled(j))
BY DEF Pending, Creates, Kills, BeingCreated, BeingKilled

LEMMA SameRows == ASSUME rows' = rows PROVE \A j : HasRow(j)' <=> HasRow(j)
BY DEF HasRow

\* The steps of the page and of the query that leave requests and rows alone.
LEMMA IdleTableInv ==
    ASSUME TableInv, UNCHANGED <<rows, list, orders, overtaken>>,
           \/ asking' \in {<<>>, asking}
           \/ \E j \in Train : asking' = <<j>> /\ list # <<>> /\ Listed(list[1], j)
           \/ \E j \in Train : asking' = <<j>> /\ HasRow(j) /\ ~BeingCreated(j),
           \/ listFetch' = listFetch
           \/ Len(listFetch) # 2 /\ listFetch' = <<"asked">>,
           hidden' = hidden
    PROVE  TableInv'
<1> USE DEF TableInv
<1>1. TableTyped'
  BY DEF TableTyped
<1>2. /\ asking' # <<>> => HasRow(asking'[1])
      /\ \A j : asking' = <<j>> =>
            asking = <<j>> \/ (list # <<>> /\ Listed(list[1], j)) \/ ~BeingCreated(j)
  BY DEF JobsTrue, Listed
<1>3. /\ Len(listFetch') = 2 => listFetch' = listFetch
      /\ Told' => Told /\ (Len(listFetch') = 2 <=> Len(listFetch) = 2)
  <2>1. Len(<<>>) = 0 /\ Len(<<"asked">>) = 1
    OBVIOUS
  <2>2. Told' => Told /\ ~hidden'
    BY SameOrders DEF Told, TableTyped
  <2> QED
    BY <2>1, <2>2
<1>4. JobsTrue'
  BY <1>2, <1>3, SameOrders, SameRows DEF JobsTrue
<1>5. CreationsTrue'
  <2>1. \A n \in DOMAIN orders : orders[n].kind = "create" /\ Pending(n) => BeingCreated(orders[n].job)
    BY DEF BeingCreated, Creates
  <2> QED
    BY <1>2, <1>3, <2>1, SameOrders DEF CreationsTrue
<1>6. KillsTrue'
  BY DEF KillsTrue
<1>7. AnswersTell'
  BY <1>3 DEF AnswersTell
<1>8. ListTells'
  BY <1>3, SameOrders DEF ListTells
<1> QED
  BY <1>1, <1>4, <1>5, <1>6, <1>7, <1>8

\* The list is written with nothing new in it: it says no more than it did, or
\* it is known that it may not.
LEMMA ListRewrittenInv ==
    ASSUME TableInv, NEW rs \in Seq(Row), list' = <<rs>>, UNCHANGED <<rows, asking, orders>>,
           hidden' \in BOOLEAN, overtaken' \in BOOLEAN, hidden => hidden', overtaken => overtaken',
           listFetch' \in {listFetch, <<>>},
           \A i : Listed(rs, i) => list # <<>> /\ Listed(list[1], i),
           ~hidden' /\ ~overtaken' =>
              /\ Len(listFetch) # 2 /\ list # <<>> /\ Len(rs) = Len(list[1])
              /\ \A m \in DOMAIN rows :
                    /\ (\E k \in DOMAIN list[1] : list[1][k] = rows[m]) => \E k \in DOMAIN rs : rs[k] = rows[m]
                    /\ Listed(list[1], rows[m].job) => Listed(rs, rows[m].job)
    PROVE  TableInv'
<1> USE DEF TableInv
<1>1. TableTyped'
  BY DEF TableTyped
<1>2. list'[1] = rs /\ list' # <<>>
  OBVIOUS
<1>3. Len(listFetch') = 2 => listFetch' = listFetch
  <2>1. Len(<<>>) = 0
    OBVIOUS
  <2>2. CASE listFetch' = <<>>
    <3>1. Len(listFetch') = 0
      BY <2>1, <2>2
    <3> QED
      BY <3>1
  <2> QED
    BY <2>2
<1>4. Told' => Told /\ ~hidden' /\ ~overtaken'
  BY SameOrders DEF Told, TableTyped
<1>5. JobsTrue'
  <2>1. \A k \in DOMAIN rs : HasRow(rs[k].job)
    BY DEF JobsTrue, Listed
  <2> QED
    BY <1>2, <1>3, <2>1, SameOrders, SameRows DEF JobsTrue
<1>6. CreationsTrue'
  BY <1>2, <1>3, SameOrders DEF CreationsTrue
<1>7. KillsTrue'
  BY DEF KillsTrue
<1>8. AnswersTell'
  BY <1>4 DEF AnswersTell
<1>9. ListTells'
  <2>1. CASE ~Told'
    BY <2>1 DEF ListTells
  <2>2. CASE Told'
    <3>1. /\ \A m \in DOMAIN rows :
                \/ \E k \in DOMAIN list[1] : list[1][k] = rows[m]
                \/ BeingCreated(rows[m].job)
                \/ BeingKilled(rows[m].job) /\ Listed(list[1], rows[m].job)
          /\ Len(rows) = Len(list[1]) + (IF \E j \in Train : BeingCreated(j) THEN 1 ELSE 0)
      BY <1>4, <2>2 DEF ListTells
    <3>2. /\ \A m \in DOMAIN rows :
                \/ \E k \in DOMAIN rs : rs[k] = rows[m]
                \/ BeingCreated(rows[m].job)
                \/ BeingKilled(rows[m].job) /\ Listed(rs, rows[m].job)
          /\ Len(rows) = Len(rs) + (IF \E j \in Train : BeingCreated(j) THEN 1 ELSE 0)
      BY <1>4, <2>2, <3>1
    <3>3. Len(listFetch') # 2
      BY <1>3, <1>4, <2>2
    <3> QED
      BY <1>2, <3>2, <3>3, SameOrders DEF ListTells
  <2> QED
    BY <2>1, <2>2
<1> QED
  BY <1>1, <1>5, <1>6, <1>7, <1>8, <1>9

\* A poll fails, and leaves nothing in the list.
LEMMA ListFailsInv == ASSUME TableInv, ListFails PROVE TableInv'
<1>1. PICK rs \in Seq(Row) : rs = <<>>
  <2>1. <<>> \in Seq(Row)
    OBVIOUS
  <2> QED
    BY <2>1
<1>2. list' = <<rs>> /\ \A i : ~Listed(rs, i)
  BY <1>1 DEF ListFails, Listed
<1>3. hidden' = TRUE /\ listFetch' = <<>> /\ UNCHANGED <<rows, asking, orders, overtaken>>
  BY DEF ListFails, pageVars
<1>4. overtaken' \in BOOLEAN
  BY <1>3 DEF TableInv, TableTyped
<1> QED
  BY <1>2, <1>3, <1>4, ListRewrittenInv

\* A request is sent: the creation of a job without a row, the only one under
\* way, or the kill of one that was displayed.
LEMMA SendingInv ==
    ASSUME TableInv, (\E j \in Train : OrderCreate(j)) \/ ConfirmKill
    PROVE  TableInv'
<1> USE DEF TableInv
<1>1. PICK new \in Request :
         /\ orders' = Append(orders, new) /\ new.state = "sent"
         /\ UNCHANGED <<rows, tableOn, list, listFetch, upsets, hidden, overtaken>>
         /\ asking' \in {asking, <<>>}
         /\ \/ /\ new.kind = "create" /\ RowOf(new.job) = {}
               /\ \A n \in DOMAIN orders : orders[n].kind = "create" => orders[n].state = "done"
            \/ new.kind = "kill" /\ asking = <<new.job>>
  <2>1. ASSUME NEW j \in Train, NEW kind \in {"create", "kill"}, Order(kind, j)
        PROVE  \E new \in Request :
                  /\ orders' = Append(orders, new) /\ new.state = "sent"
                  /\ new.kind = kind /\ new.job = j
                  /\ UNCHANGED <<rows, tableOn, list, listFetch, upsets, hidden, overtaken>>
    <3> DEFINE new == [kind |-> kind, job |-> j, state |-> "sent", answer |-> "none", crossed |-> FALSE]
    <3>1. new \in Request /\ orders' = Append(orders, new)
      BY <2>1 DEF Order, Request
    <3> QED
      BY <2>1, <3>1 DEF Order
  <2>2. ASSUME NEW j \in Train, OrderCreate(j)
        PROVE  /\ Order("create", j) /\ asking' = asking /\ RowOf(j) = {}
               /\ \A n \in DOMAIN orders : orders[n].kind = "create" => orders[n].state = "done"
    BY <2>2 DEF OrderCreate
  <2>3. ASSUME ConfirmKill
        PROVE  \E j \in Train : Order("kill", j) /\ asking' = <<>> /\ asking = <<j>>
    <3>1. PICK j \in Train : asking = <<j>>
      BY <2>3 DEF ConfirmKill, TableTyped
    <3> QED
      BY <2>3, <3>1 DEF ConfirmKill
  <2> QED
    BY <2>1, <2>2, <2>3
<1>2. PICK last \in Nat :
         /\ orders' \in Seq(Request) /\ DOMAIN orders' = DOMAIN orders \cup {last} /\ last \notin DOMAIN orders
         /\ \A n \in DOMAIN orders : orders'[n] = orders[n]
         /\ orders'[last] = new
  <2> DEFINE end == Len(orders) + 1
  <2>1. orders \in Seq(Request)
    BY DEF TableTyped
  <2>2. /\ orders' \in Seq(Request) /\ DOMAIN orders' = DOMAIN orders \cup {end} /\ end \notin DOMAIN orders
        /\ \A n \in DOMAIN orders : orders'[n] = orders[n]
        /\ orders'[end] = new /\ end \in Nat
    BY <1>1, <2>1
  <2> HIDE DEF end
  <2> QED
    BY <2>2
<1>3. TableTyped'
  BY <1>1, <1>2 DEF TableTyped
<1>4. /\ ~Pending(last)' /\ new.job \in Train
      /\ \A n \in DOMAIN orders : Pending(n)' <=> Pending(n)
  BY <1>1, <1>2 DEF Pending, Request
<1>5. /\ \A j : BeingCreated(j)' <=> BeingCreated(j)
      /\ \A j : BeingKilled(j)' <=> BeingKilled(j)
      /\ Told' => Told
  <2>1. \A j : \A n \in DOMAIN orders : (Creates(n, j)' <=> Creates(n, j)) /\ (Kills(n, j)' <=> Kills(n, j))
    BY <1>2 DEF Creates, Kills
  <2>2. \A j : BeingCreated(j)' <=> BeingCreated(j)
    BY <1>2, <1>4, <2>1 DEF BeingCreated
  <2>3. \A j : BeingKilled(j)' <=> BeingKilled(j)
    BY <1>2, <1>4, <2>1 DEF BeingKilled
  <2>4. Told' => Told
    BY <1>1, <1>2, <1>4 DEF Told
  <2> QED
    BY <2>2, <2>3, <2>4
<1>6. /\ new.kind = "create" => ~HasRow(new.job)
      /\ new.kind = "kill" => HasRow(new.job)
  BY <1>1 DEF RowOf, HasRow, JobsTrue
<1>7. JobsTrue'
  <2>1. \A n \in DOMAIN orders' :
           /\ orders'[n].kind = "kill" \/ Pending(n)' => HasRow(orders'[n].job)
           /\ orders'[n].kind = "create" /\ orders'[n].state = "sent" => ~HasRow(orders'[n].job)
    BY <1>2, <1>4, <1>6 DEF JobsTrue
  <2>2. asking' # <<>> => HasRow(asking'[1])
    BY <1>1 DEF JobsTrue
  <2>3. \A n : (HasRow(orders'[n].job) <=> HasRow(orders[n].job)') /\ \A j : HasRow(j)' <=> HasRow(j)
    BY <1>1 DEF HasRow
  <2> QED
    BY <1>1, <2>1, <2>2, <2>3 DEF JobsTrue
<1>8. CreationsTrue'
  <2>1. \A m, n \in DOMAIN orders' :
           /\ orders'[m].kind = "create" /\ orders'[m].state # "done"
           /\ orders'[n].kind = "create" /\ orders'[n].state # "done"
           => m = n
    BY <1>1, <1>2 DEF CreationsTrue
  <2>2. ASSUME NEW n \in DOMAIN orders', orders'[n].kind = "create", Pending(n)', ~orders'[n].crossed
        PROVE  /\ list' # <<>> => ~Listed(list'[1], orders'[n].job)
               /\ Len(listFetch') = 2 => ~Listed(listFetch'[2], orders'[n].job)
               /\ asking' # <<orders'[n].job>>
               /\ \A m \in DOMAIN orders' : ~(orders'[m].kind = "kill" /\ orders'[m].job = orders'[n].job)
    <3>1. n \in DOMAIN orders /\ orders'[n] = orders[n] /\ Pending(n)
      BY <1>2, <1>4, <2>2
    <3>2. /\ list # <<>> => ~Listed(list[1], orders[n].job)
          /\ Len(listFetch) = 2 => ~Listed(listFetch[2], orders[n].job)
          /\ asking # <<orders[n].job>>
          /\ \A m \in DOMAIN orders : ~Kills(m, orders[n].job)
      BY <2>2, <3>1 DEF CreationsTrue
    <3>3. ~(new.kind = "kill" /\ new.job = orders[n].job)
      BY <1>1, <3>2
    <3>4. asking' # <<orders[n].job>>
      <4>1. \A j : <<>> # <<j>>
        OBVIOUS
      <4> QED
        BY <1>1, <3>2, <4>1
    <3> QED
      BY <1>1, <1>2, <3>1, <3>2, <3>3, <3>4 DEF Kills
  <2> QED
    BY <2>1, <2>2 DEF CreationsTrue, Kills
<1>9. KillsTrue'
  BY <1>1, <1>2 DEF KillsTrue
<1>10. AnswersTell'
  BY <1>1, <1>2, <1>5 DEF AnswersTell
<1>11. ListTells'
  BY <1>1, <1>5 DEF ListTells
<1> QED
  BY <1>3, <1>7, <1>8, <1>9, <1>10, <1>11

\* One request moves on.
LEMMA OneOrder ==
    ASSUME TableTyped, NEW n \in DOMAIN orders, NEW ord \in Request,
           orders' = [orders EXCEPT ![n] = ord], ord.kind = orders[n].kind, ord.job = orders[n].job
    PROVE  /\ orders' \in Seq(Request) /\ DOMAIN orders' = DOMAIN orders
           /\ orders'[n] = ord /\ \A m \in DOMAIN orders \ {n} : orders'[m] = orders[m]
           /\ \A m \in DOMAIN orders : orders'[m].kind = orders[m].kind /\ orders'[m].job = orders[m].job
           /\ \A m \in DOMAIN orders \ {n} : Pending(m)' <=> Pending(m)
           /\ Pending(n)' <=> ord.state \in {"begun", "handled"}
           /\ \A m \in DOMAIN orders : \A j : (Creates(m, j)' <=> Creates(m, j)) /\ (Kills(m, j)' <=> Kills(m, j))
<1>1. orders \in Seq(Request)
  BY DEF TableTyped
<1>2. /\ orders' \in Seq(Request) /\ DOMAIN orders' = DOMAIN orders
      /\ orders'[n] = ord /\ \A m \in DOMAIN orders \ {n} : orders'[m] = orders[m]
  BY <1>1
<1> QED
  BY <1>2 DEF Pending, Creates, Kills

LEMMA RefusedInv == ASSUME TableInv, NEW n \in DOMAIN orders, OrderRefused(n) PROVE TableInv'
<1> USE DEF TableInv
<1> DEFINE ord == [orders[n] EXCEPT !.state = "done"]
<1>1. orders[n] \in Request /\ orders[n].state = "sent"
  BY DEF OrderRefused, TableTyped
<1>2. /\ ord \in Request /\ ord.kind = orders[n].kind /\ ord.job = orders[n].job
      /\ ord.state = "done" /\ ord.crossed = orders[n].crossed
  BY <1>1 DEF Request
<1>3. orders' = [orders EXCEPT ![n] = ord] /\ UNCHANGED <<rows, tableOn, asking, list, listFetch, hidden, overtaken>>
  BY DEF OrderRefused, pageVars
<1> HIDE DEF ord
<1>4. /\ orders' \in Seq(Request) /\ DOMAIN orders' = DOMAIN orders
      /\ orders'[n] = ord /\ \A m \in DOMAIN orders \ {n} : orders'[m] = orders[m]
      /\ \A m \in DOMAIN orders : orders'[m].kind = orders[m].kind /\ orders'[m].job = orders[m].job
      /\ \A m \in DOMAIN orders \ {n} : Pending(m)' <=> Pending(m)
      /\ Pending(n)' <=> ord.state \in {"begun", "handled"}
      /\ \A m \in DOMAIN orders : \A j : (Creates(m, j)' <=> Creates(m, j)) /\ (Kills(m, j)' <=> Kills(m, j))
  BY <1>2, <1>3, OneOrder
<1>5. /\ \A m \in DOMAIN orders : Pending(m)' <=> Pending(m)
      /\ \A m \in DOMAIN orders : Pending(m)' => m # n /\ orders'[m] = orders[m]
  BY <1>1, <1>2, <1>4 DEF Pending
<1>6. /\ \A j : BeingCreated(j)' <=> BeingCreated(j)
      /\ \A j : BeingKilled(j)' <=> BeingKilled(j)
      /\ Told' <=> Told
  BY <1>3, <1>4, <1>5 DEF BeingCreated, BeingKilled, Told
<1>7. TableTyped'
  BY <1>3, <1>4 DEF TableTyped
<1>8. \A m \in DOMAIN orders : orders'[m].state = "sent" \/ orders'[m].state # "done" => orders'[m] = orders[m]
  BY <1>2, <1>4
<1>9. JobsTrue'
  <2>1. \A j : HasRow(j)' <=> HasRow(j)
    BY <1>3, SameRows
  <2>2. \A m \in DOMAIN orders' :
           /\ orders'[m].kind = "kill" \/ Pending(m)' => HasRow(orders[m].job)
           /\ orders'[m].kind = "create" /\ orders'[m].state = "sent" => ~HasRow(orders[m].job)
    BY <1>4, <1>5, <1>8 DEF JobsTrue
  <2> QED
    BY <1>3, <1>4, <2>1, <2>2 DEF JobsTrue, HasRow
<1>10. CreationsTrue'
  <2>1. \A m, k \in DOMAIN orders' :
           /\ orders'[m].kind = "create" /\ orders'[m].state # "done"
           /\ orders'[k].kind = "create" /\ orders'[k].state # "done"
           => m = k
    BY <1>4, <1>8 DEF CreationsTrue
  <2>2. ASSUME NEW m \in DOMAIN orders', orders'[m].kind = "create", Pending(m)', ~orders'[m].crossed
        PROVE  /\ list # <<>> => ~Listed(list[1], orders[m].job)
               /\ Len(listFetch) = 2 => ~Listed(listFetch[2], orders[m].job)
               /\ asking # <<orders[m].job>>
               /\ \A k \in DOMAIN orders : ~Kills(k, orders[m].job)
    BY <1>4, <1>5, <2>2 DEF CreationsTrue
  <2> QED
    BY <1>3, <1>4, <2>1, <2>2 DEF CreationsTrue, Kills
<1>11. KillsTrue'
  BY <1>3, <1>4, <1>8 DEF KillsTrue
<1>12. AnswersTell'
  BY <1>3, <1>4, <1>6, <1>8 DEF AnswersTell
<1>13. ListTells'
  BY <1>3, <1>6 DEF ListTells
<1> QED
  BY <1>7, <1>9, <1>10, <1>11, <1>12, <1>13

\* The rows are read: a request that has taken effect and is not answered will
\* write over them.
LEMMA ReadListInv == ASSUME TableInv, ReadList PROVE TableInv'
<1> USE DEF TableInv
<1>1. /\ listFetch' = <<"read", rows>> /\ UNCHANGED <<rows, tableOn, asking, list>>
      /\ hidden' = FALSE /\ overtaken' = FALSE
      /\ orders' = [n \in DOMAIN orders |->
                      IF orders[n].state \in {"begun", "handled"} THEN [orders[n] EXCEPT !.crossed = TRUE]
                      ELSE orders[n]]
  BY DEF ReadList, pageVars
<1>2. \A n \in DOMAIN orders :
         /\ orders'[n] \in Request
         /\ orders'[n].kind = orders[n].kind /\ orders'[n].job = orders[n].job
         /\ orders'[n].state = orders[n].state /\ orders'[n].answer = orders[n].answer
         /\ orders[n].state \in {"begun", "handled"} => orders'[n].crossed
  <2> SUFFICES ASSUME NEW n \in DOMAIN orders
               PROVE  /\ orders'[n] \in Request
                      /\ orders'[n].kind = orders[n].kind /\ orders'[n].job = orders[n].job
                      /\ orders'[n].state = orders[n].state /\ orders'[n].answer = orders[n].answer
                      /\ orders[n].state \in {"begun", "handled"} => orders'[n].crossed
    OBVIOUS
  <2>1. orders[n] \in Request
    BY DEF TableTyped
  <2>2. orders'[n] = IF orders[n].state \in {"begun", "handled"} THEN [orders[n] EXCEPT !.crossed = TRUE]
                     ELSE orders[n]
    BY <1>1
  <2>3. CASE orders[n].state \in {"begun", "handled"}
    <3>1. orders'[n] = [orders[n] EXCEPT !.crossed = TRUE]
      BY <2>2, <2>3
    <3> QED
      BY <2>1, <3>1 DEF Request
  <2>4. CASE orders[n].state \notin {"begun", "handled"}
    BY <2>1, <2>2, <2>4
  <2> QED
    BY <2>3, <2>4
<1>3. DOMAIN orders' = DOMAIN orders /\ orders' \in Seq(Request)
  <2>1. DOMAIN orders = 1..Len(orders) /\ Len(orders) \in Nat
    BY DEF TableTyped
  <2>2. orders' \in [1..Len(orders) -> Request]
    BY <1>1, <1>2, <2>1
  <2> QED
    BY <2>1, <2>2
<1>4. \A n \in DOMAIN orders : (Pending(n)' <=> Pending(n)) /\ (Pending(n) => orders'[n].crossed)
  BY <1>2 DEF Pending
<1>5. TableTyped'
  BY <1>1, <1>3 DEF TableTyped
<1>6. Told' => \A n \in DOMAIN orders : ~Pending(n)
  BY <1>3, <1>4 DEF Told
<1>7. listFetch'[2] = rows /\ Len(listFetch') = 2
  BY <1>1
<1>8. JobsTrue'
  <2>1. \A j : HasRow(j)' <=> HasRow(j)
    BY <1>1, SameRows
  <2>2. \A m \in DOMAIN orders' :
           /\ orders'[m].kind = "kill" \/ Pending(m)' => HasRow(orders[m].job)
           /\ orders'[m].kind = "create" /\ orders'[m].state = "sent" => ~HasRow(orders[m].job)
    BY <1>2, <1>3, <1>4 DEF JobsTrue
  <2>3. \A k \in DOMAIN listFetch'[2] : HasRow(listFetch'[2][k].job)
    BY <1>7 DEF HasRow
  <2> QED
    BY <1>1, <1>2, <1>3, <2>1, <2>2, <2>3 DEF JobsTrue, HasRow
<1>9. CreationsTrue'
  BY <1>2, <1>3, <1>4 DEF CreationsTrue
<1>10. KillsTrue'
  BY <1>1, <1>2, <1>3 DEF KillsTrue
<1>11. AnswersTell'
  BY <1>2, <1>3, <1>6 DEF AnswersTell, Pending
<1>12. ListTells'
  BY <1>1, <1>7 DEF ListTells
<1> QED
  BY <1>5, <1>8, <1>9, <1>10, <1>11, <1>12

\* A list that was read, and that nothing crossed, replaces the one on display.
LEMMA ListArrivesInv == ASSUME TableInv, ListArrives PROVE TableInv'
<1> USE DEF TableInv
<1>1. PICK rs \in Seq(Row) : listFetch = <<"read", rs>>
  <2>1. listFetch # <<>> /\ listFetch # <<"asked">>
    BY DEF ListArrives
  <2> QED
    BY <2>1 DEF TableTyped
<1>2. /\ list' = <<rs>> /\ listFetch' = <<>> /\ Len(listFetch) = 2 /\ listFetch[2] = rs
      /\ UNCHANGED <<rows, asking, orders, hidden, overtaken>>
  BY <1>1 DEF ListArrives, pageVars
<1>3. TableTyped'
  BY <1>2 DEF TableTyped
<1>4. list'[1] = rs /\ list' # <<>> /\ Len(listFetch') = 0
  BY <1>2
<1>5. JobsTrue'
  BY <1>2, <1>4, SameRows, SameOrders DEF JobsTrue
<1>6. CreationsTrue'
  BY <1>2, <1>4, SameOrders DEF CreationsTrue
<1>7. KillsTrue'
  BY <1>2 DEF KillsTrue
<1>8. Told' <=> Told
  BY <1>2, SameOrders DEF Told
<1>9. AnswersTell'
  BY <1>2, <1>8 DEF AnswersTell
<1>10. ListTells'
  <2> SUFFICES ASSUME Told
               PROVE  /\ \A m \in DOMAIN rows : \E k \in DOMAIN rs : rs[k] = rows[m]
                      /\ Len(rows) = Len(rs) /\ \A j \in Train : ~BeingCreated(j)
    BY <1>2, <1>4, <1>8, SameOrders DEF ListTells
  <2>1. rs = rows
    BY <1>2 DEF ListTells
  <2>2. ASSUME NEW j \in Train, BeingCreated(j) PROVE FALSE
    <3>1. PICK n \in DOMAIN orders : Creates(n, j) /\ Pending(n)
      BY <2>2 DEF BeingCreated
    <3>2. HasRow(j) /\ ~Listed(rs, j)
      BY <1>2, <3>1 DEF Creates, Told, JobsTrue, CreationsTrue
    <3> QED
      BY <2>1, <3>2 DEF HasRow, Listed
  <2> QED
    BY <2>1, <2>2
<1> QED
  BY <1>3, <1>5, <1>6, <1>7, <1>9, <1>10

\* A change of the status of a job in some rows.
LEMMA WithStatusIs ==
    ASSUME NEW rs \in Seq(Row), NEW j \in Train, NEW s \in Status
    PROVE  /\ WithStatus(rs, j, s) \in Seq(Row)
           /\ DOMAIN WithStatus(rs, j, s) = DOMAIN rs /\ Len(WithStatus(rs, j, s)) = Len(rs)
           /\ \A n \in DOMAIN rs : /\ WithStatus(rs, j, s)[n].job = rs[n].job
                                   /\ rs[n].job = j => WithStatus(rs, j, s)[n] = [job |-> j, status |-> s]
                                   /\ rs[n].job # j => WithStatus(rs, j, s)[n] = rs[n]
           /\ \A i : Listed(WithStatus(rs, j, s), i) <=> Listed(rs, i)
<1> DEFINE new == [n \in DOMAIN rs |-> IF rs[n].job = j THEN [job |-> j, status |-> s] ELSE rs[n]]
<1>1. WithStatus(rs, j, s) = new
  BY DEF WithStatus
<1>2. \A n \in DOMAIN rs : rs[n] \in Row
  OBVIOUS
<1>3. \A n \in DOMAIN rs : new[n] \in Row
  BY <1>2 DEF Row
<1>4. \A n \in DOMAIN rs : new[n].job = rs[n].job
  BY <1>2 DEF Row
<1>5. DOMAIN rs = 1..Len(rs) /\ Len(rs) \in Nat /\ DOMAIN new = DOMAIN rs
  OBVIOUS
<1>6. \A n \in DOMAIN rs : /\ rs[n].job = j => new[n] = [job |-> j, status |-> s]
                           /\ rs[n].job # j => new[n] = rs[n]
  OBVIOUS
<1>7. new \in [1..Len(rs) -> Row]
  BY <1>3, <1>5
<1> HIDE DEF new
<1>8. new \in Seq(Row) /\ Len(new) = Len(rs)
  BY <1>5, <1>7
<1>9. \A i : Listed(new, i) <=> Listed(rs, i)
  BY <1>4, <1>5 DEF Listed
<1> QED
  BY <1>1, <1>4, <1>5, <1>6, <1>8, <1>9

\* What is said of the rows when a job changes its status.
LEMMA RowsWithStatus ==
    ASSUME TableTyped, NEW j \in Train, NEW s \in Status, rows' = WithStatus(rows, j, s)
    PROVE  /\ rows' \in Seq(Row) /\ DOMAIN rows' = DOMAIN rows /\ Len(rows') = Len(rows)
           /\ \A n \in DOMAIN rows : /\ rows'[n].job = rows[n].job
                                     /\ rows[n].job = j => rows'[n].status = s
                                     /\ rows[n].job # j => rows'[n] = rows[n]
           /\ \A i : HasRow(i)' <=> HasRow(i)
<1>1. rows \in Seq(Row)
  BY DEF TableTyped
<1>2. /\ rows' \in Seq(Row) /\ DOMAIN rows' = DOMAIN rows /\ Len(rows') = Len(rows)
      /\ \A n \in DOMAIN rows : /\ rows'[n].job = rows[n].job
                                /\ rows[n].job = j => rows'[n] = [job |-> j, status |-> s]
                                /\ rows[n].job # j => rows'[n] = rows[n]
  BY <1>1, WithStatusIs
<1>3. \A n \in DOMAIN rows : rows[n].job = j => rows'[n].status = s
  BY <1>2
<1>4. \A i : HasRow(i)' <=> HasRow(i)
  BY <1>2 DEF HasRow
<1> QED
  BY <1>2, <1>3, <1>4

\* The first step of a creation: its row is there, and nobody has seen it.
LEMMA CreateBeginsInv ==
    ASSUME TableInv, NEW n \in DOMAIN orders, CreateRow(n), orders[n].state = "sent"
    PROVE  TableInv'
<1> USE DEF TableInv
<1>1. orders[n] \in Request /\ orders[n].kind = "create"
  BY DEF CreateRow, TableTyped
<1>0. PICK j \in Train : j = orders[n].job
  BY <1>1 DEF Request
<1> DEFINE ord == [orders[n] EXCEPT !.state = "begun", !.answer = "none",
                                    !.crossed = @ \/ Len(listFetch) = 2]
           new == [job |-> j, status |-> "pending"]
<1>2. /\ rows' = <<new>> \o rows
      /\ orders' = [orders EXCEPT ![n].state = "begun", ![n].answer = "none",
                                  ![n].crossed = @ \/ Len(listFetch) = 2]
      /\ UNCHANGED <<asking, list, listFetch, hidden, overtaken>>
  BY <1>0 DEF CreateRow, Touch, pageVars
<1>3. orders' = [orders EXCEPT ![n] = ord]
  BY <1>2 DEF TableTyped
<1>4. /\ ord \in Request /\ ord.kind = "create" /\ ord.job = j /\ ord.state = "begun"
      /\ ~ord.crossed => Len(listFetch) # 2
  <2>1. (orders[n].crossed \/ Len(listFetch) = 2) \in BOOLEAN
    OBVIOUS
  <2> QED
    BY <1>0, <1>1, <2>1 DEF Request
<1>5. new \in Row /\ new.job = j /\ new.status = "pending" /\ rows \in Seq(Row)
  BY <1>1 DEF Row, Status, Request, TableTyped
<1> HIDE DEF ord, new
<1>6. /\ orders' \in Seq(Request) /\ DOMAIN orders' = DOMAIN orders
      /\ orders'[n] = ord /\ \A m \in DOMAIN orders \ {n} : orders'[m] = orders[m]
      /\ \A m \in DOMAIN orders : orders'[m].kind = orders[m].kind /\ orders'[m].job = orders[m].job
      /\ \A m \in DOMAIN orders \ {n} : Pending(m)' <=> Pending(m)
      /\ Pending(n)' <=> ord.state \in {"begun", "handled"}
      /\ \A m \in DOMAIN orders : \A i : (Creates(m, i)' <=> Creates(m, i)) /\ (Kills(m, i)' <=> Kills(m, i))
  BY <1>0, <1>3, <1>4, <1>1, OneOrder
<1>7. Pending(n)' /\ ~Pending(n)
  BY <1>4, <1>6 DEF Pending
<1>8. /\ rows' \in Seq(Row) /\ Len(rows') = Len(rows) + 1 /\ rows'[1] = new
      /\ DOMAIN rows' = 1..(Len(rows) + 1) /\ DOMAIN rows = 1..Len(rows) /\ Len(rows) \in Nat
      /\ \A m \in DOMAIN rows : rows'[m + 1] = rows[m]
      /\ \A m \in DOMAIN rows' : m = 1 \/ (m - 1 \in DOMAIN rows /\ rows'[m] = rows[m - 1])
  BY <1>2, <1>5
<1>9. ~HasRow(j) /\ \A i : HasRow(i)' <=> HasRow(i) \/ i = j
  <2>1. ~HasRow(j)
    BY <1>0, <1>1 DEF JobsTrue
  <2>2. ASSUME NEW i, HasRow(i) PROVE HasRow(i)'
    <3>1. PICK m \in DOMAIN rows : rows[m].job = i
      BY <2>2 DEF HasRow
    <3>2. m + 1 \in DOMAIN rows' /\ rows'[m + 1].job = i
      BY <1>8, <3>1
    <3> QED
      BY <3>2 DEF HasRow
  <2>4. \E m \in DOMAIN rows' : rows'[m].job = j
    <3>1. 1 \in DOMAIN rows'
      BY <1>8
    <3> QED
      BY <1>5, <1>8, <3>1
  <2>5. \A i : i = j => HasRow(i)'
    BY <2>4 DEF HasRow
  <2>6. ASSUME NEW i, HasRow(i)', i # j PROVE HasRow(i)
    <3>1. PICK m \in DOMAIN rows' : rows'[m].job = i
      BY <2>6 DEF HasRow
    <3>2. m # 1
      BY <1>5, <1>8, <2>6, <3>1
    <3>3. m - 1 \in DOMAIN rows /\ rows[m - 1].job = i
      BY <1>8, <3>1, <3>2
    <3> QED
      BY <3>3 DEF HasRow
  <2> QED
    BY <2>1, <2>2, <2>5, <2>6
<1>10. TableTyped'
  BY <1>2, <1>6, <1>8 DEF TableTyped
<1>11. \A m \in DOMAIN orders \ {n} : orders[m].kind = "kill" \/ orders[m].state = "done"
  <2>1. \A m \in DOMAIN orders : orders[m].kind \in {"create", "kill"}
    <3>1. \A m \in DOMAIN orders : orders[m] \in Request
      BY DEF TableTyped
    <3> QED
      BY <3>1 DEF Request
  <2>2. \A m \in DOMAIN orders : orders[m].kind = "create" /\ orders[m].state # "done" => m = n
    BY <1>1 DEF CreationsTrue, CreateRow
  <2> QED
    BY <2>1, <2>2
<1>12. JobsTrue'
  <2>1. \A l, m \in DOMAIN rows' : rows'[l].job = rows'[m].job => l = m
    <3>1. \A m \in DOMAIN rows : rows[m].job # j
      BY <1>9 DEF HasRow
    <3> QED
      BY <1>5, <1>8, <3>1 DEF JobsTrue
  <2>2. /\ list' # <<>> => \A k \in DOMAIN list'[1] : HasRow(list'[1][k].job)
        /\ Len(listFetch') = 2 => \A k \in DOMAIN listFetch'[2] : HasRow(listFetch'[2][k].job)
        /\ asking' # <<>> => HasRow(asking'[1])
    BY <1>2 DEF JobsTrue
  <2>3. \A m \in DOMAIN orders' : orders'[m].kind = "kill" \/ Pending(m)' =>
           HasRow(orders'[m].job) \/ orders'[m].job = j
    BY <1>4, <1>6 DEF JobsTrue
  <2>4. \A m \in DOMAIN orders' : ~(orders'[m].kind = "create" /\ orders'[m].state = "sent")
    BY <1>4, <1>6, <1>11
  <2>5. \A i : HasRow(i) \/ i = j => \E m \in DOMAIN rows' : rows'[m].job = i
    BY <1>9 DEF HasRow
  <2>6. /\ list' # <<>> => \A k \in DOMAIN list'[1] :
                              \E m \in DOMAIN rows' : rows'[m].job = list'[1][k].job
        /\ Len(listFetch') = 2 => \A k \in DOMAIN listFetch'[2] :
                                     \E m \in DOMAIN rows' : rows'[m].job = listFetch'[2][k].job
        /\ asking' # <<>> => \E m \in DOMAIN rows' : rows'[m].job = asking'[1]
    BY <2>2, <2>5
  <2>7. \A m \in DOMAIN orders' : orders'[m].kind = "kill" \/ Pending(m)' =>
           \E l \in DOMAIN rows' : rows'[l].job = orders'[m].job
    BY <2>3, <2>5
  <2>8. \A m \in DOMAIN orders' : orders'[m].kind = "create" /\ orders'[m].state = "sent" => FALSE
    BY <2>4
  <2> QED
    BY <2>1, <2>6, <2>7, <2>8 DEF JobsTrue, HasRow
<1>13. CreationsTrue'
  <2>1. \A l, m \in DOMAIN orders' :
           /\ orders'[l].kind = "create" /\ orders'[l].state # "done"
           /\ orders'[m].kind = "create" /\ orders'[m].state # "done"
           => l = m
    BY <1>6, <1>11
  <2>2. ~ord.crossed =>
           /\ list # <<>> => ~Listed(list[1], j)
           /\ Len(listFetch) # 2
           /\ asking # <<j>>
           /\ \A m \in DOMAIN orders : ~Kills(m, j)
    BY <1>4, <1>9 DEF JobsTrue, Listed, Kills
  <2>3. \A m \in DOMAIN orders' : orders'[m].kind = "create" /\ Pending(m)' => m = n
    BY <1>6, <1>11 DEF Pending
  <2>4. ~ord.crossed => \A m \in DOMAIN orders' : ~(orders'[m].kind = "kill" /\ orders'[m].job = j)
    BY <1>6, <2>2 DEF Kills
  <2>5. ASSUME NEW m \in DOMAIN orders', orders'[m].kind = "create", Pending(m)', ~orders'[m].crossed
        PROVE  /\ list' # <<>> => ~Listed(list'[1], orders'[m].job)
               /\ Len(listFetch') = 2 => ~Listed(listFetch'[2], orders'[m].job)
               /\ asking' # <<orders'[m].job>>
               /\ \A k \in DOMAIN orders' : ~(orders'[k].kind = "kill" /\ orders'[k].job = orders'[m].job)
    <3>1. m = n /\ orders'[m] = ord /\ ord.job = j /\ ~ord.crossed
      BY <1>4, <1>6, <2>3, <2>5
    <3> QED
      BY <1>2, <2>2, <2>4, <3>1
  <2> QED
    BY <2>1, <2>5 DEF CreationsTrue, Kills
<1>14. KillsTrue'
  <2>1. ASSUME NEW k \in DOMAIN orders', orders'[k].kind = "kill"
        PROVE  k \in DOMAIN orders /\ orders'[k] = orders[k]
    BY <1>4, <1>6, <2>1
  <2>2. \A k \in DOMAIN orders' : orders'[k].state = "handled" => orders'[k] = orders[k]
    BY <1>4, <1>6
  <2>3. ASSUME NEW k \in DOMAIN orders', orders'[k].kind = "kill", orders'[k].state = "begun",
               NEW m \in DOMAIN rows', rows'[m].job = orders'[k].job
        PROVE  rows'[m].status \notin {"pending", "running"}
    <3>1. HasRow(orders[k].job)
      BY <2>1, <2>3 DEF JobsTrue
    <3>2. m # 1
      BY <1>5, <1>8, <1>9, <2>1, <2>3, <3>1
    <3>3. m - 1 \in DOMAIN rows /\ rows'[m] = rows[m - 1]
      BY <1>8, <3>2
    <3> QED
      BY <2>1, <2>3, <3>3 DEF KillsTrue
  <2> QED
    BY <1>6, <2>1, <2>2, <2>3 DEF KillsTrue
<1>15. Told' => Told /\ ~ord.crossed /\ Len(listFetch) # 2
  BY <1>2, <1>4, <1>6, <1>7 DEF Told
<1>16. AnswersTell'
  <2> SUFFICES ASSUME Told, NEW k \in DOMAIN orders', orders'[k].state = "handled",
                      NEW m \in DOMAIN rows', rows'[m].job = orders'[k].job
               PROVE  rows'[m].status = orders'[k].answer
    BY <1>15 DEF AnswersTell
  <2>1. k \in DOMAIN orders /\ orders'[k] = orders[k]
    BY <1>4, <1>6
  <2>2. HasRow(orders[k].job)
    BY <2>1 DEF JobsTrue, Pending
  <2>3. m - 1 \in DOMAIN rows /\ rows'[m] = rows[m - 1]
    BY <1>5, <1>8, <1>9, <2>1, <2>2
  <2> QED
    BY <2>1, <2>3 DEF AnswersTell
<1>17. /\ \A i : BeingCreated(i) => BeingCreated(i)'
       /\ \A i : BeingKilled(i) => BeingKilled(i)'
       /\ BeingCreated(j)' /\ \A i : ~BeingCreated(i)
  <2>1. \A m \in DOMAIN orders : Pending(m) => Pending(m)'
    BY <1>6, <1>7
  <2>2. \A i : BeingKilled(i) => BeingKilled(i)'
    BY <1>6, <2>1 DEF BeingKilled
  <2>3. ASSUME NEW i, BeingCreated(i) PROVE FALSE
    <3>1. PICK m \in DOMAIN orders : orders[m].kind = "create" /\ Pending(m)
      BY <2>3 DEF BeingCreated, Creates
    <3> QED
      BY <1>7, <1>11, <3>1 DEF Pending
  <2>4. Creates(n, j)' /\ n \in DOMAIN orders'
    BY <1>2, <1>4, <1>6 DEF Creates
  <2>5. BeingCreated(j)'
    BY <1>7, <2>4 DEF BeingCreated
  <2> QED
    BY <2>2, <2>3, <2>5
<1>18. ListTells'
  <2>1. CASE ~Told'
    BY <2>1 DEF ListTells
  <2>2. CASE Told' /\ list = <<>>
    BY <1>2, <1>15, <2>2 DEF ListTells
  <2>3. CASE Told' /\ list # <<>>
    <3>1. Told /\ Len(listFetch) # 2
      BY <1>15, <2>3
    <3>2. Len(rows) = Len(list[1])
      <4>1. Len(rows) = Len(list[1]) + (IF \E i \in Train : BeingCreated(i) THEN 1 ELSE 0)
        BY <2>3, <3>1 DEF ListTells
      <4>2. Len(list[1]) \in Nat
        BY <2>3 DEF TableTyped
      <4> QED
        <5>1. ~\E i \in Train : BeingCreated(i)
          BY <1>17
        <5>2. Len(rows) = Len(list[1]) + 0
          BY <4>1, <5>1
        <5> QED
          BY <4>2, <5>2
    <3>3. \A m \in DOMAIN rows : \/ \E k \in DOMAIN list[1] : list[1][k] = rows[m]
                                 \/ BeingKilled(rows[m].job) /\ Listed(list[1], rows[m].job)
      <4>1. \A m : ~BeingCreated(rows[m].job)
        BY <1>17
      <4> QED
        BY <2>3, <3>1, <4>1 DEF ListTells
    <3>4. \E i \in Train : BeingCreated(i)'
      BY <1>17
    <3>5. ASSUME NEW m \in DOMAIN rows'
          PROVE  \/ \E k \in DOMAIN list[1] : list[1][k] = rows'[m]
                 \/ rows'[m].job = j
                 \/ BeingKilled(rows'[m].job) /\ Listed(list[1], rows'[m].job)
      <4>1. CASE m = 1
        BY <1>5, <1>8, <4>1
      <4>2. CASE m # 1
        BY <1>8, <3>3, <4>2
      <4> QED
        BY <4>1, <4>2
    <3>6. \A m \in DOMAIN rows' : \/ \E k \in DOMAIN list[1] : list[1][k] = rows'[m]
                                  \/ BeingCreated(rows[m].job)'
                                  \/ BeingKilled(rows[m].job)' /\ Listed(list[1], rows'[m].job)
      <4>1. \A m : rows'[m].job = j => BeingCreated(rows[m].job)'
        BY <1>17 DEF BeingCreated, Creates
      <4>2. \A m : BeingKilled(rows'[m].job) => BeingKilled(rows[m].job)'
        BY <1>17 DEF BeingKilled, Kills
      <4> QED
        BY <3>5, <4>1, <4>2
    <3>7. Len(rows') = Len(list[1]) + 1
      BY <1>8, <3>2
    <3> QED
      BY <1>2, <3>1, <3>4, <3>6, <3>7 DEF ListTells
  <2> QED
    BY <2>1, <2>2, <2>3
<1> QED
  BY <1>10, <1>12, <1>13, <1>14, <1>16, <1>18

\* A request changes the status of its job: the creation starts the process, or
\* the kill marks a job that runs.
LEMMA StatusMovesInv ==
    ASSUME TableInv, NEW n \in DOMAIN orders, NEW ord \in Request, NEW j \in Train, NEW s \in Status,
           orders' = [orders EXCEPT ![n] = ord], rows' = WithStatus(rows, j, s),
           UNCHANGED <<asking, list, listFetch, hidden, overtaken>>,
           ord.kind = orders[n].kind, orders[n].job = j, ord.job = j,
           ~ord.crossed => ~orders[n].crossed /\ Len(listFetch) # 2,
           \/ /\ ord.kind = "create" /\ orders[n].state = "begun"
              /\ s = "running" /\ ord.state = "handled" /\ ord.answer = s
              /\ \A m \in DOMAIN rows : rows[m].job = j => rows[m].status = "pending"
           \/ /\ ord.kind = "kill" /\ orders[n].state = "sent"
              /\ s = "killed" /\ ord.state = "begun"
              /\ \A m \in DOMAIN rows : rows[m].job = j => rows[m].status = "running"
    PROVE  TableInv'
<1> USE DEF TableInv
<1>1. /\ orders' \in Seq(Request) /\ DOMAIN orders' = DOMAIN orders
      /\ orders'[n] = ord /\ \A m \in DOMAIN orders \ {n} : orders'[m] = orders[m]
      /\ \A m \in DOMAIN orders : orders'[m].kind = orders[m].kind /\ orders'[m].job = orders[m].job
      /\ \A m \in DOMAIN orders \ {n} : Pending(m)' <=> Pending(m)
      /\ Pending(n)' <=> ord.state \in {"begun", "handled"}
      /\ \A m \in DOMAIN orders : \A i : (Creates(m, i)' <=> Creates(m, i)) /\ (Kills(m, i)' <=> Kills(m, i))
  BY OneOrder
<1>2. /\ rows' \in Seq(Row) /\ DOMAIN rows' = DOMAIN rows /\ Len(rows') = Len(rows)
      /\ \A m \in DOMAIN rows : /\ rows'[m].job = rows[m].job
                                /\ rows[m].job = j => rows'[m].status = s
                                /\ rows[m].job # j => rows'[m] = rows[m]
      /\ \A i : HasRow(i)' <=> HasRow(i)
  BY RowsWithStatus
<1>3. TableTyped'
  BY <1>1, <1>2 DEF TableTyped
<1>4. /\ Pending(n)' /\ \A m \in DOMAIN orders : Pending(m) => Pending(m)'
      /\ \A m \in DOMAIN orders : orders[m].kind = "create" => (Pending(m)' <=> Pending(m))
      /\ \A i : BeingCreated(i)' <=> BeingCreated(i)
      /\ \A i : BeingKilled(i) => BeingKilled(i)'
      /\ Told' => Told /\ ~ord.crossed /\ Len(listFetch) # 2
  <2>1. Pending(n)' /\ \A m \in DOMAIN orders : Pending(m) => Pending(m)'
    BY <1>1
  <2>2. \A m \in DOMAIN orders : orders[m].kind = "create" => (Pending(m)' <=> Pending(m))
    BY <1>1 DEF Pending
  <2>3. \A i : BeingCreated(i)' <=> BeingCreated(i)
    BY <1>1, <2>2 DEF BeingCreated, Creates
  <2>4. \A i : BeingKilled(i) => BeingKilled(i)'
    BY <1>1, <2>1 DEF BeingKilled
  <2>5. Told' => Told /\ ~ord.crossed /\ Len(listFetch) # 2
    BY <1>1, <2>1 DEF Told
  <2> QED
    BY <2>1, <2>2, <2>3, <2>4, <2>5
<1>5. JobsTrue'
  <2>1. /\ \A l, m \in DOMAIN rows' : rows'[l].job = rows'[m].job => l = m
        /\ list' # <<>> => \A k \in DOMAIN list'[1] : HasRow(list'[1][k].job)
        /\ Len(listFetch') = 2 => \A k \in DOMAIN listFetch'[2] : HasRow(listFetch'[2][k].job)
        /\ asking' # <<>> => HasRow(asking'[1])
    BY <1>2 DEF JobsTrue
  <2>2. \A m \in DOMAIN orders' :
           /\ orders'[m].kind = "kill" \/ Pending(m)' => HasRow(orders'[m].job)
           /\ orders'[m].kind = "create" /\ orders'[m].state = "sent" => ~HasRow(orders'[m].job)
    <3>1. HasRow(j)
      BY DEF JobsTrue, Pending
    <3> QED
      BY <1>1, <3>1 DEF JobsTrue
  <2> QED
    BY <1>2, <2>1, <2>2 DEF JobsTrue, HasRow
<1>6. CreationsTrue'
  <2>1. \A l, m \in DOMAIN orders' :
           /\ orders'[l].kind = "create" /\ orders'[l].state # "done"
           /\ orders'[m].kind = "create" /\ orders'[m].state # "done"
           => l = m
    <3>1. \A m \in DOMAIN orders' : orders'[m].state # "done" => orders[m].state # "done"
      BY <1>1
    <3> QED
      BY <1>1, <3>1 DEF CreationsTrue
  <2>2. ASSUME NEW m \in DOMAIN orders', orders'[m].kind = "create", Pending(m)', ~orders'[m].crossed
        PROVE  /\ list' # <<>> => ~Listed(list'[1], orders'[m].job)
               /\ Len(listFetch') = 2 => ~Listed(listFetch'[2], orders'[m].job)
               /\ asking' # <<orders'[m].job>>
               /\ \A k \in DOMAIN orders' : ~(orders'[k].kind = "kill" /\ orders'[k].job = orders'[m].job)
    <3>1. m \in DOMAIN orders /\ orders[m].kind = "create" /\ Pending(m) /\ orders'[m].job = orders[m].job
      BY <1>1, <1>4, <2>2
    <3>2. ~orders[m].crossed
      BY <1>1, <2>2
    <3> QED
      BY <1>1, <3>1, <3>2 DEF CreationsTrue, Kills
  <2> QED
    BY <2>1, <2>2 DEF CreationsTrue, Kills
<1>7. KillsTrue'
  <2>1. ASSUME NEW k \in DOMAIN orders', orders'[k].state = "handled"
        PROVE  orders'[k].answer \in Status /\ (orders'[k].kind = "kill" => orders'[k].answer # "running")
    BY <1>1, <2>1 DEF KillsTrue
  <2>2. ASSUME NEW k \in DOMAIN orders', orders'[k].kind = "kill", orders'[k].state = "begun",
               NEW m \in DOMAIN rows', rows'[m].job = orders'[k].job
        PROVE  rows'[m].status \notin {"pending", "running"}
    <3>1. CASE k = n
      BY <1>1, <1>2, <2>2, <3>1
    <3>2. CASE k # n
      <4>1. orders'[k] = orders[k] /\ rows[m].job = orders[k].job
        BY <1>1, <1>2, <2>2, <3>2
      <4>2. rows[m].status \notin {"pending", "running"}
        BY <1>1, <1>2, <2>2, <4>1 DEF KillsTrue
      <4>3. rows[m].job # j
        BY <1>2, <4>2
      <4> QED
        BY <1>2, <4>2, <4>3
    <3> QED
      BY <3>1, <3>2
  <2> QED
    BY <2>1, <2>2 DEF KillsTrue
<1>8. ASSUME Told', NEW k \in DOMAIN orders, Creates(k, j), Pending(k), ord.kind = "kill" PROVE FALSE
  <2>1. ~orders[k].crossed /\ Kills(n, j)
    BY <1>4, <1>8 DEF Told, Kills
  <2> QED
    BY <1>8, <2>1 DEF CreationsTrue, Creates
<1>9. AnswersTell'
  <2> SUFFICES ASSUME Told', NEW k \in DOMAIN orders', orders'[k].state = "handled",
                      NEW m \in DOMAIN rows', rows'[m].job = orders'[k].job
               PROVE  rows'[m].status = orders'[k].answer
    BY DEF AnswersTell
  <2>1. CASE k = n
    BY <1>1, <1>2, <2>1
  <2>2. CASE k # n
    <3>1. /\ k \in DOMAIN orders /\ orders'[k] = orders[k] /\ m \in DOMAIN rows
          /\ rows[m].job = orders[k].job /\ rows[m].status = orders[k].answer
          /\ Pending(k)
      <4>1. k \in DOMAIN orders /\ orders'[k] = orders[k] /\ m \in DOMAIN rows /\ rows[m].job = orders[k].job
        BY <1>1, <1>2, <2>2
      <4>2. Told
        BY <1>4
      <4>3. rows[m].status = orders[k].answer
        BY <4>1, <4>2 DEF AnswersTell
      <4> QED
        BY <4>1, <4>3 DEF Pending
    <3>2. CASE orders[k].job = j
      <4>1. orders[k].kind \in {"create", "kill"}
        <5>1. orders[k] \in Request
          BY <3>1 DEF TableTyped
        <5> QED
          BY <5>1 DEF Request
      <4>2. CASE ord.kind = "create"
        <5>1. ~orders[n].crossed /\ Pending(n)
          BY <1>4, <4>2 DEF Pending
        <5>2. orders[k].kind = "create"
          BY <3>1, <3>2, <4>1, <4>2, <5>1 DEF CreationsTrue, Kills
        <5> QED
          BY <2>2, <3>1, <4>2, <5>2 DEF CreationsTrue
      <4>3. CASE ord.kind = "kill"
        <5>1. orders[k].kind = "kill"
          BY <1>8, <3>1, <3>2, <4>1, <4>3 DEF Creates
        <5>2. rows[m].status = "running"
          BY <3>1, <3>2, <4>3
        <5>3. orders[k].state = "handled" /\ orders[k].answer = "running"
          BY <3>1, <5>2, <2>2
        <5> QED
          BY <3>1, <5>1, <5>3 DEF KillsTrue
      <4> QED
        BY <4>2, <4>3
    <3>3. CASE orders[k].job # j
      BY <1>2, <3>1, <3>3
    <3> QED
      BY <3>2, <3>3
  <2> QED
    BY <2>1, <2>2
<1>10. ListTells'
  <2>1. CASE ~Told' \/ list = <<>>
    BY <1>4, <2>1 DEF ListTells
  <2>2. CASE Told' /\ list # <<>>
    <3>1. Told /\ Len(listFetch) # 2
      BY <1>4, <2>2
    <3>2. \A m \in DOMAIN rows : \/ \E k \in DOMAIN list[1] : list[1][k] = rows[m]
                                 \/ BeingCreated(rows[m].job)
                                 \/ BeingKilled(rows[m].job) /\ Listed(list[1], rows[m].job)
      BY <2>2, <3>1 DEF ListTells
    <3>3. Len(rows) = Len(list[1]) + (IF \E i \in Train : BeingCreated(i) THEN 1 ELSE 0)
      BY <2>2, <3>1 DEF ListTells
    <3>4. ASSUME NEW m \in DOMAIN rows', rows'[m].job = j
          PROVE  \/ BeingCreated(rows'[m].job)
                 \/ BeingKilled(j)' /\ Listed(list[1], j)
      <4>1. m \in DOMAIN rows /\ rows[m].job = j
        BY <1>2, <3>4
      <4>2. CASE ord.kind = "create"
        BY <3>4, <4>2 DEF BeingCreated, Creates, Pending
      <4>3. CASE ord.kind = "kill"
        <5>1. BeingKilled(j)'
          BY <1>1, <1>4, <4>3 DEF BeingKilled, Kills
        <5>2. ~BeingCreated(j)
          BY <1>8, <2>2, <4>3 DEF BeingCreated
        <5>3. Listed(list[1], j)
          BY <3>2, <4>1, <5>2 DEF Listed
        <5> QED
          BY <5>1, <5>3
      <4> QED
        BY <4>2, <4>3
    <3>5. \A m \in DOMAIN rows' : \/ \E k \in DOMAIN list[1] : list[1][k] = rows'[m]
                                  \/ BeingCreated(rows'[m].job)
                                  \/ BeingKilled(rows[m].job)' /\ Listed(list[1], rows'[m].job)
      <4>1. \A m : rows'[m].job = j /\ BeingKilled(j)' => BeingKilled(rows[m].job)'
        BY DEF BeingKilled, Kills
      <4>2. \A m : BeingKilled(rows'[m].job) => BeingKilled(rows[m].job)'
        BY <1>4 DEF BeingKilled, Kills
      <4> QED
        BY <1>2, <3>2, <3>4, <4>1, <4>2
    <3>6. \A m : BeingCreated(rows'[m].job) => BeingCreated(rows[m].job)'
      BY <1>4 DEF BeingCreated, Creates
    <3>7. (\E i \in Train : BeingCreated(i)') <=> (\E i \in Train : BeingCreated(i))
      BY <1>4
    <3>8. Len(rows') = Len(list[1]) + (IF \E i \in Train : BeingCreated(i)' THEN 1 ELSE 0)
      BY <1>2, <3>3, <3>7
    <3> QED
      BY <3>1, <3>5, <3>6, <3>8 DEF ListTells
  <2> QED
    BY <2>1, <2>2
<1> QED
  BY <1>3, <1>5, <1>6, <1>7, <1>9, <1>10

LEMMA CreateRowInv == ASSUME TableInv, NEW n \in DOMAIN orders, CreateRow(n) PROVE TableInv'
<1>1. orders[n] \in Request /\ orders[n].kind = "create" /\ rows \in Seq(Row)
  BY DEF CreateRow, TableInv, TableTyped
<1>2. PICK j \in Train : j = orders[n].job
  BY <1>1 DEF Request
<1>3. CASE orders[n].state = "sent"
  BY <1>3, CreateBeginsInv
<1>4. CASE orders[n].state = "begun"
  <2> DEFINE ord == [orders[n] EXCEPT !.state = "handled", !.answer = "running",
                                      !.crossed = @ \/ Len(listFetch) = 2]
  <2>1. /\ RowOf(j) = {[job |-> j, status |-> "pending"]} /\ rows' = WithStatus(rows, j, "running")
        /\ orders' = [orders EXCEPT ![n].state = "handled", ![n].answer = "running",
                                    ![n].crossed = @ \/ Len(listFetch) = 2]
        /\ UNCHANGED <<asking, list, listFetch, hidden, overtaken>>
    BY <1>2, <1>4 DEF CreateRow, Touch, pageVars
  <2>2. orders' = [orders EXCEPT ![n] = ord]
    BY <2>1 DEF TableInv, TableTyped
  <2>3. /\ ord \in Request /\ ord.kind = "create" /\ ord.job = j /\ ord.state = "handled"
        /\ ord.answer = "running"
        /\ ~ord.crossed => ~orders[n].crossed /\ Len(listFetch) # 2
    <3>1. (orders[n].crossed \/ Len(listFetch) = 2) \in BOOLEAN
      OBVIOUS
    <3> QED
      BY <1>1, <1>2, <3>1 DEF Request, Status
  <2>4. \A m \in DOMAIN rows : rows[m].job = j => rows[m].status = "pending"
    BY <2>1 DEF RowOf
  <2>5. "running" \in Status
    BY DEF Status
  <2> HIDE DEF ord
  <2> QED
    <3>1. ord.kind = orders[n].kind /\ orders[n].job = j /\ ord.job = j
      BY <1>1, <1>2, <2>3
    <3>2. /\ ord.kind = "create" /\ orders[n].state = "begun"
          /\ "running" = "running" /\ ord.state = "handled" /\ ord.answer = "running"
          /\ \A m \in DOMAIN rows : rows[m].job = j => rows[m].status = "pending"
      BY <1>4, <2>3, <2>4
    <3> QED
      BY <2>1, <2>2, <2>3, <2>5, <3>1, <3>2, StatusMovesInv
<1> QED
  BY <1>3, <1>4 DEF CreateRow

\* The row of a job that has one.
LEMMA OneRow ==
    ASSUME TableTyped, JobsTrue, NEW j, HasRow(j)
    PROVE  \E r \in Row : RowOf(j) = {r} /\ \A m \in DOMAIN rows : rows[m].job = j => rows[m] = r
<1>1. PICK k \in DOMAIN rows : rows[k].job = j
  BY DEF HasRow
<1>2. \A m \in DOMAIN rows : rows[m].job = j => m = k
  BY <1>1 DEF JobsTrue
<1>3. rows[k] \in Row
  BY DEF TableTyped
<1>4. RowOf(j) = {rows[k]}
  BY <1>1, <1>2 DEF RowOf
<1> QED
  BY <1>2, <1>3, <1>4

\* A kill is handled: the answer is what the row says by then.
LEMMA KillHandledInv ==
    ASSUME TableInv, NEW n \in DOMAIN orders, NEW ord \in Request, NEW j \in Train, NEW r \in Row,
           j = orders[n].job, orders[n].kind = "kill", orders[n].state \in {"sent", "begun"},
           orders[n].state = "sent" => r.status # "running",
           \A m \in DOMAIN rows : rows[m].job = j => rows[m] = r,
           orders' = [orders EXCEPT ![n] = ord], ord.kind = "kill", ord.job = j,
           ord.state = "handled", ord.answer = r.status, ord.crossed = orders[n].crossed,
           UNCHANGED <<rows, asking, list, listFetch, hidden, overtaken>>
    PROVE  TableInv'
<1> USE DEF TableInv
<1>1. r.status \in Status
  BY DEF Row
<1>2. ord.kind = orders[n].kind /\ ord.job = orders[n].job
  OBVIOUS
<1>4. /\ orders' \in Seq(Request) /\ DOMAIN orders' = DOMAIN orders
      /\ orders'[n] = ord /\ \A m \in DOMAIN orders \ {n} : orders'[m] = orders[m]
      /\ \A m \in DOMAIN orders : orders'[m].kind = orders[m].kind /\ orders'[m].job = orders[m].job
      /\ \A m \in DOMAIN orders \ {n} : Pending(m)' <=> Pending(m)
      /\ Pending(n)' <=> ord.state \in {"begun", "handled"}
      /\ \A m \in DOMAIN orders : \A i : (Creates(m, i)' <=> Creates(m, i)) /\ (Kills(m, i)' <=> Kills(m, i))
  BY <1>2, OneOrder
<1>5. /\ Pending(n)' /\ \A m \in DOMAIN orders : Pending(m) => Pending(m)'
      /\ \A i : BeingCreated(i)' <=> BeingCreated(i)
      /\ \A i : BeingKilled(i) => BeingKilled(i)'
      /\ Told' => Told
  <2>1. Pending(n)' /\ \A m \in DOMAIN orders : Pending(m) => Pending(m)'
    BY <1>4
  <2>2. \A m \in DOMAIN orders : orders[m].kind = "create" => (Pending(m)' <=> Pending(m))
    BY <1>4 DEF Pending
  <2>3. \A i : BeingCreated(i)' <=> BeingCreated(i)
    BY <1>4, <2>2 DEF BeingCreated, Creates
  <2>4. \A i : BeingKilled(i) => BeingKilled(i)'
    BY <1>4, <2>1 DEF BeingKilled
  <2>5. Told' => Told
    BY <1>4, <2>1 DEF Told
  <2> QED
    BY <2>1, <2>3, <2>4, <2>5
<1>6. TableTyped'
  BY <1>4 DEF TableTyped
<1>7. \A m \in DOMAIN orders' : \/ orders'[m] = orders[m] /\ (Pending(m)' <=> Pending(m))
                                \/ m = n
  BY <1>4
<1>8. JobsTrue'
  <2>1. \A j1 : HasRow(j1)' <=> HasRow(j1)
    BY SameRows
  <2>2. \A m \in DOMAIN orders' :
           /\ orders'[m].kind = "kill" \/ Pending(m)' => HasRow(orders[m].job)
           /\ orders'[m].kind = "create" /\ orders'[m].state = "sent" => ~HasRow(orders[m].job)
    BY <1>4, <1>7 DEF JobsTrue
  <2> QED
    BY <1>4, <2>1, <2>2 DEF JobsTrue, HasRow
<1>9. CreationsTrue'
  <2>1. \A l, m \in DOMAIN orders' :
           /\ orders'[l].kind = "create" /\ orders'[l].state # "done"
           /\ orders'[m].kind = "create" /\ orders'[m].state # "done"
           => l = m
    BY <1>4, <1>7 DEF CreationsTrue
  <2>2. ASSUME NEW m \in DOMAIN orders', orders'[m].kind = "create", Pending(m)', ~orders'[m].crossed
        PROVE  /\ list' # <<>> => ~Listed(list'[1], orders'[m].job)
               /\ Len(listFetch') = 2 => ~Listed(listFetch'[2], orders'[m].job)
               /\ asking' # <<orders'[m].job>>
               /\ \A k \in DOMAIN orders' : ~(orders'[k].kind = "kill" /\ orders'[k].job = orders'[m].job)
    <3>1. m \in DOMAIN orders /\ Pending(m) /\ orders'[m] = orders[m]
      BY <1>4, <1>7, <2>2
    <3> QED
      BY <1>4, <2>2, <3>1 DEF CreationsTrue, Kills
  <2> QED
    BY <2>1, <2>2 DEF CreationsTrue, Kills
<1>10. r.status # "running"
  <2>1. PICK m \in DOMAIN rows : rows[m].job = j
    BY DEF JobsTrue, HasRow
  <2> QED
    BY <2>1 DEF KillsTrue
<1>11. KillsTrue'
  <2>1. \A k \in DOMAIN orders' : orders'[k].state = "handled" =>
           orders'[k].answer \in Status /\ (orders'[k].kind = "kill" => orders'[k].answer # "running")
    BY <1>1, <1>4, <1>10 DEF KillsTrue
  <2>2. \A k \in DOMAIN orders' : orders'[k].kind = "kill" /\ orders'[k].state = "begun" => orders'[k] = orders[k]
    BY <1>4
  <2> QED
    BY <1>4, <2>1, <2>2 DEF KillsTrue
<1>12. AnswersTell'
  <2> SUFFICES ASSUME Told, NEW k \in DOMAIN orders', orders'[k].state = "handled",
                      NEW m \in DOMAIN rows, rows[m].job = orders'[k].job
               PROVE  rows[m].status = orders'[k].answer
    BY <1>5 DEF AnswersTell
  <2> QED
    BY <1>4 DEF AnswersTell
<1>13. ListTells'
  BY <1>5 DEF ListTells
<1> QED
  BY <1>6, <1>8, <1>9, <1>11, <1>12, <1>13

LEMMA KillRowInv == ASSUME TableInv, NEW n \in DOMAIN orders, KillRow(n) PROVE TableInv'
<1>1. orders[n] \in Request /\ orders[n].kind = "kill" /\ HasRow(orders[n].job)
  BY DEF KillRow, TableInv, TableTyped, JobsTrue
<1>2. PICK j \in Train : j = orders[n].job
  BY <1>1 DEF Request
<1>3. PICK r \in Row : RowOf(j) = {r} /\ \A m \in DOMAIN rows : rows[m].job = j => rows[m] = r
  BY <1>1, <1>2, OneRow DEF TableInv
<1>4. (CHOOSE x \in RowOf(j) : TRUE) = r
  BY <1>3
<1>5. CASE /\ orders[n].state = "sent" /\ r.status = "running"
           /\ rows' = WithStatus(rows, j, "killed")
           /\ Touch(n, "begun", "none")
           /\ UNCHANGED <<pageVars, list, listFetch, upsets, hidden, overtaken>>
  <2> DEFINE ord == [orders[n] EXCEPT !.state = "begun", !.answer = "none",
                                      !.crossed = @ \/ Len(listFetch) = 2]
  <2>1. orders' = [orders EXCEPT ![n] = ord]
    BY <1>5 DEF Touch, TableInv, TableTyped
  <2>2. /\ ord \in Request /\ ord.kind = "kill" /\ ord.job = j /\ ord.state = "begun"
        /\ ~ord.crossed => ~orders[n].crossed /\ Len(listFetch) # 2
    <3>1. (orders[n].crossed \/ Len(listFetch) = 2) \in BOOLEAN
      OBVIOUS
    <3> QED
      BY <1>1, <1>2, <3>1 DEF Request
  <2>3. "killed" \in Status
    BY DEF Status
  <2> HIDE DEF ord
  <2> QED
    BY <1>1, <1>2, <1>3, <1>5, <2>1, <2>2, <2>3, StatusMovesInv DEF pageVars
<1>6. CASE /\ orders[n].state = "begun" \/ (orders[n].state = "sent" /\ r.status # "running")
           /\ orders' = [orders EXCEPT ![n].state = "handled", ![n].answer = r.status]
           /\ UNCHANGED rows
           /\ UNCHANGED <<pageVars, list, listFetch, upsets, hidden, overtaken>>
  <2> DEFINE ord == [orders[n] EXCEPT !.state = "handled", !.answer = r.status]
  <2>1. /\ orders[n].state \in {"sent", "begun"}
        /\ orders[n].state = "sent" => r.status # "running"
        /\ UNCHANGED <<rows, asking, list, listFetch, hidden, overtaken>>
    BY <1>6 DEF pageVars
  <2>2. /\ j = orders[n].job /\ orders[n].kind = "kill"
        /\ \A m \in DOMAIN rows : rows[m].job = j => rows[m] = r
    BY <1>1, <1>2, <1>3
  <2>3. orders' = [orders EXCEPT ![n] = ord]
    BY <1>6 DEF TableInv, TableTyped
  <2>4. /\ ord \in Request /\ ord.kind = "kill" /\ ord.job = j /\ ord.state = "handled"
        /\ ord.answer = r.status /\ ord.crossed = orders[n].crossed
    BY <1>1, <1>2 DEF Request, Row
  <2> HIDE DEF ord
  <2> QED
    BY <2>1, <2>2, <2>3, <2>4, KillHandledInv
<1> QED
  BY <1>2, <1>4, <1>5, <1>6 DEF KillRow

\* A process ends, and no answer says so.
LEMMA TrainEndsInv == ASSUME TableInv, NEW j \in Train, TrainEnds(j) PROVE TableInv'
<1> USE DEF TableInv
<1>1. PICK s \in {"ended"} : rows' = WithStatus(rows, j, s)
  BY DEF TrainEnds
<1>2. hidden' = TRUE /\ UNCHANGED <<asking, list, listFetch, orders, overtaken>>
  BY DEF TrainEnds, pageVars
<1>3. s \in Status
  BY DEF Status
<1>4. /\ rows' \in Seq(Row) /\ DOMAIN rows' = DOMAIN rows
      /\ \A m \in DOMAIN rows : /\ rows'[m].job = rows[m].job
                                /\ rows[m].job = j => rows'[m].status = s
                                /\ rows[m].job # j => rows'[m] = rows[m]
      /\ \A i : HasRow(i)' <=> HasRow(i)
  BY <1>1, <1>3, RowsWithStatus
<1>5. TableTyped'
  BY <1>2, <1>4 DEF TableTyped
<1>6. JobsTrue'
  <2>1. \A l, m \in DOMAIN rows' : rows'[l].job = rows'[m].job => l = m
    BY <1>4 DEF JobsTrue
  <2> QED
    BY <1>2, <1>4, <2>1, SameOrders DEF JobsTrue
<1>7. CreationsTrue'
  BY <1>2, SameOrders DEF CreationsTrue
<1>8. KillsTrue'
  <2>1. ASSUME NEW k \in DOMAIN orders', orders'[k].kind = "kill", orders'[k].state = "begun",
               NEW m \in DOMAIN rows', rows'[m].job = orders'[k].job
        PROVE  rows'[m].status \notin {"pending", "running"}
    <3>1. CASE rows[m].job = j
      BY <1>1, <1>4, <2>1, <3>1
    <3>2. CASE rows[m].job # j
      BY <1>2, <1>4, <2>1, <3>2 DEF KillsTrue
    <3> QED
      BY <3>1, <3>2
  <2> QED
    BY <1>2, <2>1 DEF KillsTrue
<1>9. ~Told'
  BY <1>2 DEF Told
<1>10. AnswersTell' /\ ListTells'
  BY <1>9 DEF AnswersTell, ListTells
<1> QED
  BY <1>5, <1>6, <1>7, <1>8, <1>10

\* An event of the job on display arrives, whether its row says so or not.
LEMMA StatusArrivesInv ==
    ASSUME TableInv, NEW j \in Train, NEW s \in {"running", "killed", "ended"}, StatusArrives(j, s)
    PROVE  TableInv'
<1> USE DEF TableInv
<1>1. s \in Status
  BY DEF Status
<1>2. PICK old \in Seq(Row) : old = IF list = <<>> THEN <<>> ELSE list[1]
  <2>1. list # <<>> => list[1] \in Seq(Row)
    BY DEF TableTyped
  <2>2. <<>> \in Seq(Row)
    OBVIOUS
  <2> QED
    BY <2>1, <2>2
<1>3. PICK rs \in Seq(Row) :
         /\ rs = WithStatus(old, j, s) /\ DOMAIN rs = DOMAIN old /\ Len(rs) = Len(old)
         /\ \A k \in DOMAIN old : /\ rs[k].job = old[k].job
                                  /\ old[k].job = j => rs[k] = [job |-> j, status |-> s]
                                  /\ old[k].job # j => rs[k] = old[k]
  BY <1>1, WithStatusIs
<1>4. list' = <<rs>>
  <2>1. CASE list = <<>>
    <3>1. DOMAIN old = {}
      BY <1>2, <2>1
    <3>2. rs = <<>>
      BY <1>2, <1>3, <2>1
    <3> QED
      BY <2>1, <3>2 DEF StatusArrives
  <2>2. CASE list # <<>>
    BY <1>2, <1>3, <2>2 DEF StatusArrives
  <2> QED
    BY <2>1, <2>2
<1>5. /\ UNCHANGED <<rows, asking, orders, listFetch>>
      /\ overtaken' = (overtaken \/ Len(listFetch) = 2)
      /\ \/ hidden' = TRUE
         \/ hidden' = (hidden \/ list = <<>>) /\ RowOf(j) = {[job |-> j, status |-> s]}
  BY DEF StatusArrives, pageVars
<1>6. \A i : Listed(rs, i) <=> Listed(old, i)
  BY <1>3 DEF Listed
<1>7. \A i : Listed(rs, i) => list # <<>> /\ Listed(list[1], i)
  <2>1. ~Listed(<<>>, j) /\ \A i : ~Listed(<<>>, i)
    BY DEF Listed
  <2> QED
    BY <1>2, <1>6, <2>1
<1>8. ASSUME ~hidden', ~overtaken'
      PROVE  /\ Len(listFetch) # 2 /\ list # <<>> /\ Len(rs) = Len(list[1])
             /\ \A m \in DOMAIN rows :
                   /\ (\E k \in DOMAIN list[1] : list[1][k] = rows[m]) => \E k \in DOMAIN rs : rs[k] = rows[m]
                   /\ Listed(list[1], rows[m].job) => Listed(rs, rows[m].job)
  <2>1. list # <<>> /\ Len(listFetch) # 2 /\ RowOf(j) = {[job |-> j, status |-> s]}
    BY <1>5, <1>8
  <2>2. old = list[1]
    BY <1>2, <2>1
  <2>3. ASSUME NEW m \in DOMAIN rows, NEW k \in DOMAIN list[1], list[1][k] = rows[m]
        PROVE  rs[k] = rows[m]
    <3>1. CASE rows[m].job = j
      <4>1. rows[m] = [job |-> j, status |-> s]
        BY <2>1, <3>1 DEF RowOf
      <4> QED
        BY <1>3, <2>2, <2>3, <3>1, <4>1
    <3>2. CASE rows[m].job # j
      BY <1>3, <2>2, <2>3, <3>2
    <3> QED
      BY <3>1, <3>2
  <2> QED
    BY <1>3, <1>6, <2>1, <2>2, <2>3
<1>9. hidden' \in BOOLEAN /\ overtaken' \in BOOLEAN
  BY <1>5 DEF TableTyped
<1> QED
  BY <1>4, <1>5, <1>7, <1>8, <1>9, ListRewrittenInv

\* An answer is written into the list, which is then about jobs that have rows,
\* and keeps what is being created to itself.
LEMMA ListWrittenInv ==
    ASSUME TableInv, NEW n \in DOMAIN orders, OrderAnswered(n), NEW rs \in Seq(Row), list' = <<rs>>,
           hidden' = (hidden \/ list = <<>>),
           \A i : Listed(rs, i) => HasRow(i),
           \A m \in DOMAIN orders \ {n} :
              orders[m].kind = "create" /\ Pending(m) /\ ~orders[m].crossed => ~Listed(rs, orders[m].job),
           Told /\ Len(listFetch) # 2 /\ list # <<>> /\ ~orders[n].crossed =>
              /\ \A m \in DOMAIN rows :
                    \/ \E k \in DOMAIN rs : rs[k] = rows[m]
                    \/ \E k \in DOMAIN orders \ {n} : Creates(k, rows[m].job) /\ Pending(k)
                    \/ /\ \E k \in DOMAIN orders \ {n} : Kills(k, rows[m].job) /\ Pending(k)
                       /\ Listed(rs, rows[m].job)
              /\ Len(rows) = Len(rs) + (IF \E j \in Train : \E k \in DOMAIN orders \ {n} :
                                             Creates(k, j) /\ Pending(k) THEN 1 ELSE 0)
    PROVE  TableInv'
<1> USE DEF TableInv
<1>1. PICK ord \in Request :
         /\ orders' = [orders EXCEPT ![n] = ord] /\ ord.kind = orders[n].kind /\ ord.job = orders[n].job
         /\ ord.state = "done"
  <2> DEFINE ord == [orders[n] EXCEPT !.state = "done", !.answer = "none", !.crossed = FALSE]
  <2>1. orders[n] \in Request
    BY DEF TableTyped
  <2>2. ord \in Request /\ ord.kind = orders[n].kind /\ ord.job = orders[n].job /\ ord.state = "done"
    BY <2>1 DEF Request
  <2>3. orders' = [orders EXCEPT ![n] = ord]
    BY DEF OrderAnswered
  <2> QED
    BY <2>2, <2>3
<1>2. /\ UNCHANGED <<rows, asking, listFetch>> /\ orders[n].state = "handled"
      /\ overtaken' = (overtaken \/ orders[n].crossed)
  BY DEF OrderAnswered, pageVars
<1>3. /\ orders' \in Seq(Request) /\ DOMAIN orders' = DOMAIN orders
      /\ orders'[n] = ord /\ \A m \in DOMAIN orders \ {n} : orders'[m] = orders[m]
      /\ \A m \in DOMAIN orders : orders'[m].kind = orders[m].kind /\ orders'[m].job = orders[m].job
      /\ \A m \in DOMAIN orders \ {n} : Pending(m)' <=> Pending(m)
      /\ Pending(n)' <=> ord.state \in {"begun", "handled"}
      /\ \A m \in DOMAIN orders : \A i : (Creates(m, i)' <=> Creates(m, i)) /\ (Kills(m, i)' <=> Kills(m, i))
  BY <1>1, OneOrder
<1>4. ~Pending(n)' /\ Pending(n)
  BY <1>1, <1>2, <1>3 DEF Pending
<1>5. /\ \A i : BeingCreated(i)' <=> \E m \in DOMAIN orders \ {n} : Creates(m, i) /\ Pending(m)
      /\ \A i : BeingKilled(i)' <=> \E m \in DOMAIN orders \ {n} : Kills(m, i) /\ Pending(m)
      /\ Told' => Told /\ ~orders[n].crossed /\ list # <<>>
  <2>1. \A i : BeingCreated(i)' <=> \E m \in DOMAIN orders \ {n} : Creates(m, i) /\ Pending(m)
    BY <1>3, <1>4 DEF BeingCreated
  <2>2. \A i : BeingKilled(i)' <=> \E m \in DOMAIN orders \ {n} : Kills(m, i) /\ Pending(m)
    BY <1>3, <1>4 DEF BeingKilled
  <2>3. ASSUME Told' PROVE Told /\ ~orders[n].crossed /\ list # <<>>
    <3>1. ~hidden /\ list # <<>> /\ ~overtaken /\ ~orders[n].crossed
      BY <1>2, <2>3 DEF Told
    <3>2. \A m \in DOMAIN orders : Pending(m) => ~orders[m].crossed
      BY <1>3, <2>3, <3>1 DEF Told
    <3> QED
      BY <3>1, <3>2 DEF Told
  <2> QED
    BY <2>1, <2>2, <2>3
<1>6. TableTyped'
  <2>1. hidden' \in BOOLEAN /\ overtaken' \in BOOLEAN
    <3>1. orders[n] \in Request
      BY DEF TableTyped
    <3> QED
      BY <1>2, <3>1 DEF TableTyped, Request
  <2> QED
    BY <1>2, <1>3, <2>1 DEF TableTyped
<1>7. list'[1] = rs /\ list' # <<>>
  OBVIOUS
<1>8. JobsTrue'
  <2>1. \A i : HasRow(i)' <=> HasRow(i)
    BY <1>2, SameRows
  <2>2. \A m \in DOMAIN orders' :
           /\ orders'[m].kind = "kill" \/ Pending(m)' => HasRow(orders[m].job)
           /\ orders'[m].kind = "create" /\ orders'[m].state = "sent" => ~HasRow(orders[m].job)
    BY <1>1, <1>3, <1>4 DEF JobsTrue
  <2>3. \A k \in DOMAIN rs : HasRow(rs[k].job)
    BY DEF Listed
  <2> QED
    BY <1>2, <1>3, <1>7, <2>1, <2>2, <2>3 DEF JobsTrue, HasRow
<1>9. CreationsTrue'
  <2>1. \A l, m \in DOMAIN orders' :
           /\ orders'[l].kind = "create" /\ orders'[l].state # "done"
           /\ orders'[m].kind = "create" /\ orders'[m].state # "done"
           => l = m
    BY <1>1, <1>3 DEF CreationsTrue
  <2>2. ASSUME NEW m \in DOMAIN orders', orders'[m].kind = "create", Pending(m)', ~orders'[m].crossed
        PROVE  /\ list' # <<>> => ~Listed(list'[1], orders'[m].job)
               /\ Len(listFetch') = 2 => ~Listed(listFetch'[2], orders'[m].job)
               /\ asking' # <<orders'[m].job>>
               /\ \A k \in DOMAIN orders' : ~(orders'[k].kind = "kill" /\ orders'[k].job = orders'[m].job)
    <3>1. m \in DOMAIN orders \ {n} /\ Pending(m) /\ orders'[m] = orders[m]
      BY <1>3, <1>4, <2>2
    <3>2. ~Listed(rs, orders[m].job)
      BY <2>2, <3>1
    <3>3. orders[m].kind = "create" /\ ~orders[m].crossed
      BY <2>2, <3>1
    <3>4. /\ Len(listFetch) = 2 => ~Listed(listFetch[2], orders[m].job)
          /\ asking # <<orders[m].job>>
          /\ \A k \in DOMAIN orders : ~Kills(k, orders[m].job)
      BY <3>1, <3>3 DEF CreationsTrue
    <3>5. \A k \in DOMAIN orders' : orders'[k].kind = orders[k].kind /\ orders'[k].job = orders[k].job
      BY <1>3
    <3>6. \A k \in DOMAIN orders' : ~(orders'[k].kind = "kill" /\ orders'[k].job = orders'[m].job)
      BY <1>3, <3>1, <3>4, <3>5 DEF Kills
    <3> QED
      BY <1>2, <1>7, <3>1, <3>2, <3>4, <3>6
  <2> QED
    BY <2>1, <2>2 DEF CreationsTrue, Kills
<1>10. \A m \in DOMAIN orders' : orders'[m].state \in {"begun", "handled"} => orders'[m] = orders[m]
  BY <1>1, <1>3
<1>11. KillsTrue'
  BY <1>2, <1>3, <1>10 DEF KillsTrue
<1>12. AnswersTell'
  BY <1>2, <1>3, <1>5, <1>10 DEF AnswersTell
<1>13. ListTells'
  <2>1. CASE ~Told' \/ Len(listFetch) = 2
    BY <1>2, <1>5, <2>1 DEF ListTells
  <2>2. CASE Told' /\ Len(listFetch) # 2
    <3>1. \A m \in DOMAIN rows :
             \/ \E k \in DOMAIN rs : rs[k] = rows[m]
             \/ BeingCreated(rows[m].job)'
             \/ BeingKilled(rows[m].job)' /\ Listed(rs, rows[m].job)
      <4>1. ASSUME NEW m \in DOMAIN rows
            PROVE  \/ \E k \in DOMAIN rs : rs[k] = rows[m]
                   \/ \E k \in DOMAIN orders \ {n} : Creates(k, rows[m].job) /\ Pending(k)
                   \/ /\ \E k \in DOMAIN orders \ {n} : Kills(k, rows[m].job) /\ Pending(k)
                      /\ Listed(rs, rows[m].job)
        BY <1>5, <2>2
      <4>2. \A m : BeingCreated(rows[m].job)' <=>
                      \E k \in DOMAIN orders \ {n} : Creates(k, rows[m].job) /\ Pending(k)
        BY <1>2, <1>3, <1>4 DEF BeingCreated, Creates
      <4>3. \A m : BeingKilled(rows[m].job)' <=>
                      \E k \in DOMAIN orders \ {n} : Kills(k, rows[m].job) /\ Pending(k)
        BY <1>2, <1>3, <1>4 DEF BeingKilled, Kills
      <4> QED
        BY <4>1, <4>2, <4>3
    <3>2. Len(rows) = Len(rs) + (IF \E j \in Train : BeingCreated(j)' THEN 1 ELSE 0)
      BY <1>5, <2>2
    <3> QED
      BY <1>2, <1>7, <2>2, <3>1, <3>2 DEF ListTells
  <2> QED
    BY <2>1, <2>2
<1> QED
  BY <1>6, <1>8, <1>9, <1>11, <1>12, <1>13

\* The answer to a creation: its row goes before what is listed, and was not there.
LEMMA CreatedInv == ASSUME TableInv, NEW n \in DOMAIN orders, OrderAnswered(n), Created(n) PROVE TableInv'
<1> USE DEF TableInv
<1>1. orders[n] \in Request /\ orders[n].kind = "create" /\ orders[n].state = "handled"
  BY DEF Created, OrderAnswered, TableTyped
<1>2. PICK j \in Train : j = orders[n].job
  BY <1>1 DEF Request
<1>3. PICK new \in Row : new = [job |-> j, status |-> orders[n].answer]
  BY <1>1 DEF KillsTrue, Row
<1>4. PICK old \in Seq(Row) : old = IF list = <<>> THEN <<>> ELSE list[1]
  <2>1. list # <<>> => list[1] \in Seq(Row)
    BY DEF TableTyped
  <2>2. <<>> \in Seq(Row)
    OBVIOUS
  <2> QED
    BY <2>1, <2>2
<1>5. PICK rs \in Seq(Row) : rs = <<new>> \o old
  <2>1. <<new>> \in Seq(Row)
    OBVIOUS
  <2>2. <<new>> \o old \in Seq(Row)
    BY <2>1
  <2> QED
    BY <2>2
<1>6. list' = <<rs>> /\ hidden' = (hidden \/ list = <<>>)
  BY <1>2, <1>3, <1>4, <1>5 DEF Created
<1>7. /\ Len(rs) = Len(old) + 1 /\ rs[1] = new /\ Len(old) \in Nat
      /\ DOMAIN rs = 1..(Len(old) + 1) /\ DOMAIN old = 1..Len(old)
      /\ \A k \in DOMAIN old : rs[k + 1] = old[k]
      /\ \A k \in DOMAIN rs : k = 1 \/ (k - 1 \in DOMAIN old /\ rs[k] = old[k - 1])
  BY <1>5
<1>8. new.job = j /\ new.status = orders[n].answer
  BY <1>3
<1>9. \A k \in DOMAIN old : rs[k + 1] = old[k] /\ k + 1 \in DOMAIN rs
  BY <1>7
<1>10. \A i : Listed(rs, i) <=> i = j \/ Listed(old, i)
  <2>1. Listed(rs, j)
    <3>1. 1 \in DOMAIN rs
      BY <1>7
    <3> QED
      BY <1>7, <1>8, <3>1 DEF Listed
  <2>2. \A i : Listed(old, i) => Listed(rs, i)
    BY <1>9 DEF Listed
  <2>3. \A i : Listed(rs, i) => i = j \/ Listed(old, i)
    BY <1>7, <1>8 DEF Listed
  <2> QED
    BY <2>1, <2>2, <2>3
<1>11. \A i : Listed(rs, i) => HasRow(i)
  <2>1. HasRow(j)
    BY <1>1, <1>2 DEF JobsTrue, Pending
  <2>2. \A i : Listed(old, i) => HasRow(i)
    BY <1>4 DEF JobsTrue, Listed
  <2> QED
    BY <1>10, <2>1, <2>2
<1>12. \A m \in DOMAIN orders : orders[m].kind = "create" /\ Pending(m) => m = n
  BY <1>1 DEF CreationsTrue, Pending
<1>13. ASSUME Told, Len(listFetch) # 2, list # <<>>
       PROVE  /\ \A m \in DOMAIN rows :
                    \/ \E k \in DOMAIN rs : rs[k] = rows[m]
                    \/ /\ \E k \in DOMAIN orders \ {n} : Kills(k, rows[m].job) /\ Pending(k)
                       /\ Listed(rs, rows[m].job)
              /\ Len(rows) = Len(rs)
  <2>1. old = list[1] /\ Len(rows) = Len(list[1]) + (IF \E i \in Train : BeingCreated(i) THEN 1 ELSE 0)
    BY <1>4, <1>13 DEF ListTells
  <2>2. BeingCreated(j)
    BY <1>1, <1>2 DEF BeingCreated, Creates, Pending
  <2>3. Len(rows) = Len(rs)
    BY <1>7, <2>1, <2>2
  <2>4. ASSUME NEW m \in DOMAIN rows
        PROVE  \/ \E k \in DOMAIN rs : rs[k] = rows[m]
               \/ /\ \E k \in DOMAIN orders \ {n} : Kills(k, rows[m].job) /\ Pending(k)
                  /\ Listed(rs, rows[m].job)
    <3>1. \/ \E k \in DOMAIN old : old[k] = rows[m]
          \/ BeingCreated(rows[m].job)
          \/ BeingKilled(rows[m].job) /\ Listed(old, rows[m].job)
      BY <1>13, <2>1 DEF ListTells
    <3>2. CASE \E k \in DOMAIN old : old[k] = rows[m]
      BY <1>9, <3>2
    <3>3. CASE BeingCreated(rows[m].job)
      <4>1. rows[m].job = j
        BY <1>2, <1>12, <3>3 DEF BeingCreated, Creates
      <4>2. rows[m].status = orders[n].answer
        BY <1>1, <1>2, <1>13, <4>1 DEF AnswersTell
      <4>3. rows[m] \in Row
        BY DEF TableTyped
      <4>4. rows[m] = new
        BY <1>8, <4>1, <4>2, <4>3 DEF Row
      <4>5. 1 \in DOMAIN rs
        BY <1>7
      <4> QED
        BY <1>7, <4>4, <4>5
    <3>4. CASE BeingKilled(rows[m].job) /\ Listed(old, rows[m].job)
      BY <1>1, <1>10, <3>4 DEF BeingKilled, Kills
    <3> QED
      BY <3>1, <3>2, <3>3, <3>4
  <2> QED
    BY <2>3, <2>4
<1>14. ~\E i \in Train : \E k \in DOMAIN orders \ {n} : Creates(k, i) /\ Pending(k)
  BY <1>12 DEF Creates
<1>15. Len(rs) \in Nat /\ Len(rs) + 0 = Len(rs)
  OBVIOUS
<1>16. Told /\ Len(listFetch) # 2 /\ list # <<>> /\ ~orders[n].crossed =>
          /\ \A m \in DOMAIN rows :
                \/ \E k \in DOMAIN rs : rs[k] = rows[m]
                \/ \E k \in DOMAIN orders \ {n} : Creates(k, rows[m].job) /\ Pending(k)
                \/ /\ \E k \in DOMAIN orders \ {n} : Kills(k, rows[m].job) /\ Pending(k)
                   /\ Listed(rs, rows[m].job)
          /\ Len(rows) = Len(rs) + (IF \E i \in Train : \E k \in DOMAIN orders \ {n} :
                                         Creates(k, i) /\ Pending(k) THEN 1 ELSE 0)
  BY <1>13, <1>14, <1>15
<1>17. \A m \in DOMAIN orders \ {n} :
          orders[m].kind = "create" /\ Pending(m) /\ ~orders[m].crossed => ~Listed(rs, orders[m].job)
  BY <1>12
<1> QED
  BY <1>6, <1>11, <1>16, <1>17, ListWrittenInv

\* The answer to a kill: the row of the job says what the answer says.
LEMMA KilledInv == ASSUME TableInv, NEW n \in DOMAIN orders, OrderAnswered(n), Killed(n) PROVE TableInv'
<1> USE DEF TableInv
<1>1. orders[n] \in Request /\ orders[n].kind = "kill" /\ orders[n].state = "handled"
  BY DEF Killed, OrderAnswered, TableTyped
<1>2. PICK j \in Train, s \in Status : j = orders[n].job /\ s = orders[n].answer
  BY <1>1 DEF Request, KillsTrue
<1>3. PICK old \in Seq(Row) : old = IF list = <<>> THEN <<>> ELSE list[1]
  <2>1. list # <<>> => list[1] \in Seq(Row)
    BY DEF TableTyped
  <2>2. <<>> \in Seq(Row)
    OBVIOUS
  <2> QED
    BY <2>1, <2>2
<1>4. PICK rs \in Seq(Row) : rs = WithStatus(old, j, s)
  BY WithStatusIs
<1>5. /\ DOMAIN rs = DOMAIN old /\ Len(rs) = Len(old)
      /\ \A k \in DOMAIN old : /\ rs[k].job = old[k].job
                               /\ old[k].job = j => rs[k] = [job |-> j, status |-> s]
                               /\ old[k].job # j => rs[k] = old[k]
      /\ \A i : Listed(rs, i) <=> Listed(old, i)
  BY <1>4, WithStatusIs
<1>6. list = <<>> => rs = <<>>
  <2>1. Len(<<>>) = 0
    OBVIOUS
  <2> QED
    BY <1>3, <1>5, <2>1
<1>7. list' = <<rs>> /\ hidden' = (hidden \/ list = <<>>)
  BY <1>1, <1>2, <1>3, <1>4, <1>6 DEF Killed
<1>8. \A i : Listed(rs, i) => HasRow(i)
  BY <1>3, <1>5 DEF JobsTrue, Listed
<1>9. ASSUME NEW m \in DOMAIN orders \ {n}, orders[m].kind = "create", Pending(m), ~orders[m].crossed
      PROVE  ~Listed(rs, orders[m].job)
  <2>1. list # <<>> => ~Listed(list[1], orders[m].job)
    BY <1>9 DEF CreationsTrue
  <2>2. DOMAIN <<>> = {}
    OBVIOUS
  <2>3. ~Listed(<<>>, orders[m].job)
    BY <2>2 DEF Listed
  <2> QED
    BY <1>3, <1>5, <2>1, <2>3
<1>10. \A i : BeingCreated(i) <=> \E k \in DOMAIN orders \ {n} : Creates(k, i) /\ Pending(k)
  BY <1>1 DEF BeingCreated, Creates
<1>11. ASSUME Told, Len(listFetch) # 2, list # <<>>
       PROVE  /\ \A m \in DOMAIN rows :
                    \/ \E k \in DOMAIN rs : rs[k] = rows[m]
                    \/ BeingCreated(rows[m].job)
                    \/ /\ \E k \in DOMAIN orders \ {n} : Kills(k, rows[m].job) /\ Pending(k)
                       /\ Listed(rs, rows[m].job)
              /\ Len(rows) = Len(rs) + (IF \E i \in Train : BeingCreated(i) THEN 1 ELSE 0)
  <2>1. old = list[1] /\ Len(rows) = Len(rs) + (IF \E i \in Train : BeingCreated(i) THEN 1 ELSE 0)
    BY <1>3, <1>5, <1>11 DEF ListTells
  <2>2. ASSUME NEW m \in DOMAIN rows
        PROVE  \/ \E k \in DOMAIN rs : rs[k] = rows[m]
               \/ BeingCreated(rows[m].job)
               \/ /\ \E k \in DOMAIN orders \ {n} : Kills(k, rows[m].job) /\ Pending(k)
                  /\ Listed(rs, rows[m].job)
    <3>1. \/ \E k \in DOMAIN old : old[k] = rows[m]
          \/ BeingCreated(rows[m].job)
          \/ BeingKilled(rows[m].job) /\ Listed(old, rows[m].job)
      BY <1>11, <2>1 DEF ListTells
    <3>2. rows[m] \in Row
      BY DEF TableTyped
    <3>3. CASE rows[m].job = j
      <4>1. rows[m].status = s
        BY <1>1, <1>2, <1>11, <3>3 DEF AnswersTell
      <4>2. rows[m] = [job |-> j, status |-> s]
        BY <3>2, <3>3, <4>1 DEF Row
      <4>3. Listed(old, j) \/ BeingCreated(rows[m].job)
        BY <3>1, <3>3 DEF Listed
      <4> QED
        BY <1>5, <4>2, <4>3 DEF Listed
    <3>4. CASE rows[m].job # j
      <4>1. CASE \E k \in DOMAIN old : old[k] = rows[m]
        BY <1>5, <3>4, <4>1
      <4>2. CASE BeingKilled(rows[m].job) /\ Listed(old, rows[m].job)
        BY <1>2, <1>5, <3>4, <4>2 DEF BeingKilled, Kills
      <4> QED
        BY <3>1, <4>1, <4>2
    <3> QED
      BY <3>3, <3>4
  <2> QED
    BY <2>1, <2>2
<1>12. Told /\ Len(listFetch) # 2 /\ list # <<>> /\ ~orders[n].crossed =>
          /\ \A m \in DOMAIN rows :
                \/ \E k \in DOMAIN rs : rs[k] = rows[m]
                \/ \E k \in DOMAIN orders \ {n} : Creates(k, rows[m].job) /\ Pending(k)
                \/ /\ \E k \in DOMAIN orders \ {n} : Kills(k, rows[m].job) /\ Pending(k)
                   /\ Listed(rs, rows[m].job)
          /\ Len(rows) = Len(rs) + (IF \E i \in Train : \E k \in DOMAIN orders \ {n} :
                                         Creates(k, i) /\ Pending(k) THEN 1 ELSE 0)
  BY <1>10, <1>11
<1> QED
  BY <1>7, <1>8, <1>9, <1>12, ListWrittenInv

LEMMA TableNextInv == ASSUME TableInv, [TableNext]_tableVars PROVE TableInv'
<1>1. CASE ShowTable
  BY <1>1, IdleTableInv DEF ShowTable
<1>2. CASE FetchList
  <2>1. Len(<<>>) = 0
    OBVIOUS
  <2> QED
    BY <1>2, <2>1, IdleTableInv DEF FetchList, pageVars
<1>3. CASE ListFails
  BY <1>3, ListFailsInv
<1>4. CASE \E j \in Train : AskKill(j)
  <2>1. PICK j \in Train : AskKill(j)
    BY <1>4
  <2>2. \/ list # <<>> /\ Listed(list[1], j)
        \/ HasRow(j) /\ ~BeingCreated(j)
    <3>1. CASE OnJobPage(j)
      BY <3>1 DEF OnJobPage, RowOf, HasRow, Listed, BeingCreated, Creates, Pending
    <3>2. CASE ~OnJobPage(j)
      BY <2>1, <3>2 DEF AskKill, Listed
    <3> QED
      BY <3>1, <3>2
  <2>3. /\ asking' = <<j>>
        /\ UNCHANGED <<rows, list, orders, overtaken, listFetch, hidden>>
    BY <2>1 DEF AskKill
  <2> QED
    BY <2>2, <2>3, IdleTableInv
<1>5. CASE UNCHANGED tableVars
  BY <1>5, IdleTableInv DEF tableVars
<1>6. CASE ConfirmKill \/ \E j \in Train : OrderCreate(j)
  BY <1>6, SendingInv
<1>7. CASE ReadList
  BY <1>7, ReadListInv
<1>8. CASE ListArrives
  BY <1>8, ListArrivesInv
<1>9. CASE \E j \in Train : TrainEnds(j)
  BY <1>9, TrainEndsInv
<1>10. CASE \E n \in DOMAIN orders : CreateRow(n)
  BY <1>10, CreateRowInv
<1>11. CASE \E n \in DOMAIN orders : KillRow(n)
  BY <1>11, KillRowInv
<1>12. CASE \E n \in DOMAIN orders : OrderRefused(n)
  BY <1>12, RefusedInv
<1>13. CASE \E n \in DOMAIN orders : OrderAnswered(n)
  <2>1. PICK n \in DOMAIN orders : OrderAnswered(n)
    BY <1>13
  <2>2. Created(n) \/ Killed(n)
    BY <2>1 DEF OrderAnswered
  <2> QED
    BY <2>1, <2>2, CreatedInv, KilledInv
<1>14. CASE \E j \in Train, s \in {"running", "killed", "ended"} : StatusArrives(j, s)
  BY <1>14, StatusArrivesInv
<1> QED
  BY <1>1, <1>2, <1>3, <1>4, <1>5, <1>6, <1>7, <1>8, <1>9, <1>10, <1>11, <1>12, <1>13, <1>14 DEF TableNext

\* What the table lists and what the requests under way will write into it are
\* together what the API has, as long as none of them has crossed a poll.
THEOREM TableInvariance == TableSpec => []TableInv
<1>1. TableInit => TableInv
  BY TableInitInv
<1>2. TableInv /\ [TableNext]_tableVars => TableInv'
  BY TableNextInv
<1> QED
  BY <1>1, <1>2, PTL DEF TableSpec

\* Once every request is answered, the table lists each job of the API once and
\* with its status, unless something changed that no answer tells or an answer
\* crossed a poll; and it never lists a job that the API does not have.
THEOREM TableIsTrue == TableSpec => []TableTells
<1>1. ASSUME TableInv PROVE TableTells
  <2> USE <1>1 DEF TableInv
  <2>1. ASSUME list # <<>>, NEW n \in DOMAIN list[1] PROVE RowOf(list[1][n].job) # {}
    <3>1. HasRow(list[1][n].job)
      BY <2>1 DEF JobsTrue
    <3> QED
      BY <3>1 DEF HasRow, RowOf
  <2>2. ASSUME \A n \in DOMAIN orders : orders[n].state = "done", listFetch = <<>>, list # <<>>,
               ~hidden, ~overtaken
        PROVE  /\ Len(list[1]) = Len(rows)
               /\ \A n \in DOMAIN rows : \E k \in DOMAIN list[1] : list[1][k] = rows[n]
    <3>1. \A n \in DOMAIN orders : ~Pending(n)
      BY <2>2 DEF Pending
    <3>2. Told
      BY <2>2, <3>1 DEF Told
    <3>3. \A j : ~BeingCreated(j) /\ ~BeingKilled(j)
      BY <3>1 DEF BeingCreated, BeingKilled
    <3>4. Len(<<>>) = 0
      OBVIOUS
    <3>5. Len(listFetch) # 2
      BY <2>2, <3>4
    <3>6. \A n \in DOMAIN rows : \E k \in DOMAIN list[1] : list[1][k] = rows[n]
      BY <2>2, <3>2, <3>3, <3>5 DEF ListTells
    <3>7. Len(rows) = Len(list[1]) + (IF \E j \in Train : BeingCreated(j) THEN 1 ELSE 0)
      BY <2>2, <3>2, <3>5 DEF ListTells
    <3>8. Len(list[1]) \in Nat
      BY <2>2 DEF TableTyped
    <3>9. ~\E j \in Train : BeingCreated(j)
      BY <3>3
    <3>10. Len(rows) = Len(list[1]) + 0
      BY <3>7, <3>9
    <3> QED
      BY <3>6, <3>8, <3>10
  <2> QED
    BY <2>1, <2>2 DEF TableTells
<1> QED
  BY <1>1, TableInvariance, PTL
=============================================================================
