------------------------------ MODULE OutputsPage -----------------------------
(***************************************************************************)
(* The page of a job's outputs: the list of checkpoints, polled every ten  *)
(* seconds while the trainer adds to it, the one selected, the lightbox    *)
(* over its previews and the downloads.  The page remembers positions in   *)
(* lists, and the lightbox what it has learnt of a picture.                *)
(*                                                                         *)
(* How the API reads the directories is Outputs; here its answer is read   *)
(* in one step.  A checkpoint is known by its number, by which the answer  *)
(* is sorted, and a preview by its checkpoint and the number of its prompt.*)
(***************************************************************************)
EXTENDS Naturals, Sequences, FiniteSets

CONSTANTS
    Number,         \* the numbers of the checkpoints
    Pair,           \* for each prompt: the one that differs in the token only, or 0
    MaxChosen,      \* bounds: what the user opens or selects,
    MaxPulls,       \* downloads,
    MaxMisses       \* what fails to load

ASSUME OutputsPageAssumption ==
    /\ Number \subseteq Nat \ {0} /\ IsFiniteSet(Number)
    /\ Pair \in Seq(Nat)
    /\ MaxChosen \in Nat /\ MaxPulls \in Nat /\ MaxMisses \in Nat

VARIABLES
    file,           \* what has become of each checkpoint: "none", "there", "gone"
    shots,          \* how many previews of it there are
    outs,           \* the cached answer: <<>>, or one list
    outsFetch,      \* what its fetch has read: <<>>, or one list
    selectedIndex,
    lightboxIndex,  \* 0 when closed
    modal,          \* the lightbox: <<>>, or the state it keeps
    thrown,         \* rendering has failed, the page is lost
    pulls,          \* the downloads in flight
    downloadingId,  \* the checkpoint whose button waits, or 0
    misses, choices,
    \* history:
    chosen,         \* the checkpoint that the user selected, or 0
    looking,        \* the picture that the user opened or went to
    moved,          \* a checkpoint was removed, or saved before others in the order
    crossed         \* two downloads were under way together

outsVars  == <<outs, outsFetch, selectedIndex, lightboxIndex, modal, thrown>>
pullVars  == <<pulls, downloadingId, crossed>>
sightVars == <<chosen, looking>>
outputsVars == <<file, shots, outsVars, pullVars, misses, choices, sightVars, moved>>

Prompts == DOMAIN Pair

OutputsInit ==
    /\ file = [k \in Number |-> "none"] /\ shots = [k \in Number |-> 0]
    /\ outs = <<>> /\ outsFetch = <<>>
    /\ selectedIndex = 1 /\ lightboxIndex = 0 /\ modal = <<>> /\ thrown = FALSE
    /\ pulls = <<>> /\ downloadingId = 0
    /\ misses = 0 /\ choices = 0
    /\ chosen = 0 /\ looking = <<>> /\ moved = FALSE /\ crossed = FALSE

Choose == choices < MaxChosen /\ choices' = choices + 1
Miss   == misses < MaxMisses /\ misses' = misses + 1

-----------------------------------------------------------------------------
(* The trainer, outside src/ *)

SaveNumber(k) ==
    /\ file[k] = "none"
    /\ file' = [file EXCEPT ![k] = "there"]
    /\ moved' = (moved \/ \E n \in Number : file[n] = "there" /\ n > k)
    /\ UNCHANGED <<shots, outsVars, pullVars, misses, choices, sightVars>>

\* Only the last ones are kept, if the user wants so.
RemoveNumber(k) ==
    /\ file[k] = "there"
    /\ file' = [file EXCEPT ![k] = "gone"]
    /\ moved' = TRUE
    /\ UNCHANGED <<shots, outsVars, pullVars, misses, choices, sightVars>>

\* The prompts are sampled in their order.
SampleNumber(k) ==
    /\ shots[k] < Len(Pair)
    /\ shots' = [shots EXCEPT ![k] = @ + 1]
    /\ UNCHANGED <<file, outsVars, pullVars, misses, choices, sightVars, moved>>

-----------------------------------------------------------------------------
(* What is rendered *)

\* The number at a place of a set, in their order.
Nth(numbers, n) == CHOOSE k \in numbers : Cardinality({m \in numbers : m <= k}) = n

\* The answer of the API: sorted by number.
ListNow ==
    LET there == {k \in Number : file[k] = "there"}
    IN  [n \in 1..Cardinality(there) |->
            [file |-> Nth(there, n), previews |-> shots[Nth(there, n)]]]

Listed(answer) == IF answer = <<>> THEN <<>> ELSE answer[1]

Previews(answer, s) == IF s \in DOMAIN Listed(answer) THEN Listed(answer)[s].previews ELSE 0

\* Mutant: nothing is forgotten when another picture is displayed.
KeepAll(picture) ==
    IF modal = <<>> THEN [picture |-> picture, dimensions |-> <<>>, imgError |-> <<>>, compareOpen |-> <<>>]
    ELSE [modal[1] EXCEPT !.picture = picture]

\* The lightbox has the picture: what it knew of another one is forgotten, and the
\* panel beside it is keyed by the file name.
Reset(picture) ==
    IF modal # <<>> /\ modal[1].picture = picture THEN modal[1]
    ELSE [picture |-> picture, dimensions |-> <<>>, imgError |-> <<>>, compareOpen |-> <<>>]

\* The page with this answer and these positions.  No lightbox without previews,
\* and its position is kept; a position beyond the previews has no file name to read.
Render(answer, s, l) ==
    LET n == Previews(answer, s) IN
    /\ outs' = answer /\ selectedIndex' = s /\ lightboxIndex' = l
    /\ \/ (l = 0 \/ n = 0) /\ modal' = <<>> /\ thrown' = FALSE
       \/ l \in 1..n /\ modal' = <<Reset(<<Listed(answer)[s].file, l>>)>> /\ thrown' = FALSE
       \/ n > 0 /\ l > n /\ modal' = <<>> /\ thrown' = TRUE

-----------------------------------------------------------------------------
(* The query *)

\* Asked for, and read by the API.
FetchOutputs ==
    /\ outsFetch = <<>>
    /\ outsFetch' = <<ListNow>>
    /\ UNCHANGED <<file, shots, outs, selectedIndex, lightboxIndex, modal, thrown, pullVars,
                   misses, choices, sightVars, moved>>

OutputsArrive ==
    /\ outsFetch # <<>>
    /\ outsFetch' = <<>>
    /\ IF thrown THEN outs' = outsFetch /\ UNCHANGED <<selectedIndex, lightboxIndex, modal, thrown>>
       ELSE Render(outsFetch, selectedIndex, lightboxIndex)
    /\ UNCHANGED <<file, shots, pullVars, misses, choices, sightVars, moved>>

OutputsFail ==
    /\ outsFetch # <<>> /\ Miss
    /\ outsFetch' = <<>>
    /\ UNCHANGED <<file, shots, outs, selectedIndex, lightboxIndex, modal, thrown, pullVars,
                   choices, sightVars, moved>>

-----------------------------------------------------------------------------
(* What the user does, and the browser *)

\* onSelect
SelectCheckpoint(s) ==
    /\ ~thrown /\ Choose
    /\ s \in DOMAIN Listed(outs)
    /\ modal = <<>>
    /\ Render(outs, s, 0)
    /\ chosen' = Listed(outs)[s].file /\ looking' = <<>>
    /\ UNCHANGED <<file, shots, outsFetch, pullVars, misses, moved>>

\* onOpenLightbox
OpenLightbox(l) ==
    /\ ~thrown /\ Choose
    /\ modal = <<>> /\ l \in 1..Previews(outs, selectedIndex)
    /\ Render(outs, selectedIndex, l)
    /\ looking' = <<<<Listed(outs)[selectedIndex].file, l>>>>
    /\ UNCHANGED <<file, shots, outsFetch, pullVars, misses, chosen, moved>>

\* onNavigate: the arrows, on the screen or the keyboard.
Navigate(step) ==
    /\ modal # <<>> /\ Choose
    /\ LET n == Previews(outs, selectedIndex)
           l == IF step = "right" THEN (IF lightboxIndex < n THEN lightboxIndex + 1 ELSE n)
                ELSE IF lightboxIndex > 1 THEN lightboxIndex - 1 ELSE 1
       IN  /\ Render(outs, selectedIndex, l)
           /\ looking' = <<<<Listed(outs)[selectedIndex].file, l>>>>
    /\ UNCHANGED <<file, shots, outsFetch, pullVars, misses, chosen, moved>>

\* onClose: the cross, or Escape, with the comparison if that is open.
CloseLightbox ==
    /\ modal # <<>>
    /\ Render(outs, selectedIndex, 0)
    /\ looking' = <<>>
    /\ UNCHANGED <<file, shots, outsFetch, pullVars, misses, choices, chosen, moved>>

\* onLoad and onError of the picture displayed.
PictureLoads ==
    /\ modal # <<>> /\ modal[1].imgError = <<>> /\ modal[1].dimensions = <<>>
    /\ \/ modal' = <<[modal[1] EXCEPT !.dimensions = <<modal[1].picture>>]>> /\ UNCHANGED misses
       \/ modal' = <<[modal[1] EXCEPT !.imgError = <<modal[1].picture>>]>> /\ Miss
    /\ UNCHANGED <<file, shots, outs, outsFetch, selectedIndex, lightboxIndex, thrown, pullVars,
                   choices, sightVars, moved>>

\* openCompare, for a prompt whose pair has a preview of this checkpoint too, and closeCompare.
Compare ==
    /\ modal # <<>>
    /\ \/ /\ Choose /\ modal[1].compareOpen = <<>>
          /\ Pair[lightboxIndex] \in 1..Previews(outs, selectedIndex)
          /\ modal' = <<[modal[1] EXCEPT !.compareOpen = <<modal[1].picture>>]>>
       \/ /\ modal[1].compareOpen # <<>>
          /\ modal' = <<[modal[1] EXCEPT !.compareOpen = <<>>]>>
          /\ UNCHANGED choices
    /\ UNCHANGED <<file, shots, outs, outsFetch, selectedIndex, lightboxIndex, thrown, pullVars,
                   misses, sightVars, moved>>

\* handleDownload(): the button of a checkpoint, which waits while it is the one.
StartPull(s) ==
    /\ ~thrown /\ modal = <<>> /\ Len(pulls) < MaxPulls
    /\ s \in DOMAIN Listed(outs)
    /\ Listed(outs)[s].file # downloadingId
    /\ downloadingId' = Listed(outs)[s].file
    /\ pulls' = Append(pulls, Listed(outs)[s].file)
    /\ crossed' = (crossed \/ pulls # <<>>)
    /\ UNCHANGED <<file, shots, outsVars, misses, choices, sightVars, moved>>

\* finally, whether the file was still there or not.
PullEnds(n) ==
    /\ downloadingId' = 0
    /\ pulls' = SubSeq(pulls, 1, n - 1) \o SubSeq(pulls, n + 1, Len(pulls))
    /\ UNCHANGED <<file, shots, outsVars, crossed, misses, choices, sightVars, moved>>

\* The page is left, or loaded anew: what is in flight no longer concerns it, and
\* the answer stays cached.
LeaveOutputs ==
    /\ Choose
    /\ Render(outs, 1, 0)
    /\ pulls' = <<>> /\ downloadingId' = 0 /\ crossed' = FALSE
    /\ chosen' = 0 /\ looking' = <<>>
    /\ UNCHANGED <<file, shots, outsFetch, misses, moved>>

OutputsPageNext ==
    \/ FetchOutputs \/ OutputsArrive \/ OutputsFail
    \/ CloseLightbox \/ PictureLoads \/ Compare \/ LeaveOutputs
    \/ \E k \in Number : SaveNumber(k) \/ RemoveNumber(k) \/ SampleNumber(k)
    \/ \E n \in Number : SelectCheckpoint(n) \/ StartPull(n)
    \/ \E l \in Prompts : OpenLightbox(l)
    \/ \E step \in {"left", "right"} : Navigate(step)
    \/ \E n \in DOMAIN pulls : PullEnds(n)

OutputsPageSpec == OutputsInit /\ [][OutputsPageNext]_outputsVars

-----------------------------------------------------------------------------
\* The size, the failure and the comparison that the lightbox has on display are
\* those of the picture on display, however the list and the positions change
\* under it.  As long as no checkpoint is removed and none is listed before
\* another that was there, the polls leave the checkpoint that the user selected
\* selected and the picture open that the user opened, and the page does not fail.
\* A button that waits is that of a download in flight, and with one download at
\* a time a download in flight has its button waiting.
LightboxTells ==
    /\ modal # <<>> =>
          \A seen \in {modal[1].dimensions, modal[1].imgError, modal[1].compareOpen} :
              seen \in {<<>>, <<modal[1].picture>>}
    /\ ~moved =>
          /\ ~thrown
          /\ chosen # 0 => Listed(outs)[selectedIndex].file = chosen
          /\ looking # <<>> => modal # <<>> /\ modal[1].picture = looking[1]
    /\ downloadingId # 0 => downloadingId \in {pulls[n] : n \in DOMAIN pulls}
    /\ ~crossed => \A n \in DOMAIN pulls : downloadingId = pulls[n]
=============================================================================
