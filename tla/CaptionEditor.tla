---------------------------- MODULE CaptionEditor -----------------------------
(***************************************************************************)
(* The page that edits the captions of a dataset: the image selected by    *)
(* its place in the list, the editor mounted for that image, the queries   *)
(* that hold the list and each caption, and the requests under way.  A     *)
(* list that cannot be fetched has the page replaced by an alert until it  *)
(* can.                                                                    *)
(*                                                                         *)
(* The editor is keyed by file name: another image is another editor, and  *)
(* what the handlers of an old one set after their await goes nowhere.  A  *)
(* caption's query outlives its editor.  An invalidated query is fetched   *)
(* again at once if it is on display, cancelling the fetch under way,      *)
(* unless that is its first; and when it is next displayed otherwise.      *)
(***************************************************************************)
EXTENDS Naturals, Sequences, FiniteSets

CONSTANTS
    Image,          \* file names, as numbers: the list is sorted by them
    Linked,         \* ?filename= of the page's address, or Nothing
    Nothing,
    MaxTyped,       \* bounds: texts typed, requests sent, editors mounted
    MaxSent,
    MaxMounts,
    MaxOdd          \* fetches that begin by themselves, fetches and requests that fail

ASSUME EditorAssumption ==
    /\ Image \subseteq Nat /\ IsFiniteSet(Image) /\ Linked \in Image \cup {Nothing}
    /\ MaxTyped \in Nat /\ MaxSent \in Nat /\ MaxMounts \in Nat /\ MaxOdd \in Nat

VARIABLES
    captions,   \* the caption files of the images in the dataset
    dataset,    \* useDataset(): the list, with what each caption amounts to
    listing,    \* its fetch: <<>> for none, <<"asked">>, or <<"read", list>>
    isError,    \* the last fetch of the list failed: the alert is in the page's place
    selected,   \* selectedIndex, counted from 1
    editor,     \* the mounted editor: its image, or Nothing, and which one it is
    edited,     \* editedCaption
    data,       \* useCaption(): <<caption>> of each image, <<>> until it is fetched
    fetch,      \* its fetch, as listing
    stale,      \* images whose query is invalidated or old
    sent,       \* requests sent, with where they stand
    typed,      \* texts typed so far
    odd,        \* what so far began by itself or failed
    \* history:
    draft,      \* what was typed last into this editor and must be there
    outdated      \* images whose last invalidation led to no fetch that succeeded

pageVars  == <<dataset, listing, isError, selected, editor, edited, draft>>
queryVars == <<data, fetch, stale, outdated>>
editVars  == <<captions, pageVars, queryVars, sent, typed, odd>>

Text == [of : Image, n : 0..MaxTyped, token : BOOLEAN]
Caption == Text \cup {Nothing}
List == UNION {[I -> Caption] : I \in SUBSET Image}
Request == [kind : {"save", "clear", "remove", "prepend"}, image : Image \cup {Nothing},
            text : Caption, from : 0..MaxMounts,
            state : {"sent", "ok", "failed", "done"}]

\* Nothing is neither an image nor a text.
ASSUME NothingAssumption == Nothing \notin Image \cup Text

EditTypeOK ==
    /\ captions \in List /\ dataset \in List
    /\ listing \in {<<>>, <<"asked">>} \cup ({"read"} \X List)
    /\ isError \in BOOLEAN
    /\ selected \in 1..Cardinality(Image) \cup {1}
    /\ editor \in [image : Image \cup {Nothing}, nr : 0..MaxMounts]
    /\ edited \in Caption /\ draft \in Caption
    /\ data \in [Image -> {<<>>} \cup {<<c>> : c \in Caption}]
    /\ fetch \in [Image -> {<<>>, <<"asked">>} \cup ({"read"} \X Caption)]
    /\ stale \subseteq Image /\ outdated \subseteq Image
    /\ sent \in Seq(Request)
    /\ typed \in 0..MaxTyped /\ odd \in 0..MaxOdd

\* The image at place i of a list.
At(list, i) ==
    IF i \notin 1..Cardinality(DOMAIN list) THEN Nothing
    ELSE CHOOSE f \in DOMAIN list : Cardinality({g \in DOMAIN list : g <= f}) = i

Place(list, f) == Cardinality({g \in DOMAIN list : g <= f})

EditInit ==
    /\ \E I \in SUBSET Image :
          captions = [f \in Image |-> IF f \in I THEN [of |-> f, n |-> 0, token |-> FALSE]
                                      ELSE Nothing]
    /\ dataset = captions
    /\ listing = <<>> /\ isError = FALSE
    /\ selected = IF Linked = Nothing THEN 1 ELSE Place(dataset, Linked)
    /\ editor = [image |-> At(dataset, selected), nr |-> 0]
    /\ edited = Nothing
    /\ data = [f \in Image |-> <<>>]
    /\ fetch = [f \in Image |-> IF f = editor.image THEN <<"asked">> ELSE <<>>]
    /\ stale = {} /\ sent = <<>> /\ typed = 0 /\ odd = 0 /\ draft = Nothing /\ outdated = {}

-----------------------------------------------------------------------------
(* Queries *)

\* The images in I are displayed: those without a caption, or with an old one,
\* are fetched unless that is under way.
Display(I) ==
    LET ask == {f \in I : fetch[f] = <<>> /\ (data[f] = <<>> \/ f \in stale)}
    IN  /\ fetch' = [f \in Image |-> IF f \in ask THEN <<"asked">> ELSE fetch[f]]
        /\ outdated' = outdated \ ask
        /\ UNCHANGED <<data, stale>>

\* The page shows list at place i.  If the image there is not the one that is
\* being edited its editor is mounted, through that of image mid if need be.
Show(list, mid, i) ==
    LET image == At(list, i)
        new == {mid, image} # {editor.image}
    IN  /\ selected' = i
        /\ IF ~new THEN UNCHANGED <<editor, edited, draft, queryVars>>
           ELSE /\ editor.nr < MaxMounts
                /\ editor' = [image |-> image, nr |-> editor.nr + 1]
                /\ edited' = Nothing /\ draft' = Nothing
                /\ Display({mid, image} \ {Nothing})

\* invalidateQueries of the list and of every caption under it, after image f
\* was dropped from the cache, if it was: its query is made anew on display.
InvalidateDataset(f) ==
    LET on == editor.image
        restart == on # f /\ (fetch[on] = <<>> \/ data[on] # <<>>)
        again == IF on = f \/ (on # Nothing /\ restart) THEN {on} ELSE {}
        cached == {g \in Image \ {f} : data[g] # <<>> \/ fetch[g] # <<>>}
    IN  /\ listing' = <<"asked">>
        /\ data' = [g \in Image |-> IF g = f THEN <<>> ELSE data[g]]
        /\ fetch' = [g \in Image |-> IF g \in again \ {Nothing} THEN <<"asked">>
                                     ELSE IF g = f THEN <<>> ELSE fetch[g]]
        /\ stale' = (stale \cup cached) \ {f}
        /\ outdated' = (outdated \cup {g \in cached : fetch[g] # <<>>}) \ (again \cup {f})

\* A fetch begins by itself: an interval, or the window gets the focus again.
\* A caption may have become old by then.
RefetchCaption ==
    /\ odd < MaxOdd
    /\ odd' = odd + 1
    /\ editor.image # Nothing
    /\ fetch[editor.image] = <<>>
    /\ fetch' = [fetch EXCEPT ![editor.image] = <<"asked">>]
    /\ outdated' = outdated \ {editor.image}
    /\ UNCHANGED <<captions, pageVars, data, stale, sent, typed>>

RefetchDataset ==
    /\ IF isError THEN UNCHANGED odd ELSE odd < MaxOdd /\ odd' = odd + 1
    /\ listing = <<>>
    /\ listing' = <<"asked">>
    /\ UNCHANGED <<captions, dataset, isError, selected, editor, edited, draft, queryVars, sent, typed>>

\* The API reads what was asked for.
ReadCaption(f) ==
    /\ fetch[f] = <<"asked">>
    /\ fetch' = [fetch EXCEPT ![f] =
                    <<"read", IF f \in DOMAIN captions THEN captions[f] ELSE Nothing>>]
    /\ UNCHANGED <<captions, pageVars, data, stale, outdated, sent, typed, odd>>

ReadDataset ==
    /\ listing = <<"asked">>
    /\ listing' = <<"read", captions>>
    /\ UNCHANGED <<captions, dataset, isError, selected, editor, edited, draft, queryVars, sent, typed, odd>>

CaptionArrives(f) ==
    /\ Len(fetch[f]) = 2
    /\ data' = [data EXCEPT ![f] = <<fetch[f][2]>>]
    /\ fetch' = [fetch EXCEPT ![f] = <<>>]
    /\ stale' = stale \ {f}
    /\ UNCHANGED <<captions, pageVars, outdated, sent, typed, odd>>

\* A caption that cannot be fetched is an empty one, and the fetch a success.
FetchFails(f) ==
    /\ odd < MaxOdd
    /\ odd' = odd + 1
    /\ fetch[f] # <<>>
    /\ data' = [data EXCEPT ![f] = <<Nothing>>]
    /\ fetch' = [fetch EXCEPT ![f] = <<>>]
    /\ stale' = stale \ {f}
    /\ outdated' = outdated \cup {f}
    /\ UNCHANGED <<captions, pageVars, sent, typed>>

\* The list cannot be fetched: the alert takes the place of the page, and of the
\* editor with what was typed into it.
DatasetFails ==
    /\ odd < MaxOdd
    /\ odd' = odd + 1
    /\ listing # <<>>
    /\ listing' = <<>>
    /\ isError' = TRUE
    /\ editor' = [editor EXCEPT !.image = Nothing]
    /\ edited' = Nothing /\ draft' = Nothing
    /\ UNCHANGED <<captions, dataset, selected, queryVars, sent, typed>>

\* The list arrives.  If anything in it has changed the effects of the page run:
\* back to the linked image if it is there, or into the bounds of the list.  In
\* the place of the alert an editor is mounted anew.
DatasetArrives ==
    /\ Len(listing) = 2
    /\ LET list == listing[2]
           last == Cardinality(DOMAIN list)
           mid == At(list, selected)
           i == IF list = dataset THEN selected
                ELSE IF Linked # Nothing /\ Linked \in DOMAIN list THEN Place(list, Linked)
                ELSE IF selected > last THEN (IF last = 0 THEN 1 ELSE last) ELSE selected
       IN  /\ dataset' = list
           /\ IF list = dataset /\ ~isError THEN UNCHANGED <<selected, editor, edited, draft, queryVars>>
              ELSE Show(list, mid, i)
    /\ listing' = <<>> /\ isError' = FALSE
    /\ UNCHANGED <<captions, sent, typed, odd>>

-----------------------------------------------------------------------------
(* The user *)

\* A click in the grid, an arrow of the editor or of the keyboard, which the page
\* heeds behind the alert too.
Select ==
    /\ \E i \in 1..Cardinality(DOMAIN dataset) :
          /\ i # selected
          /\ IF isError THEN selected' = i /\ UNCHANGED <<editor, edited, draft, queryVars>>
             ELSE Show(dataset, At(dataset, i), i)
    /\ UNCHANGED <<captions, dataset, listing, isError, sent, typed, odd>>

Loading == data[editor.image] = <<>>

Type ==
    /\ editor.image # Nothing /\ ~Loading
    /\ typed < MaxTyped
    /\ typed' = typed + 1
    /\ edited' = [of |-> editor.image, n |-> typed + 1, token |-> FALSE]
    /\ draft' = edited'
    /\ UNCHANGED <<captions, dataset, listing, isError, selected, editor, queryVars, sent, odd>>

\* A request of this kind is on its way from the editor on display.
Pending(kind) == \E n \in DOMAIN sent : /\ sent[n].state # "done" /\ sent[n].kind = kind
                                        /\ sent[n].from = editor.nr

Send(kind, image, text) ==
    /\ Len(sent) < MaxSent
    /\ sent' = Append(sent, [kind |-> kind, image |-> image, text |-> text,
                             from |-> editor.nr, state |-> "sent"])
    /\ UNCHANGED <<captions, pageVars, queryVars, typed, odd>>

Save ==
    /\ editor.image # Nothing /\ ~Loading /\ ~Pending("save")
    /\ edited # Nothing /\ <<edited>> # data[editor.image]
    /\ Send("save", editor.image, edited)

Clear ==
    /\ editor.image \in DOMAIN dataset /\ dataset[editor.image] # Nothing
    /\ ~Loading /\ ~Pending("save") /\ ~Pending("clear")
    /\ Send("clear", editor.image, Nothing)

RemoveImage ==
    /\ ~isError
    /\ \E f \in DOMAIN dataset :
          /\ \A n \in DOMAIN sent : ~(sent[n].kind = "remove" /\ sent[n].image = f)
          /\ Send("remove", f, Nothing)

Prepend == ~isError /\ Send("prepend", Nothing, Nothing)

-----------------------------------------------------------------------------
(* The API, as Datasets has it in detail, and its answers *)

Serve(n) ==
    LET r == sent[n]
        there == r.kind = "prepend" \/ r.image \in DOMAIN captions
    IN  /\ r.state = "sent"
        /\ sent' = [sent EXCEPT ![n].state =
                       IF there \/ r.kind = "clear" THEN "ok" ELSE "failed"]
        /\ captions' =
              IF ~there THEN captions
              ELSE CASE r.kind = "save" -> [captions EXCEPT ![r.image] = r.text]
                     [] r.kind = "clear" -> [captions EXCEPT ![r.image] = Nothing]
                     [] r.kind = "remove" -> [f \in DOMAIN captions \ {r.image} |-> captions[f]]
                     [] r.kind = "prepend" ->
                          [f \in DOMAIN captions |->
                              IF captions[f] = Nothing THEN Nothing
                              ELSE [captions[f] EXCEPT !.token = TRUE]]
        /\ UNCHANGED <<pageVars, queryVars, typed, odd>>

\* A request that fails on its way; that to clear a caption is taken for one
\* that found none.
RequestFails(n) ==
    /\ odd < MaxOdd
    /\ odd' = odd + 1
    /\ sent[n].state = "sent"
    /\ sent' = [sent EXCEPT ![n].state = IF sent[n].kind = "clear" THEN "ok" ELSE "failed"]
    /\ UNCHANGED <<captions, pageVars, queryVars, typed>>

\* Mutant: one editor serves all images.
ForgetUnkeyed(r) ==
    IF r.kind \in {"save", "clear"}
    THEN edited' = Nothing /\ draft' = IF r.from = editor.nr THEN Nothing ELSE draft
    ELSE UNCHANGED <<edited, draft>>

\* An editor's handler forgets the edit after its await.
Forget(r) ==
    IF r.kind \in {"save", "clear"} /\ r.from = editor.nr
    THEN edited' = Nothing /\ draft' = Nothing
    ELSE UNCHANGED <<edited, draft>>

\* The answer arrives: queries are dropped and invalidated, the edit forgotten.
\* An error is shown and leaves everything as it is.
Answer(n) ==
    LET r == sent[n]
    IN  /\ r.state \in {"ok", "failed"}
        /\ sent' = [sent EXCEPT ![n].state = "done"]
        /\ IF r.state = "failed" THEN UNCHANGED <<pageVars, queryVars>>
           ELSE /\ Forget(r)
                /\ InvalidateDataset(IF r.kind \in {"clear", "remove"} THEN r.image ELSE Nothing)
                /\ UNCHANGED <<dataset, isError, selected, editor>>
        /\ UNCHANGED <<captions, typed, odd>>

EditNext ==
    \/ RefetchCaption \/ RefetchDataset \/ ReadDataset \/ DatasetArrives \/ DatasetFails
    \/ \E f \in Image : ReadCaption(f) \/ CaptionArrives(f) \/ FetchFails(f)
    \/ Select \/ Type \/ Save \/ Clear \/ RemoveImage \/ Prepend
    \/ \E n \in DOMAIN sent : Serve(n) \/ RequestFails(n) \/ Answer(n)

EditSpec == EditInit /\ [][EditNext]_editVars

-----------------------------------------------------------------------------
\* What the user types stays in the editor until the editor itself has saved
\* or cleared, as far as it knows, or another image or the alert is displayed: no
\* answer to a request of an editor left behind takes it away.  And whatever
\* shifts the list between typing, saving and answering, a caption lands on the
\* image it was typed for.
TypedTextKept ==
    /\ draft # Nothing => edited = draft /\ editor.image = draft.of
    /\ \A f \in DOMAIN captions : captions[f] # Nothing => captions[f].of = f

\* When all is answered, the caption on display is the file's, and any other
\* in the cache is the file's or is fetched before it is displayed, however
\* saves, clears, removals and prepended tokens overlapped the fetches: unless
\* its last fetch failed, which is displayed as no caption at all, or one was
\* under way that the invalidation did not restart.
CaptionFresh ==
    (\A n \in DOMAIN sent : sent[n].state = "done") =>
        \A f \in DOMAIN captions \ outdated :
            fetch[f] = <<>> /\ data[f] # <<>> =>
                data[f] = <<captions[f]>> \/ (f \in stale /\ f # editor.image)

\* What the editor displays is what was typed, or else what the file holds.
EditorTells == TypedTextKept /\ CaptionFresh
=============================================================================
