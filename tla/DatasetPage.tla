----------------------------- MODULE DatasetPage -----------------------------
(***************************************************************************)
(* The card on the page of a dataset in which its metadata are edited: two *)
(* text fields that are saved when they lose the focus, changed or not,    *)
(* and a menu and a button that act at once.  Each answer has the dataset  *)
(* fetched again, as does a timer; metadata that differ from those on      *)
(* display replace the text in both fields.  While the last fetch is one   *)
(* that failed an alert takes the place of the page, card, texts and all.  *)
(* The same dataset may be edited elsewhere.                               *)
(***************************************************************************)
EXTENDS Naturals, Sequences

CONSTANTS
    MaxTexts,       \* bounds: texts and types anybody enters,
    MaxPuts,        \* requests sent from the card,
    MaxSurprises    \* changes from elsewhere, failures and timers

VARIABLES
    row,        \* the metadata in the database: what each of its columns holds
    meta,       \* dataset.meta, as the page has it
    query,      \* the fetch of the dataset: <<>>, <<"asked">> or <<"read", row>>
    alert,      \* isError: there is an alert, and no card
    field,      \* token and notes, the texts in the two fields
    focus,      \* the field being edited, or "none"
    puts,       \* requests sent, each with the row as it found it
    texts,      \* texts and types entered so far
    surprises,
    \* history:
    wanted,     \* what was last entered for each column, here or elsewhere
    dropped,    \* columns where the card gave that up
    unseen      \* a change from elsewhere or a failure is not yet on display

cardVars == <<row, meta, query, alert, field, focus, puts, texts, surprises, wanted, dropped, unseen>>

Input == {"token", "notes"}
MetaColumn == Input \cup {"type"}
Content == [MetaColumn -> 0..MaxTexts]

CardTypeOK ==
    /\ row \in Content /\ meta \in Content /\ wanted \in Content
    /\ query \in {<<>>, <<"asked">>} \cup ({"read"} \X Content)
    /\ alert \in BOOLEAN /\ field \in [Input -> 0..MaxTexts] /\ focus \in Input \cup {"none"}
    /\ \A n \in DOMAIN puts : /\ puts[n].column \in MetaColumn /\ puts[n].text \in 0..MaxTexts
                              /\ puts[n].state \in {"sent", "found", "saved", "failed", "done"}
                              /\ puts[n].seen \in Content
    /\ texts \in 0..MaxTexts /\ surprises \in 0..MaxSurprises
    /\ dropped \subseteq MetaColumn /\ unseen \in BOOLEAN

CardInit ==
    /\ row = [c \in MetaColumn |-> 0] /\ meta = row /\ wanted = row
    /\ query = <<>> /\ alert = FALSE
    /\ field = [c \in Input |-> 0] /\ focus = "none"
    /\ puts = <<>> /\ texts = 0 /\ surprises = 0
    /\ dropped = {} /\ unseen = FALSE

OnItsWay(column) ==
    \E n \in DOMAIN puts : puts[n].column = column /\ puts[n].state \in {"sent", "found"}

-----------------------------------------------------------------------------
(* The user *)

Focus(c) ==
    /\ focus = "none" /\ ~alert
    /\ focus' = c
    /\ UNCHANGED <<row, meta, query, alert, field, puts, texts, surprises, wanted, dropped, unseen>>

EnterText ==
    /\ focus # "none" /\ texts < MaxTexts
    /\ texts' = texts + 1
    /\ field' = [field EXCEPT ![focus] = texts + 1]
    /\ wanted' = [wanted EXCEPT ![focus] = texts + 1]
    /\ UNCHANGED <<row, meta, query, alert, focus, puts, surprises, dropped, unseen>>

\* saveField.  What it sends is given up if it is not what was last entered, and
\* may be if another save of the column is under way, for they can be swapped.
SaveField(column, text) ==
    /\ Len(puts) < MaxPuts
    /\ puts' = Append(puts, [column |-> column, text |-> text, state |-> "sent", seen |-> row])
    /\ dropped' = IF text # wanted'[column] \/ OnItsWay(column) THEN dropped \cup {column}
                  ELSE dropped \ {column}

Blur ==
    /\ focus # "none"
    /\ focus' = "none"
    /\ UNCHANGED wanted
    /\ SaveField(focus, field[focus])
    /\ UNCHANGED <<row, meta, query, alert, field, texts, surprises, unseen>>

\* A choice in the menu, which displays dataset.meta; or the detection of the
\* caption type, of which there is one at a time.
ChooseType ==
    /\ focus = "none" /\ ~alert /\ texts < MaxTexts
    /\ texts' = texts + 1
    /\ wanted' = [wanted EXCEPT !["type"] = texts + 1]
    /\ SaveField("type", texts + 1)
    /\ UNCHANGED <<row, meta, query, alert, field, focus, surprises, unseen>>

-----------------------------------------------------------------------------
(* The requests *)

\* updateMeta finds the row, and later saves it with one column changed; that
\* the save selects the row again before it updates is left to Datasets.
FindRow(n) ==
    /\ puts[n].state = "sent"
    /\ puts' = [puts EXCEPT ![n].state = "found", ![n].seen = row]
    /\ UNCHANGED <<row, meta, query, alert, field, focus, texts, surprises, wanted, dropped, unseen>>

\* What another call has written meanwhile to the other columns is undone.
SaveRow(n) ==
    /\ puts[n].state = "found"
    /\ row' = [puts[n].seen EXCEPT ![puts[n].column] = puts[n].text]
    /\ puts' = [puts EXCEPT ![n].state = "saved"]
    /\ dropped' = dropped \cup {c \in MetaColumn \ {puts[n].column} : row'[c] # row[c]}
    /\ UNCHANGED <<meta, query, alert, field, focus, texts, surprises, wanted, unseen>>

\* Nothing tells the user, and the field, if it is there, keeps its text.
UpdateFails(n) ==
    /\ surprises < MaxSurprises
    /\ surprises' = surprises + 1
    /\ puts[n].state = "found"
    /\ puts' = [puts EXCEPT ![n].state = "failed"]
    /\ dropped' = dropped \cup {puts[n].column}
    /\ unseen' = TRUE
    /\ UNCHANGED <<row, meta, query, alert, field, focus, texts, wanted>>

\* Mutant: the dataset is fetched again only if no fetch is under way.
UpdatedIdle(n) ==
    /\ puts[n].state = "saved"
    /\ puts' = [puts EXCEPT ![n].state = "done"]
    /\ query' = (IF query = <<>> THEN <<"asked">> ELSE query)
    /\ UNCHANGED <<row, meta, alert, field, focus, texts, surprises, wanted, dropped, unseen>>

\* onSuccess: the dataset is fetched anew, whatever fetch was under way.
Updated(n) ==
    /\ puts[n].state = "saved"
    /\ puts' = [puts EXCEPT ![n].state = "done"]
    /\ query' = <<"asked">>
    /\ UNCHANGED <<row, meta, alert, field, focus, texts, surprises, wanted, dropped, unseen>>

\* The interval of useDataset, which goes on behind the alert, or the window gets
\* the focus.
Refetch ==
    /\ \/ alert /\ UNCHANGED surprises
       \/ ~alert /\ surprises < MaxSurprises /\ surprises' = surprises + 1
    /\ query = <<>>
    /\ query' = <<"asked">>
    /\ UNCHANGED <<row, meta, alert, field, focus, puts, texts, wanted, dropped, unseen>>

Read ==
    /\ query = <<"asked">>
    /\ query' = <<"read", row>>
    /\ UNCHANGED <<row, meta, alert, field, focus, puts, texts, surprises, wanted, dropped, unseen>>

\* The alert takes the card away, and with it the focus and a text that was not
\* saved yet, which no blur will save.
ReadFails ==
    /\ surprises < MaxSurprises
    /\ surprises' = surprises + 1
    /\ query # <<>>
    /\ query' = <<>>
    /\ alert' = TRUE /\ focus' = "none"
    /\ dropped' = dropped \cup {c \in Input : c = focus /\ (row[c] # wanted[c] \/ OnItsWay(c))}
    /\ unseen' = TRUE
    /\ UNCHANGED <<row, meta, field, puts, texts, wanted>>

\* Equal metadata are the same object as before; others reset both fields, also
\* the one that is being edited and one whose save is under way.  A card that
\* comes back begins with what it is given.
Refreshed ==
    /\ Len(query) = 2
    /\ query' = <<>> /\ alert' = FALSE
    /\ meta' = query[2]
    /\ field' = IF meta' = meta /\ ~alert THEN field ELSE [c \in Input |-> meta'[c]]
    /\ unseen' = (unseen /\ ~((meta' # meta \/ alert) /\ meta' = row))
    /\ UNCHANGED <<row, focus, puts, texts, surprises, wanted, dropped>>

\* The dataset is edited from another window.
Elsewhere ==
    /\ surprises < MaxSurprises /\ texts < MaxTexts
    /\ surprises' = surprises + 1 /\ texts' = texts + 1
    /\ \E c \in MetaColumn :
          /\ row' = [row EXCEPT ![c] = texts + 1]
          /\ wanted' = [wanted EXCEPT ![c] = texts + 1]
          /\ dropped' = IF OnItsWay(c) THEN dropped \cup {c} ELSE dropped \ {c}
    /\ unseen' = TRUE
    /\ UNCHANGED <<meta, query, alert, field, focus, puts>>

CardNext ==
    \/ \E c \in Input : Focus(c)
    \/ EnterText \/ Blur \/ ChooseType
    \/ \E n \in DOMAIN puts : FindRow(n) \/ SaveRow(n) \/ UpdateFails(n) \/ Updated(n)
    \/ Refetch \/ Read \/ ReadFails \/ Refreshed \/ Elsewhere

CardSpec == CardInit /\ [][CardNext]_cardVars

-----------------------------------------------------------------------------
Quiet == focus = "none" /\ query = <<>> /\ \A n \in DOMAIN puts : puts[n].state \in {"done", "failed"}

\* When all is quiet, the database holds for each column what was last entered
\* for it, here or elsewhere, and the fields show what it holds: whatever answers,
\* timers and edits of the other columns overlapped, and also when the page is
\* back from an alert.  Unless a save failed, a save had found the row before
\* another one wrote to it, two saves of the column were under way at once, the
\* metadata changed under a text that was not saved yet or the alert took it away,
\* or a field was left that still showed an older text than was entered elsewhere;
\* and until a fetch succeeds after one that failed or a change from elsewhere.
EditsReach ==
    Quiet =>
        /\ \A c \in MetaColumn \ dropped : row[c] = wanted[c]
        /\ ~unseen => meta = row /\ \A c \in Input \ dropped : field[c] = row[c]
=============================================================================
