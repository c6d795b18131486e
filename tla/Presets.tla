------------------------------- MODULE Presets --------------------------------
(***************************************************************************)
(* PresetsService: one user preset, a row of SQLite, with requests that    *)
(* create, update and delete it.  update() loads the row, merges what the  *)
(* request brings into it and saves it; save() looks for the row again and *)
(* writes the columns in which its entity differs, or inserts the entity   *)
(* if it finds none.  System presets come from code and are never written. *)
(* Between two statements of one request those of the others run.          *)
(***************************************************************************)
EXTENDS Naturals, FiniteSets

CONSTANTS
    Call,       \* requests; the value one brings to a field is the request
    Key,        \* keys of the config column, saved as one
    Label,      \* a column of its own, as the description is
    Absent      \* a key the config does not have, or no entity

ASSUME PresetAssumption == Label \notin Key /\ Absent \notin Call

VARIABLES
    preset,     \* the row, or Absent
    brings,     \* the fields that a request names
    asks,       \* what a request is: "create", "update", "delete", "read only"
    step,       \* where it stands
    entity,     \* the entity it will save
    columns,    \* the columns in which save() found it to differ
    \* history:
    kept,       \* for each field, the value that every caller may rely on
    clashed     \* requests that others of the preset have overlapped

presetVars == <<preset, brings, asks, step, entity, columns, kept, clashed>>

Part == Key \cup {Label}
Column(f) == IF f = Label THEN "label" ELSE "config"
Row == [Part -> Call \cup {Absent}]
Closed == {"new", "answered", "refused"}
Busy(c) == step[c] \notin Closed
Moves(c, s) == step' = [step EXCEPT ![c] = s]

PresetTypeOK ==
    /\ preset \in Row \cup {Absent}
    /\ brings \in [Call -> SUBSET Part]
    /\ asks \in [Call -> {"nothing", "create", "update", "delete"}]
    /\ step \in [Call -> Closed \cup {"load", "save", "insert", "write", "remove", "saved"}]
    /\ entity \in [Call -> Row \cup {Absent}]
    /\ columns \in [Call -> SUBSET {"label", "config"}]
    /\ kept \in Row
    /\ clashed \subseteq Call

\* The preset may be there, with values that nobody minds.
PresetInit ==
    /\ preset \in {Absent, [f \in Part |-> Absent]}
    /\ brings = [c \in Call |-> {}]
    /\ asks = [c \in Call |-> "nothing"]
    /\ step = [c \in Call |-> "new"]
    /\ entity = [c \in Call |-> Absent]
    /\ columns = [c \in Call |-> {}]
    /\ kept = [f \in Part |-> Absent]
    /\ clashed = {}

-----------------------------------------------------------------------------
\* A request that writes starts with step s.  Nobody may rely any more on the
\* fields in f, nor on what is written while another request is under way.
Arrive(c, ask, s, f) ==
    LET others == {d \in Call : Busy(d)}
    IN  /\ step[c] = "new"
        /\ asks' = [asks EXCEPT ![c] = ask]
        /\ Moves(c, s)
        /\ clashed' = IF others = {} THEN clashed ELSE clashed \cup others \cup {c}
        /\ kept' = [g \in Part |-> IF g \in f THEN Absent ELSE kept[g]]
        /\ UNCHANGED <<preset, columns>>

\* The database gives a new preset an id of its own: this one is made once.
CreatePreset(c) ==
    /\ preset = Absent
    /\ \A d \in Call : asks[d] = "nothing"
    /\ Arrive(c, "create", "insert", Part)
    /\ \E keys \in SUBSET Key :
          /\ brings' = [brings EXCEPT ![c] = keys \cup {Label}]
          /\ entity' = [entity EXCEPT ![c] = [f \in Part |-> IF f \in brings'[c] THEN c
                                                              ELSE Absent]]

UpdatePreset(c) ==
    /\ UNCHANGED entity
    /\ \E named \in SUBSET Part :
          /\ brings' = [brings EXCEPT ![c] = named]
          /\ Arrive(c, "update", "load", named)

DeletePreset(c) ==
    /\ UNCHANGED <<brings, entity>>
    /\ Arrive(c, "delete", "remove", Part)

\* The id of a system preset, or one without the prefix of a user preset, is
\* refused before anything is read.
RefusePreset(c) ==
    /\ step[c] = "new"
    /\ Moves(c, "refused")
    /\ UNCHANGED <<preset, brings, asks, entity, columns, kept, clashed>>

\* Mutant: the config is replaced by the one in the request.
LoadAndReplace(c) ==
    /\ step[c] = "load"
    /\ IF preset = Absent THEN Moves(c, "refused") /\ UNCHANGED entity
       ELSE /\ entity' = [entity EXCEPT ![c] =
                 [f \in Part |-> IF f \in brings[c] THEN c
                                 ELSE IF f \in Key /\ brings[c] \cap Key # {} THEN Absent
                                 ELSE preset[f]]]
            /\ Moves(c, "save")
    /\ UNCHANGED <<preset, brings, asks, columns, kept, clashed>>

\* findOneBy, and the merge of what the request names.
Load(c) ==
    /\ step[c] = "load"
    /\ IF preset = Absent THEN Moves(c, "refused") /\ UNCHANGED entity
       ELSE /\ entity' = [entity EXCEPT ![c] =
                             [f \in Part |-> IF f \in brings[c] THEN c ELSE preset[f]]]
            /\ Moves(c, "save")
    /\ UNCHANGED <<preset, brings, asks, columns, kept, clashed>>

\* save() looks for the row and compares.
Compare(c) ==
    /\ step[c] = "save"
    /\ LET differ == {Column(f) : f \in {g \in Part : preset[g] # entity[c][g]}}
       IN  IF preset = Absent THEN Moves(c, "insert") /\ UNCHANGED columns
           ELSE Moves(c, "write") /\ columns' = [columns EXCEPT ![c] = differ]
    /\ UNCHANGED <<preset, brings, asks, entity, kept, clashed>>

\* The primary key refuses a second row.
Insert(c) ==
    /\ step[c] = "insert"
    /\ IF preset = Absent THEN preset' = entity[c] /\ Moves(c, "saved")
       ELSE Moves(c, "refused") /\ UNCHANGED preset
    /\ UNCHANGED <<brings, asks, entity, columns, kept, clashed>>

\* An UPDATE of a row that has gone changes nothing and goes unnoticed.
Write(c) ==
    /\ step[c] = "write"
    /\ preset' = IF preset = Absent THEN preset
                 ELSE [f \in Part |-> IF Column(f) \in columns[c] THEN entity[c][f]
                                      ELSE preset[f]]
    /\ Moves(c, "saved")
    /\ UNCHANGED <<brings, asks, entity, columns, kept, clashed>>

\* The DELETE, refused if it affected no row.
Remove(c) ==
    /\ step[c] = "remove"
    /\ preset' = Absent
    /\ Moves(c, IF preset = Absent THEN "refused" ELSE "saved")
    /\ UNCHANGED <<brings, asks, entity, columns, kept, clashed>>

\* The answer reaches the caller, who may rely on what the request brought if
\* no other request was under way at any time since it arrived.
AnswerCall(c) ==
    /\ step[c] = "saved"
    /\ Moves(c, "answered")
    /\ kept' = IF c \in clashed \/ asks[c] = "delete" THEN kept
               ELSE [f \in Part |-> IF f \in brings[c] THEN c ELSE kept[f]]
    /\ entity' = [entity EXCEPT ![c] = Absent]
    /\ columns' = [columns EXCEPT ![c] = {}]
    /\ UNCHANGED <<preset, brings, asks, clashed>>

PresetNext ==
    \E c \in Call : \/ CreatePreset(c) \/ UpdatePreset(c) \/ DeletePreset(c) \/ RefusePreset(c)
                    \/ Load(c) \/ Compare(c) \/ Insert(c) \/ Write(c)
                    \/ Remove(c) \/ AnswerCall(c)

PresetSpec == PresetInit /\ [][PresetNext]_presetVars

-----------------------------------------------------------------------------
\* "Config is merged (not replaced): omitted keys are preserved", between
\* overlapping requests too: what an undisturbed request brought to a field is
\* there for as long as the preset is and no later request names that field,
\* although every update writes the whole config it has read before.
KeysKept ==
    preset # Absent => \A f \in Part : kept[f] # Absent => preset[f] = kept[f]
=============================================================================
