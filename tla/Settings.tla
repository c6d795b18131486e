------------------------------- MODULE Settings -------------------------------
(***************************************************************************)
(* SettingsService and TokensService: a row in SQLite and the copy of it   *)
(* that the rest of the API reads.                                         *)
(*                                                                         *)
(* Statements of the one connection take effect in the order they are      *)
(* issued and are answered in the order they took effect; a save runs its  *)
(* statement and then commits, so what is answered in order among saves    *)
(* may be overtaken by a delete, which does not commit.                    *)
(***************************************************************************)
EXTENDS Naturals, Sequences

CONSTANTS
    Update,     \* requests
    Field,      \* the columns an update may bring
    HintOf,     \* the last four characters of the token a request brings
    None        \* nothing there, or a default

ASSUME HintAssumption == None \notin Update /\ DOMAIN HintOf = Update

VARIABLES
    config,     \* the row of SettingsService
    cached,     \* SettingsService.cachedSettings
    token,      \* the row of one token type, its ciphertext as the secret in it
    secret,     \* what TokensService.cache holds for that type
    kind,       \* what a request is
    stage,      \* where it stands
    held,       \* what it has read or is to write
    answers,    \* the database has done these and is about to answer
    \* history:
    missed,     \* the last read behind an update has failed
    mixed       \* a clear and a set of the token were under way together

settingsVars == <<config, cached, missed>>
tokenVars    == <<token, secret, mixed>>
requestVars  == <<kind, stage, held, answers>>
configVars   == <<settingsVars, tokenVars, requestVars>>

Config == [Field -> Update \cup {None}]
TokenRow == [id : Update \cup {None}, secret : Update \cup {None},
             hint : {HintOf[u] : u \in Update} \cup {None}]
ASSUME NoneAssumption == None \notin TokenRow

Kind == {"settings", "set", "clear"}
Over == {"idle", "done", "error", "lost"}

ConfigTypeOK ==
    /\ config \in Config /\ cached \in Config
    /\ token \in TokenRow \cup {None}
    /\ secret \in TokenRow \cup {None}
    /\ kind \in [Update -> Kind]
    /\ stage \in [Update -> Over \cup {"reread", "find", "select", "insert", "update",
                                       "update secret",
                                       "commit", "delete", "deleted"}]
    /\ held \in [Update -> Config \cup TokenRow \cup {None}]
    /\ \A n \in 1..Len(answers) : answers[n] \in Update /\ stage[answers[n]] = "commit"
    /\ missed \in BOOLEAN /\ mixed \in BOOLEAN

\* onModuleInit of both: the rows are loaded, or the settings row is made from
\* the environment.  A stored token that cannot be decrypted is left out.
ConfigInit ==
    /\ config = [f \in Field |-> None]
    /\ cached = config
    /\ token \in {None, [id |-> None, secret |-> None, hint |-> None]}
    /\ secret = token
    /\ kind \in [Update -> Kind]
    /\ stage = [u \in Update |-> "idle"]
    /\ held = [u \in Update |-> None]
    /\ answers = <<>>
    /\ missed = FALSE
    /\ mixed = FALSE

Stands(u, s) == stage[u] = s
Under(u) == stage[u] \notin Over
Go(u, s) == stage' = [stage EXCEPT ![u] = s]

-----------------------------------------------------------------------------
(* SettingsService.update() *)

\* Mutant: the fields are merged into what is in memory, read before the write.
UpdateConfigMerged(u) ==
    /\ Stands(u, "idle")
    /\ kind[u] = "settings"
    /\ \E f \in Field :
          /\ config' = [config EXCEPT ![f] = u]
          /\ held' = [held EXCEPT ![u] = [cached EXCEPT ![f] = u]]
    /\ answers' = Append(answers, u)
    /\ Go(u, "commit")
    /\ UNCHANGED <<cached, missed, kind, tokenVars>>

\* The UPDATE of the given fields takes effect.
UpdateConfig(u) ==
    /\ Stands(u, "idle")
    /\ kind[u] = "settings"
    /\ \E f \in Field : config' = [config EXCEPT ![f] = u]
    /\ Go(u, "reread")
    /\ UNCHANGED <<cached, missed, kind, held, answers, tokenVars>>

\* Without a field there is no statement to build: the request fails.
UpdateNothing(u) ==
    /\ Stands(u, "idle")
    /\ kind[u] = "settings"
    /\ Go(u, "error")
    /\ UNCHANGED <<settingsVars, kind, held, answers, tokenVars>>

\* findOneByOrFail reads the row.
RereadConfig(u) ==
    /\ Stands(u, "reread")
    /\ held' = [held EXCEPT ![u] = config]
    /\ missed' = FALSE
    /\ answers' = Append(answers, u)
    /\ Go(u, "commit")
    /\ UNCHANGED <<config, cached, kind, tokenVars>>

RereadFails(u) ==
    /\ Stands(u, "reread")
    /\ missed' = TRUE
    /\ Go(u, "error")
    /\ UNCHANGED <<config, cached, kind, held, answers, tokenVars>>

-----------------------------------------------------------------------------
(* TokensService.upsertToken() *)

\* A set and a clear that have begun and are not answered.
Mixing == \E u, v \in Update : /\ kind[u] = "set" /\ Under(u)
                               /\ kind[v] = "clear" /\ Under(v)

TokenCall(u) ==
    /\ Stands(u, "idle")
    /\ \/ kind[u] = "set" /\ Go(u, "find")
       \/ kind[u] = "clear" /\ Go(u, "delete")
    /\ UNCHANGED <<settingsVars, token, secret, kind, held, answers>>
    /\ mixed' = (mixed \/ Mixing')

\* findOne: the entity to save is the row with the new values, or a new one.
FindToken(u) ==
    /\ Stands(u, "find")
    /\ held' = [held EXCEPT ![u] = [id |-> IF token = None THEN u ELSE token.id,
                                    secret |-> u, hint |-> HintOf[u]]]
    /\ Go(u, IF token = None THEN "insert" ELSE "select")
    /\ UNCHANGED <<settingsVars, tokenVars, kind, answers>>

\* save() of an entity with an id looks for its row, and writes of it only what
\* differs from what it finds: the ciphertext always, the hint not always.
SelectToken(u) ==
    LET found == token # None /\ token.id = held[u].id
    IN  /\ Stands(u, "select")
        /\ Go(u, CASE ~found -> "insert"
                   [] found /\ token.hint # held[u].hint -> "update"
                   [] found /\ token.hint = held[u].hint -> "update secret")
        /\ UNCHANGED <<settingsVars, tokenVars, kind, held, answers>>

\* The index on the type refuses a second row.
InsertToken(u) ==
    /\ Stands(u, "insert")
    /\ IF token = None
       THEN /\ token' = held[u]
            /\ answers' = Append(answers, u)
            /\ Go(u, "commit")
       ELSE Go(u, "error") /\ UNCHANGED <<token, answers>>
    /\ UNCHANGED <<settingsVars, secret, mixed, kind, held>>

\* An update of a row that has gone changes nothing and goes unnoticed.
UpdateToken(u) ==
    /\ Stands(u, "update") \/ Stands(u, "update secret")
    /\ token' = IF token = None \/ token.id # held[u].id THEN token
                ELSE IF Stands(u, "update") THEN held[u]
                ELSE [token EXCEPT !.secret = u]
    /\ answers' = Append(answers, u)
    /\ Go(u, "commit")
    /\ UNCHANGED <<settingsVars, secret, mixed, kind, held>>

DeleteToken(u) ==
    /\ Stands(u, "delete")
    /\ token' = None
    /\ Go(u, "deleted")
    /\ UNCHANGED <<settingsVars, secret, mixed, kind, held, answers>>

ClearToken(u) ==
    /\ Stands(u, "deleted")
    /\ secret' = None
    /\ Go(u, "done")
    /\ UNCHANGED <<settingsVars, token, mixed, kind, held, answers>>

-----------------------------------------------------------------------------
\* The next answer of the database arrives: the copy is brought up to date.
Answered ==
    LET u == Head(answers)
    IN  /\ answers # <<>>
        /\ answers' = Tail(answers)
        /\ Go(u, "done")
        /\ IF kind[u] = "settings"
           THEN cached' = held[u] /\ UNCHANGED secret
           ELSE secret' = held[u] /\ UNCHANGED cached
        /\ held' = [held EXCEPT ![u] = None]
        /\ UNCHANGED <<config, missed, token, mixed, kind>>

\* The API dies and starts again: requests are lost, the rows are loaded.
Reload ==
    /\ \E u \in Update : Under(u)
    /\ stage' = [u \in Update |-> IF Under(u) THEN "lost" ELSE stage[u]]
    /\ cached' = config
    /\ secret' = token
    /\ answers' = <<>>
    /\ missed' = FALSE
    /\ held' = [u \in Update |-> None]
    /\ UNCHANGED <<config, token, kind, mixed>>

ConfigNext ==
    \/ \E u \in Update :
          \/ UpdateConfig(u) \/ UpdateNothing(u) \/ RereadConfig(u) \/ RereadFails(u)
          \/ TokenCall(u) \/ FindToken(u) \/ SelectToken(u) \/ InsertToken(u)
          \/ UpdateToken(u) \/ DeleteToken(u) \/ ClearToken(u)
    \/ Answered
    \/ Reload

ConfigSpec == ConfigInit /\ [][ConfigNext]_configVars

-----------------------------------------------------------------------------
\* When no update is under way the copy of the settings is the row, however
\* updates overlapped, failed or were cut off, unless the read behind the last
\* of them failed: what paths and limits the API uses is what the database says.
SettingsInStep ==
    (\A u \in Update : kind[u] = "settings" => ~Under(u)) => cached = config \/ missed

\* When no request is under way the API uses the token that is stored, however
\* sets overlapped, failed or were cut off; only a clear beside a set may leave
\* a token in memory that a restart forgets, or the other way round.
TokenInStep ==
    (\A u \in Update : ~Under(u)) =>
        mixed \/ (secret = None /\ token = None)
              \/ (secret # None /\ token # None /\ secret.secret = token.secret)

\* What the API holds in memory is what the database holds.
ConfigInStep == SettingsInStep /\ TokenInStep
=============================================================================
