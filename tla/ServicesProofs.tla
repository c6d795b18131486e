--------------------------- MODULE ServicesProofs ---------------------------
(***************************************************************************)
(* The parts of the API that share nothing with the others: the settings   *)
(* and tokens, the presets, the poll of the system, and the outputs; and   *)
(* the page that edits captions.                                           *)
(***************************************************************************)
EXTENDS Settings, Presets, SystemPoll, Outputs, CaptionEditor, FiniteSetTheorems, TLAPS

-----------------------------------------------------------------------------
(***************************************************************************)
(* Why the copies in memory end up as the rows, for any requests, fields   *)
(* and tokens: the database answers saves in the order they took effect,   *)
(* so the last answer on its way carries what the row holds.               *)
(***************************************************************************)

Is(i, k) == i \in 1..Len(answers) /\ kind[answers[i]] = k

\* Answer i is the last one on its way to a request of kind k.
LastOf(i, k) == Is(i, k) /\ \A j \in 1..Len(answers) : Is(j, k) => j <= i

\* What a request does at its stage, and what is on its way to it.
StageTrue(u) ==
    /\ stage[u] = "reread" => kind[u] = "settings"
    /\ stage[u] \in {"find", "select", "insert", "update", "update secret"} => kind[u] = "set"
    /\ stage[u] \in {"delete", "deleted"} => kind[u] = "clear"
    /\ stage[u] = "commit" => kind[u] # "clear"
    /\ kind[u] = "set" /\ stage[u] \in {"select", "insert", "update", "update secret", "commit"}
          => held[u] \in TokenRow /\ held[u].secret = u
    /\ kind[u] = "settings" /\ stage[u] = "commit" => held[u] \in Config

StagesTrue == \A u \in Update : StageTrue(u)

\* Each request has at most one answer on its way.
AnswersTrue ==
    /\ answers \in Seq(Update)
    /\ \A i \in 1..Len(answers) : stage[answers[i]] = "commit"
    /\ \A i, j \in 1..Len(answers) : answers[i] = answers[j] => i = j

\* The last answer to an update carries the row, or there is none and the copy
\* is the row; unless an update has still to read, or could not.
ConfigTrue ==
    \/ missed
    \/ \E u \in Update : stage[u] = "reread"
    \/ \E i \in 1..Len(answers) : LastOf(i, "settings") /\ held[answers[i]] = config
    \/ (\A i \in 1..Len(answers) : ~Is(i, "settings")) /\ cached = config

SameToken ==
    \/ secret = None /\ token = None
    \/ secret # None /\ token # None /\ secret.secret = token.secret

\* The same of the token, as long as sets and clears keep apart.
TokenTrue ==
    mixed \/
        /\ ~Mixing
        /\ \A u \in Update : /\ stage[u] \in {"select", "update", "update secret"} =>
                                   token # None /\ token.id = held[u].id
                             /\ stage[u] = "deleted" => token = None
        /\ \/ \E i \in 1..Len(answers) :
                 /\ LastOf(i, "set")
                 /\ token # None /\ token.secret = answers[i]
           \/ /\ \A i \in 1..Len(answers) : ~Is(i, "set")
              /\ SameToken \/ \E u \in Update : stage[u] = "deleted"

StageName == Over \cup {"reread", "find", "select", "insert", "update", "update secret",
                       "commit", "delete", "deleted"}

Typed ==
    /\ config \in Config /\ cached \in Config
    /\ token \in TokenRow \cup {None}
    /\ kind \in [Update -> Kind]
    /\ stage \in [Update -> StageName]
    /\ held \in [Update -> Config \cup TokenRow \cup {None}]
    /\ missed \in BOOLEAN /\ mixed \in BOOLEAN
    /\ secret \in TokenRow \cup {None}

ConfigInv == Typed /\ StagesTrue /\ AnswersTrue /\ ConfigTrue /\ TokenTrue

-----------------------------------------------------------------------------
LEMMA ConfigInitInv == ConfigInit => ConfigInv
<1> SUFFICES ASSUME ConfigInit PROVE ConfigInv
  OBVIOUS
<1> USE DEF ConfigInit
<1>1. Typed
  <2>1. config \in Config /\ cached \in Config
    BY DEF Config
  <2>2. None \in Update \cup {None} /\ None \in {HintOf[u] : u \in Update} \cup {None}
    OBVIOUS
  <2>3. [id |-> None, secret |-> None, hint |-> None] \in TokenRow
    BY <2>2 DEF TokenRow
  <2>4. token \in TokenRow \cup {None} /\ secret \in TokenRow \cup {None}
    BY <2>3
  <2>5. stage \in [Update -> Over] /\ held \in [Update -> {None}]
    BY DEF Over
  <2>6. stage \in [Update -> StageName]
    BY <2>5 DEF StageName
  <2>7. held \in [Update -> Config \cup TokenRow \cup {None}]
    BY <2>5
  <2>8. missed \in BOOLEAN /\ mixed \in BOOLEAN
    OBVIOUS
  <2> QED
    BY <2>1, <2>4, <2>6, <2>7, <2>8 DEF Typed
<1>2. StagesTrue
  BY DEF StagesTrue, StageTrue
<1>3. AnswersTrue
  BY DEF AnswersTrue
<1>4. ConfigTrue
  BY DEF ConfigTrue
<1>5. TokenTrue
  <2>1. ~Mixing
    BY DEF Mixing, Under, Over
  <2>2. SameToken
    BY <1>1 DEF SameToken
  <2>3. \A i \in 1..Len(answers) : ~Is(i, "set")
    OBVIOUS
  <2>4. \A u \in Update : stage[u] = "idle"
    OBVIOUS
  <2> QED
    BY <2>1, <2>2, <2>3, <2>4 DEF TokenTrue
<1> QED
  BY <1>1, <1>2, <1>3, <1>4, <1>5 DEF ConfigInv

-----------------------------------------------------------------------------
(* What becomes of the answers on their way *)

\* Whom an answer is for.
LEMMA Waiting ==
    ASSUME AnswersTrue, NEW i \in 1..Len(answers)
    PROVE  answers[i] \in Update /\ stage[answers[i]] = "commit"
BY DEF AnswersTrue

\* A step of one request that neither gets nor leaves an answer on its way.
LEMMA OthersKeep ==
    ASSUME Typed, AnswersTrue, NEW u \in Update, NEW s, Go(u, s), stage[u] # "commit",
           \A v \in Update : v # u => held'[v] = held[v], UNCHANGED <<answers, kind>>
    PROVE  /\ AnswersTrue'
           /\ \A i \in 1..Len(answers) : answers[i] # u /\ held'[answers[i]] = held[answers[i]]
<1>1. \A i \in 1..Len(answers) : answers[i] \in Update /\ answers[i] # u
  BY Waiting
<1>2. \A i \in 1..Len(answers) : stage'[answers[i]] = "commit"
  BY <1>1, Waiting DEF Go, Typed
<1>3. \A i \in 1..Len(answers) : held'[answers[i]] = held[answers[i]]
  BY <1>1 DEF Typed
<1>4. AnswersTrue'
  BY <1>2 DEF AnswersTrue
<1> QED
  BY <1>1, <1>3, <1>4

\* An answer that is added is the last of its kind.
LEMMA Added ==
    ASSUME AnswersTrue, NEW u \in Update, stage[u] # "commit",
           Go(u, "commit"), stage \in [Update -> StageName],
           answers' = Append(answers, u), kind' = kind
    PROVE  /\ AnswersTrue'
           /\ Len(answers') = Len(answers) + 1 /\ Len(answers) \in Nat
           /\ answers'[Len(answers')] = u
           /\ \A i \in 1..Len(answers) : answers'[i] = answers[i] /\ answers[i] # u
<1>1. answers \in Seq(Update)
  BY DEF AnswersTrue
<1>2. Len(answers') = Len(answers) + 1 /\ Len(answers) \in Nat /\ answers' \in Seq(Update)
  BY <1>1
<1>3. answers'[Len(answers')] = u
  BY <1>1, <1>2
<1>4. \A i \in 1..Len(answers) : answers'[i] = answers[i]
  BY <1>1
<1>5. \A i \in 1..Len(answers) : answers[i] \in Update /\ answers[i] # u
  BY Waiting
<1>6. \A i \in 1..Len(answers') : i \in 1..Len(answers) \/ i = Len(answers')
  BY <1>2
<1>7. \A i \in 1..Len(answers') : stage'[answers'[i]] = "commit"
  BY <1>3, <1>4, <1>5, <1>6, Waiting DEF Go
<1>8. \A i, j \in 1..Len(answers') : answers'[i] = answers'[j] => i = j
  BY <1>3, <1>4, <1>5, <1>6 DEF AnswersTrue
<1>9. AnswersTrue'
  BY <1>2, <1>7, <1>8 DEF AnswersTrue
<1> QED
  BY <1>2, <1>3, <1>4, <1>5, <1>9

LEMMA AddedIsLast ==
    ASSUME AnswersTrue, NEW u \in Update, stage[u] # "commit",
           Go(u, "commit"), stage \in [Update -> StageName],
           answers' = Append(answers, u), kind' = kind
    PROVE  LastOf(Len(answers), kind[u])'
<1>1. Len(answers') \in 1..Len(answers') /\ answers'[Len(answers')] = u
  BY Added
<1>2. Is(Len(answers), kind[u])'
  BY <1>1 DEF Is
<1>3. \A j \in 1..Len(answers') : j <= Len(answers')
  BY Added
<1> QED
  BY <1>2, <1>3 DEF LastOf

\* An answer of another kind changes nothing for this one.
LEMMA AddedElse ==
    ASSUME AnswersTrue, NEW u \in Update, stage[u] # "commit", NEW k, kind[u] # k,
           Go(u, "commit"), stage \in [Update -> StageName],
           answers' = Append(answers, u), kind' = kind
    PROVE  /\ \A i \in 1..Len(answers) : LastOf(i, k) => LastOf(i, k)'
           /\ (\A i \in 1..Len(answers) : ~Is(i, k)) => \A i \in 1..Len(answers') : ~Is(i, k)'
<1>1. \A i \in 1..Len(answers') : Is(i, k)' <=> Is(i, k)
  <2> SUFFICES ASSUME NEW i \in 1..Len(answers') PROVE Is(i, k)' <=> Is(i, k)
    OBVIOUS
  <2>1. CASE i \in 1..Len(answers)
    BY <2>1, Added DEF Is
  <2>2. CASE i = Len(answers')
    <3>1. i \notin 1..Len(answers) /\ answers'[i] = u
      BY <2>2, Added
    <3> QED
      BY <3>1 DEF Is
  <2>3. i \in 1..Len(answers) \/ i = Len(answers')
    BY Added
  <2> QED
    BY <2>1, <2>2, <2>3
<1>2. \A i \in 1..Len(answers) : i \in 1..Len(answers')
  BY Added
<1>3. \A i \in 1..Len(answers) : LastOf(i, k) => LastOf(i, k)'
  <2> SUFFICES ASSUME NEW i \in 1..Len(answers), LastOf(i, k) PROVE LastOf(i, k)'
    OBVIOUS
  <2>1. Is(i, k)'
    BY <1>1, <1>2 DEF LastOf
  <2>2. ASSUME NEW j \in 1..Len(answers'), Is(j, k)' PROVE j <= i
    <3>1. Is(j, k)
      BY <1>1, <2>2
    <3>2. j \in 1..Len(answers)
      BY <3>1 DEF Is
    <3> QED
      BY <3>1, <3>2 DEF LastOf
  <2> QED
    BY <2>1, <2>2 DEF LastOf
<1>4. (\A i \in 1..Len(answers) : ~Is(i, k)) => \A i \in 1..Len(answers') : ~Is(i, k)'
  BY <1>1 DEF Is
<1> QED
  BY <1>3, <1>4

\* The first answer leaves; the last of a kind stays the last.
LEMMA Taken ==
    ASSUME AnswersTrue, answers # <<>>, answers' = Tail(answers), kind' = kind,
           Go(Head(answers), "done"), stage \in [Update -> StageName]
    PROVE  /\ AnswersTrue'
           /\ 1 \in 1..Len(answers) /\ Head(answers) = answers[1]
           /\ Len(answers') = Len(answers) - 1 /\ Len(answers) \in Nat
           /\ \A i \in 1..Len(answers') : /\ i + 1 \in 1..Len(answers)
                                          /\ answers'[i] = answers[i + 1]
                                          /\ answers'[i] # answers[1]
<1>1. answers \in Seq(Update)
  BY DEF AnswersTrue
<1>2. Len(answers) \in Nat /\ 1 \in 1..Len(answers) /\ Head(answers) = answers[1]
  BY <1>1
<1>3. Len(answers') = Len(answers) - 1 /\ answers' \in Seq(Update)
  BY <1>1
<1>4. \A i \in 1..Len(answers') : i + 1 \in 1..Len(answers) /\ answers'[i] = answers[i + 1]
  BY <1>1, <1>2, <1>3
<1>5. \A i \in 1..Len(answers') : answers'[i] # answers[1]
  <2> SUFFICES ASSUME NEW i \in 1..Len(answers'), answers[i + 1] = answers[1] PROVE FALSE
    BY <1>4
  <2>1. i + 1 = 1
    BY <1>2, <1>4 DEF AnswersTrue
  <2> QED
    BY <2>1
<1>6. \A i \in 1..Len(answers') : stage'[answers'[i]] = "commit"
  BY <1>2, <1>4, <1>5, Waiting DEF Go
<1>7. \A i, j \in 1..Len(answers') : answers'[i] = answers'[j] => i = j
  <2> SUFFICES ASSUME NEW i \in 1..Len(answers'), NEW j \in 1..Len(answers'),
                      answers[i + 1] = answers[j + 1]
               PROVE  i = j
    BY <1>4
  <2>1. i + 1 = j + 1
    BY <1>4 DEF AnswersTrue
  <2> QED
    BY <2>1
<1>8. AnswersTrue'
  BY <1>3, <1>6, <1>7 DEF AnswersTrue
<1> QED
  BY <1>2, <1>3, <1>4, <1>5, <1>8

LEMMA TakenLast ==
    ASSUME AnswersTrue, answers # <<>>, answers' = Tail(answers), kind' = kind,
           Go(Head(answers), "done"), stage \in [Update -> StageName], NEW k
    PROVE  /\ \A i \in 1..Len(answers) : Is(i, k) /\ i # 1 =>
                  /\ i - 1 \in 1..Len(answers') /\ answers'[i - 1] = answers[i]
                  /\ LastOf(i, k) => LastOf(i - 1, k)'
           /\ LastOf(1, k) => \A i \in 1..Len(answers') : ~Is(i, k)'
           /\ (\A i \in 1..Len(answers) : ~Is(i, k)) => \A i \in 1..Len(answers') : ~Is(i, k)'
<1>1. \A i \in 1..Len(answers') : Is(i, k)' => Is(i + 1, k)
  BY Taken DEF Is
<1>2. ASSUME NEW i \in 1..Len(answers), Is(i, k), i # 1
      PROVE  /\ i - 1 \in 1..Len(answers') /\ answers'[i - 1] = answers[i]
             /\ LastOf(i, k) => LastOf(i - 1, k)'
  <2>1. i - 1 \in 1..Len(answers')
    BY <1>2, Taken
  <2>2. answers'[i - 1] = answers[(i - 1) + 1] /\ (i - 1) + 1 = i
    BY <2>1, Taken
  <2>3. Is(i - 1, k)'
    BY <1>2, <2>1, <2>2 DEF Is
  <2>4. ASSUME LastOf(i, k), NEW j \in 1..Len(answers'), Is(j, k)' PROVE j <= i - 1
    <3>1. Is(j + 1, k) /\ j + 1 \in 1..Len(answers)
      BY <1>1, <2>4, Taken
    <3>2. j + 1 <= i
      BY <2>4, <3>1 DEF LastOf
    <3> QED
      BY <3>2
  <2> QED
    BY <2>1, <2>2, <2>3, <2>4 DEF LastOf
<1>3. ASSUME LastOf(1, k), NEW i \in 1..Len(answers'), Is(i, k)' PROVE FALSE
  <2>1. Is(i + 1, k) /\ i + 1 \in 1..Len(answers)
    BY <1>1, <1>3, Taken
  <2>2. i + 1 <= 1
    BY <1>3, <2>1 DEF LastOf
  <2> QED
    BY <2>2
<1>4. (\A i \in 1..Len(answers) : ~Is(i, k)) => \A i \in 1..Len(answers') : ~Is(i, k)'
  BY <1>1, Taken
<1> QED
  BY <1>2, <1>3, <1>4

-----------------------------------------------------------------------------
(* What one request does to the other kind *)

\* A step of one request moves its own stage only.
LEMMA OneMoves ==
    ASSUME Typed, NEW u \in Update, NEW s, Go(u, s)
    PROVE  stage'[u] = s /\ \A v \in Update : v # u => stage'[v] = stage[v]
BY DEF Typed, Go

LEMMA StagesStay ==
    ASSUME StagesTrue, NEW u \in Update, kind' = kind,
           \A v \in Update : v # u => stage'[v] = stage[v] /\ held'[v] = held[v],
           StageTrue(u)'
    PROVE  StagesTrue'
<1> SUFFICES ASSUME NEW v \in Update, v # u PROVE StageTrue(v)'
  BY DEF StagesTrue
<1>1. StageTrue(v) /\ stage'[v] = stage[v] /\ held'[v] = held[v] /\ kind'[v] = kind[v]
  BY DEF StagesTrue
<1> QED
  BY ONLY <1>1 DEF StageTrue

\* Nothing is asked of a request that is over.
LEMMA OverTrue == ASSUME NEW u, stage'[u] \in Over PROVE StageTrue(u)'
BY DEF StageTrue, Over

LEMMA Apart ==
    ASSUME Typed, AnswersTrue, NEW u \in Update, NEW s, Go(u, s), stage[u] # "commit",
           \A v \in Update : v # u => held'[v] = held[v], kind' = kind,
           \/ s # "commit" /\ answers' = answers
           \/ s = "commit" /\ answers' = Append(answers, u),
           NEW k \in {"set", "settings"}, kind[u] # k
    PROVE  /\ AnswersTrue'
           /\ \A i \in 1..Len(answers) :
                 /\ answers'[i] = answers[i] /\ held'[answers[i]] = held[answers[i]]
                 /\ LastOf(i, k) => LastOf(i, k)'
           /\ (\A i \in 1..Len(answers) : ~Is(i, k)) => (\A i \in 1..Len(answers) : ~Is(i, k))'
<1>1. stage \in [Update -> StageName]
  BY DEF Typed
<1>2. CASE s # "commit" /\ answers' = answers
  <2>1. AnswersTrue' /\ \A i \in 1..Len(answers) : held'[answers[i]] = held[answers[i]]
    BY <1>2, OthersKeep
  <2>2. \A i \in 1..Len(answers) : LastOf(i, k) => LastOf(i, k)'
    BY <1>2 DEF LastOf, Is
  <2>3. (\A i \in 1..Len(answers) : ~Is(i, k)) => (\A i \in 1..Len(answers) : ~Is(i, k))'
    BY <1>2 DEF Is
  <2> QED
    BY <1>2, <2>1, <2>2, <2>3
<1>3. CASE s = "commit" /\ answers' = Append(answers, u)
  <2>1. AnswersTrue' /\ \A i \in 1..Len(answers) : answers'[i] = answers[i] /\ answers[i] # u
    BY <1>1, <1>3, Added
  <2>2. \A i \in 1..Len(answers) : held'[answers[i]] = held[answers[i]]
    BY <2>1, Waiting DEF Typed
  <2>3. /\ \A i \in 1..Len(answers) : LastOf(i, k) => LastOf(i, k)'
        /\ (\A i \in 1..Len(answers) : ~Is(i, k)) => \A i \in 1..Len(answers') : ~Is(i, k)'
    BY <1>1, <1>3, AddedElse
  <2> QED
    BY <2>1, <2>2, <2>3
<1> QED
  BY <1>2, <1>3

\* A request about the token leaves the settings and their answers alone.
LEMMA ConfigApart ==
    ASSUME Typed, AnswersTrue, StagesTrue, ConfigTrue,
           NEW u \in Update, NEW s, Go(u, s), stage[u] # "commit", kind[u] # "settings",
           \A v \in Update : v # u => held'[v] = held[v], kind' = kind,
           UNCHANGED settingsVars,
           \/ s # "commit" /\ answers' = answers
           \/ s = "commit" /\ answers' = Append(answers, u)
    PROVE  AnswersTrue' /\ ConfigTrue'
<1>1. /\ AnswersTrue'
      /\ \A i \in 1..Len(answers) :
            /\ answers'[i] = answers[i] /\ held'[answers[i]] = held[answers[i]]
            /\ LastOf(i, "settings") => LastOf(i, "settings")'
      /\ (\A i \in 1..Len(answers) : ~Is(i, "settings"))
            => (\A i \in 1..Len(answers) : ~Is(i, "settings"))'
  <2>1. AnswersTrue' /\ \A i \in 1..Len(answers) :
            answers'[i] = answers[i] /\ held'[answers[i]] = held[answers[i]]
    BY Apart
  <2>2. \A i \in 1..Len(answers) : LastOf(i, "settings") => LastOf(i, "settings")'
    BY Apart
  <2>3. (\A i \in 1..Len(answers) : ~Is(i, "settings"))
            => (\A i \in 1..Len(answers) : ~Is(i, "settings"))'
    BY Apart
  <2> QED
    BY <2>1, <2>2, <2>3
<1>2. missed' = missed /\ config' = config /\ cached' = cached
  BY DEF settingsVars
<1>3. CASE missed
  BY <1>1, <1>2, <1>3 DEF ConfigTrue
<1>4. CASE \E v \in Update : stage[v] = "reread"
  <2>1. PICK v \in Update : stage[v] = "reread"
    BY <1>4
  <2>2. v # u
    BY <2>1 DEF StagesTrue, StageTrue
  <2>3. stage'[v] = "reread"
    BY <2>1, <2>2 DEF Typed, Go
  <2> QED
    BY <1>1, <2>3 DEF ConfigTrue
<1>5. CASE \E i \in 1..Len(answers) : LastOf(i, "settings") /\ held[answers[i]] = config
  <2>1. PICK i \in 1..Len(answers) : LastOf(i, "settings") /\ held[answers[i]] = config
    BY <1>5
  <2>2. LastOf(i, "settings")' /\ held'[answers'[i]] = config'
    BY <1>1, <1>2, <2>1
  <2>3. i \in 1..Len(answers')
    BY <2>2 DEF LastOf, Is
  <2> QED
    BY <1>1, <2>2, <2>3 DEF ConfigTrue
<1>6. CASE (\A i \in 1..Len(answers) : ~Is(i, "settings")) /\ cached = config
  BY <1>1, <1>2, <1>6 DEF ConfigTrue
<1> QED
  BY <1>1, <1>3, <1>4, <1>5, <1>6 DEF ConfigTrue

\* An update of the settings leaves the token and its answers alone.
LEMMA TokenApart ==
    ASSUME Typed, AnswersTrue, StagesTrue, TokenTrue,
           NEW u \in Update, NEW s, Go(u, s), stage[u] # "commit", kind[u] = "settings",
           s \notin {"select", "update", "update secret", "deleted"},
           \A v \in Update : v # u => held'[v] = held[v], kind' = kind,
           UNCHANGED tokenVars,
           \/ s # "commit" /\ answers' = answers
           \/ s = "commit" /\ answers' = Append(answers, u)
    PROVE  AnswersTrue' /\ TokenTrue'
<1>1. /\ AnswersTrue'
      /\ \A i \in 1..Len(answers) : answers'[i] = answers[i]
                                    /\ (LastOf(i, "set") => LastOf(i, "set")')
      /\ (\A i \in 1..Len(answers) : ~Is(i, "set")) => (\A i \in 1..Len(answers) : ~Is(i, "set"))'
  BY Apart
<1>2. token' = token /\ secret' = secret /\ mixed' = mixed
  BY DEF tokenVars
<1>3. CASE mixed
  BY <1>1, <1>2, <1>3 DEF TokenTrue
<1>4. CASE ~mixed
  <2>1. \A v \in Update : v # u => stage'[v] = stage[v] /\ held'[v] = held[v]
    BY DEF Typed, Go
  <2>2. stage'[u] = s
    BY DEF Typed, Go
  <2>3. ~Mixing'
    BY <1>4, <2>1 DEF TokenTrue, Mixing, Under
  <2>4. \A v \in Update : /\ stage'[v] \in {"select", "update", "update secret"} =>
                                token' # None /\ token'.id = held'[v].id
                          /\ stage'[v] = "deleted" => token' = None
    BY <1>2, <1>4, <2>1, <2>2 DEF TokenTrue
  <2>5. CASE \E i \in 1..Len(answers) : /\ LastOf(i, "set")
                                        /\ token # None /\ token.secret = answers[i]
    <3>1. PICK i \in 1..Len(answers) : /\ LastOf(i, "set")
                                       /\ token # None /\ token.secret = answers[i]
      BY <2>5
    <3>2. LastOf(i, "set")' /\ token' # None /\ token'.secret = answers'[i]
      BY <1>1, <1>2, <3>1
    <3>3. i \in 1..Len(answers')
      BY <3>2 DEF LastOf, Is
    <3> QED
      BY <1>1, <2>3, <2>4, <3>2, <3>3 DEF TokenTrue
  <2>6. CASE /\ \A i \in 1..Len(answers) : ~Is(i, "set")
             /\ SameToken \/ \E v \in Update : stage[v] = "deleted"
    <3>1. SameToken => SameToken'
      BY <1>2 DEF SameToken
    <3>2. ASSUME NEW v \in Update, stage[v] = "deleted" PROVE stage'[v] = "deleted"
      BY <2>1, <3>2 DEF StagesTrue, StageTrue
    <3>3. (SameToken \/ \E v \in Update : stage[v] = "deleted")'
      BY <2>6, <3>1, <3>2
    <3> QED
      BY <1>1, <2>3, <2>4, <2>6, <3>3 DEF TokenTrue
  <2> QED
    BY <1>1, <1>4, <2>5, <2>6 DEF TokenTrue
<1> QED
  BY <1>3, <1>4

-----------------------------------------------------------------------------
(* One lemma for each action: updates of the settings *)

LEMMA UpdateConfigInv ==
    ASSUME ConfigInv, NEW u \in Update, UpdateConfig(u) PROVE ConfigInv'
<1> USE DEF ConfigInv
<1>1. /\ stage[u] = "idle" /\ kind[u] = "settings" /\ Go(u, "reread")
      /\ UNCHANGED <<cached, missed, kind, held, answers, tokenVars>>
      /\ \E f \in Field : config' = [config EXCEPT ![f] = u]
  BY DEF UpdateConfig, Stands
<1>2. (\A v \in Update : v # u => held'[v] = held[v]) /\ UNCHANGED tokenVars
  BY <1>1 DEF Typed
<1>3. AnswersTrue' /\ TokenTrue'
  BY <1>1, <1>2, TokenApart
<1>4. Typed'
  <2>1. config' \in Config
    BY <1>1 DEF Typed, Config
  <2> QED
    BY <1>1, <2>1 DEF Typed, Go, StageName, tokenVars
<1>5. StagesTrue'
  <2>1. StageTrue(u)'
    <3>1. stage'[u] = "reread" /\ kind'[u] = "settings"
      BY <1>1, OneMoves
    <3> QED
      BY ONLY <3>1 DEF StageTrue
  <2> QED
    BY <1>1, <1>2, <2>1, OneMoves, StagesStay
<1>6. ConfigTrue'
  BY <1>1 DEF ConfigTrue, Typed, Go
<1> QED
  BY <1>3, <1>4, <1>5, <1>6

LEMMA UpdateNothingInv ==
    ASSUME ConfigInv, NEW u \in Update, UpdateNothing(u) PROVE ConfigInv'
<1> USE DEF ConfigInv
<1>1. /\ stage[u] = "idle" /\ kind[u] = "settings" /\ Go(u, "error")
      /\ UNCHANGED <<settingsVars, kind, held, answers, tokenVars>>
  BY DEF UpdateNothing, Stands
<1>2. (\A v \in Update : v # u => held'[v] = held[v]) /\ UNCHANGED tokenVars
  BY <1>1 DEF Typed
<1>3. AnswersTrue' /\ TokenTrue'
  BY <1>1, <1>2, TokenApart
<1>4. Typed'
  BY <1>1 DEF Typed, Go, StageName, Over, tokenVars, settingsVars
<1>5. StagesTrue'
  <2>1. StageTrue(u)'
    BY <1>1, OneMoves, OverTrue DEF Over
  <2> QED
    BY <1>1, <1>2, <2>1, OneMoves, StagesStay
<1>6. ConfigTrue'
  <2>1. \A v \in Update : stage[v] = "reread" => stage'[v] = "reread"
    BY <1>1 DEF Typed, Go
  <2>2. \A i \in 1..Len(answers) : LastOf(i, "settings") => LastOf(i, "settings")'
    BY <1>1 DEF LastOf, Is
  <2>3. (\A i \in 1..Len(answers) : ~Is(i, "settings"))
            => (\A i \in 1..Len(answers) : ~Is(i, "settings"))'
    BY <1>1 DEF Is
  <2>4. UNCHANGED <<config, cached, missed, held, answers>>
    BY <1>1 DEF settingsVars
  <2> QED
    BY <2>1, <2>2, <2>3, <2>4 DEF ConfigTrue
<1> QED
  BY <1>3, <1>4, <1>5, <1>6

LEMMA RereadConfigInv ==
    ASSUME ConfigInv, NEW u \in Update, RereadConfig(u) PROVE ConfigInv'
<1> USE DEF ConfigInv
<1>1. /\ stage[u] = "reread" /\ Go(u, "commit")
      /\ held' = [held EXCEPT ![u] = config]
      /\ missed' = FALSE /\ answers' = Append(answers, u)
      /\ UNCHANGED <<config, cached, kind, tokenVars>>
  BY DEF RereadConfig, Stands
<1>2. kind[u] = "settings" /\ kind' = kind /\ UNCHANGED tokenVars
      /\ stage \in [Update -> StageName]
      /\ \A v \in Update : v # u => held'[v] = held[v]
  BY <1>1 DEF StagesTrue, StageTrue, Typed
<1>3. AnswersTrue' /\ TokenTrue'
  BY <1>1, <1>2, TokenApart
<1>4. Typed'
  <2>1. held' \in [Update -> Config \cup TokenRow \cup {None}]
    BY <1>1 DEF Typed
  <2> QED
    BY <1>1, <2>1 DEF Typed, Go, StageName, tokenVars
<1>5. StagesTrue'
  <2>1. held'[u] \in Config
    BY <1>1 DEF Typed
  <2>2. \A v \in Update : v # u => held'[v] = held[v]
    BY <1>1 DEF Typed
  <2>3. stage'[u] = "commit" /\ \A v \in Update : v # u => stage'[v] = stage[v]
    BY <1>1 DEF Typed, Go
  <2>4. StageTrue(u)'
    BY <1>2, <2>1, <2>3 DEF StageTrue
  <2> HIDE DEF ConfigInv
  <2> QED
    BY <1>2, <1>3, <2>2, <2>3, <2>4, StagesStay DEF ConfigInv
<1>6. ConfigTrue'
  <2>1. LastOf(Len(answers), kind[u])'
    BY <1>1, <1>2, AddedIsLast
  <2>2. LastOf(Len(answers), "settings")'
    BY <1>2, <2>1 DEF LastOf, Is
  <2>3. answers'[Len(answers')] = u /\ held'[u] = config
    BY <1>1, <1>2, Added DEF Typed
  <2>4. Len(answers') \in 1..Len(answers')
    BY <2>2 DEF LastOf, Is
  <2> QED
    BY <1>1, <2>2, <2>3, <2>4 DEF ConfigTrue
<1> QED
  BY <1>3, <1>4, <1>5, <1>6

LEMMA RereadFailsInv ==
    ASSUME ConfigInv, NEW u \in Update, RereadFails(u) PROVE ConfigInv'
<1> USE DEF ConfigInv
<1>1. /\ stage[u] = "reread" /\ missed' = TRUE /\ Go(u, "error")
      /\ UNCHANGED <<config, cached, kind, held, answers, tokenVars>>
  BY DEF RereadFails, Stands
<1>2. /\ \A v \in Update : v # u => held'[v] = held[v]
      /\ UNCHANGED tokenVars
      /\ kind[u] = "settings"
  BY <1>1 DEF Typed, StagesTrue, StageTrue
<1>3. AnswersTrue' /\ TokenTrue'
  BY <1>1, <1>2, TokenApart
<1>4. Typed'
  BY <1>1 DEF Typed, Go, StageName, Over, tokenVars
<1>5. StagesTrue'
  <2>1. StageTrue(u)'
    BY <1>1, OneMoves, OverTrue DEF Over
  <2> QED
    BY <1>1, <1>2, <2>1, OneMoves, StagesStay
<1>6. ConfigTrue'
  BY <1>1 DEF ConfigTrue
<1> QED
  BY <1>3, <1>4, <1>5, <1>6

-----------------------------------------------------------------------------
(* Sets and clears of the token *)

\* A set or clear that does not yet write, or leaves the row as it was.
LEMMA TokenStays ==
    ASSUME ConfigInv, NEW u \in Update, NEW s, Go(u, s),
           stage[u] \notin {"commit", "reread", "deleted"}, kind[u] # "settings",
           s \notin {"commit", "deleted", "reread"}, kind' = kind,
           kind[u] = "set" \/ s \notin {"find", "select", "insert", "update", "update secret"},
           kind[u] = "clear" \/ s # "delete",
           \A v \in Update : v # u => held'[v] = held[v],
           s \in {"select", "insert", "update", "update secret"} =>
               held'[u] \in TokenRow /\ held'[u].secret = u,
           s \in {"select", "update", "update secret"} /\ ~mixed' =>
               token # None /\ token.id = held'[u].id,
           ~mixed' => ~mixed /\ ~Mixing',
           UNCHANGED <<settingsVars, token, secret, answers>>
    PROVE  StagesTrue' /\ AnswersTrue' /\ ConfigTrue' /\ TokenTrue'
<1> USE DEF ConfigInv
<1>1. AnswersTrue' /\ ConfigTrue'
  BY ConfigApart
<1>2. stage'[u] = s /\ \A v \in Update : v # u => stage'[v] = stage[v]
  BY DEF Typed, Go
<1>3. StagesTrue'
  <2>1. kind'[u] = kind[u]
    OBVIOUS
  <2>2. StageTrue(u)'
    BY <1>2, <2>1 DEF StageTrue
  <2> QED
    BY <1>2, <2>2, StagesStay
<1>4. CASE mixed'
  BY <1>1, <1>3, <1>4 DEF TokenTrue
<1>5. CASE ~mixed'
  <2>1. ~mixed /\ ~Mixing'
    BY <1>5
  <2>2. \A v \in Update : /\ stage'[v] \in {"select", "update", "update secret"} =>
                                token' # None /\ token'.id = held'[v].id
                          /\ stage'[v] = "deleted" => token' = None
    BY <1>2, <1>5, <2>1 DEF TokenTrue
  <2>3. \A i \in 1..Len(answers) : LastOf(i, "set") => LastOf(i, "set")'
    BY DEF LastOf, Is
  <2>4. (\A i \in 1..Len(answers) : ~Is(i, "set")) => (\A i \in 1..Len(answers) : ~Is(i, "set"))'
    BY DEF Is
  <2>5. SameToken => SameToken'
    BY DEF SameToken
  <2>6. \A v \in Update : stage[v] = "deleted" => stage'[v] = "deleted"
    BY <1>2
  <2>7. CASE \E i \in 1..Len(answers) : /\ LastOf(i, "set")
                                        /\ token # None /\ token.secret = answers[i]
    BY <1>1, <1>3, <2>1, <2>2, <2>3, <2>7 DEF TokenTrue
  <2>8. CASE /\ \A i \in 1..Len(answers) : ~Is(i, "set")
             /\ SameToken \/ \E v \in Update : stage[v] = "deleted"
    BY <1>1, <1>3, <2>1, <2>2, <2>4, <2>5, <2>6, <2>8 DEF TokenTrue
  <2> QED
    BY <2>1, <2>7, <2>8 DEF TokenTrue
<1> QED
  BY <1>1, <1>3, <1>4, <1>5

LEMMA TokenCallInv ==
    ASSUME ConfigInv, NEW u \in Update, TokenCall(u) PROVE ConfigInv'
<1>1. /\ stage[u] = "idle" /\ mixed' = (mixed \/ Mixing')
      /\ UNCHANGED <<settingsVars, token, secret, kind, held, answers>>
  BY DEF TokenCall, Stands
<1>2. PICK s \in {"find", "delete"} : /\ Go(u, s)
                                      /\ s = "find" => kind[u] = "set"
                                      /\ s = "delete" => kind[u] = "clear"
  BY DEF TokenCall
<1>3. Mixing' \in BOOLEAN
  BY DEF Mixing
<1>4. Typed'
  BY <1>1, <1>2, <1>3 DEF ConfigInv, Typed, Go, StageName, settingsVars
<1>5. StagesTrue' /\ AnswersTrue' /\ ConfigTrue' /\ TokenTrue'
  BY <1>1, <1>2, TokenStays
<1> QED
  BY <1>4, <1>5 DEF ConfigInv

LEMMA NothingMixes ==
    ASSUME Typed, kind' = kind, \A v \in Update : Under(v)' => Under(v), ~Mixing
    PROVE  ~Mixing'
BY DEF Mixing

LEMMA FindTokenInv ==
    ASSUME ConfigInv, NEW u \in Update, FindToken(u) PROVE ConfigInv'
<1> USE DEF ConfigInv
<1>1. /\ stage[u] = "find"
      /\ UNCHANGED <<settingsVars, tokenVars, kind, answers>>
  BY DEF FindToken, Stands
<1> DEFINE h == [id |-> IF token = None THEN u ELSE token.id, secret |-> u, hint |-> HintOf[u]]
<1>2. PICK s \in {"insert", "select"} : Go(u, s) /\ (s = "select" => token # None)
  BY DEF FindToken
<1>3. held' = [held EXCEPT ![u] = h]
  BY DEF FindToken
<1>4. h \in TokenRow /\ h.secret = u /\ (token # None => h.id = token.id)
  BY DEF TokenRow, Typed
<1>5. Typed'
  <2>1. held' \in [Update -> Config \cup TokenRow \cup {None}]
    BY <1>3, <1>4 DEF Typed
  <2> QED
    BY <1>1, <1>2, <2>1 DEF Typed, Go, StageName, tokenVars, settingsVars
<1>6. held'[u] = h /\ \A v \in Update : v # u => held'[v] = held[v]
  BY <1>3 DEF Typed
<1>7. kind[u] = "set"
  BY <1>1 DEF StagesTrue, StageTrue
<1>8. ~mixed' => ~mixed /\ ~Mixing'
  <2>1. \A v \in Update : Under(v)' => Under(v)
    BY <1>1, <1>2 DEF Under, Go, Typed, Over
  <2>2. mixed' = mixed
    BY <1>1 DEF tokenVars
  <2> QED
    BY <1>1, <2>1, <2>2, NothingMixes DEF TokenTrue
<1>9. UNCHANGED <<settingsVars, token, secret, answers, kind>>
  BY <1>1 DEF tokenVars
<1>10. StagesTrue' /\ AnswersTrue' /\ ConfigTrue' /\ TokenTrue'
  <2> HIDE DEF ConfigInv, h
  <2> QED
    BY <1>1, <1>2, <1>4, <1>6, <1>7, <1>8, <1>9, TokenStays
<1> QED
  BY <1>5, <1>10

LEMMA SelectTokenInv ==
    ASSUME ConfigInv, NEW u \in Update, SelectToken(u) PROVE ConfigInv'
<1> USE DEF ConfigInv
<1> DEFINE same == token # None /\ token.id = held[u].id
<1>1. /\ stage[u] = "select"
      /\ UNCHANGED <<settingsVars, tokenVars, kind, held, answers>>
  BY DEF SelectToken, Stands
<1>2. PICK s \in {"insert", "update", "update secret"} : Go(u, s) /\ (s # "insert" => same)
  <2>1. CASE ~same
    BY <2>1 DEF SelectToken
  <2>2. CASE same /\ token.hint # held[u].hint
    BY <2>2 DEF SelectToken
  <2>3. CASE same /\ token.hint = held[u].hint
    BY <2>3 DEF SelectToken
  <2> QED
    BY <2>1, <2>2, <2>3
<1>3. Typed'
  BY <1>1, <1>2 DEF Typed, Go, StageName, tokenVars, settingsVars
<1>4. kind[u] = "set" /\ held[u] \in TokenRow /\ held[u].secret = u
  BY <1>1 DEF StagesTrue, StageTrue
<1>5. ~mixed' => ~mixed /\ ~Mixing'
  <2>1. \A v \in Update : Under(v)' => Under(v)
    BY <1>1, <1>2 DEF Under, Go, Typed, Over
  <2>2. mixed' = mixed
    BY <1>1 DEF tokenVars
  <2> QED
    BY <1>1, <2>1, <2>2, NothingMixes DEF TokenTrue
<1>6. UNCHANGED <<settingsVars, token, secret, answers, kind, held>>
  BY <1>1 DEF tokenVars
<1>7. StagesTrue' /\ AnswersTrue' /\ ConfigTrue' /\ TokenTrue'
  <2> HIDE DEF ConfigInv
  <2> QED
    BY <1>1, <1>2, <1>4, <1>5, <1>6, TokenStays
<1> QED
  BY <1>3, <1>7

\* A set that has written: its answer is the last and the row holds its token.
LEMMA TokenWritten ==
    ASSUME ConfigInv, NEW u \in Update, Go(u, "commit"), kind[u] = "set",
           stage[u] \in {"insert", "update", "update secret"},
           answers' = Append(answers, u), UNCHANGED <<settingsVars, mixed, kind, held>>,
           ~mixed => token' # None /\ token'.secret = u,
           ~mixed => \A v \in Update : v # u /\ stage[v] \in {"select", "update", "update secret"}
                         => token' # None /\ token'.id = held[v].id
    PROVE  StagesTrue' /\ AnswersTrue' /\ ConfigTrue' /\ TokenTrue'
<1> USE DEF ConfigInv
<1>1. AnswersTrue' /\ ConfigTrue'
  BY ConfigApart
<1>2. stage'[u] = "commit" /\ \A v \in Update : v # u => stage'[v] = stage[v]
  BY DEF Typed, Go
<1>3. StagesTrue'
  <2>1. held[u] \in TokenRow /\ held[u].secret = u
    BY DEF StagesTrue, StageTrue
  <2>2. held' = held /\ kind' = kind
    OBVIOUS
  <2>3. kind[u] = "set" /\ StagesTrue
    OBVIOUS
  <2> HIDE DEF ConfigInv
  <2>4. StageTrue(u)'
    BY ONLY <1>2, <2>1, <2>2, <2>3 DEF StageTrue
  <2> QED
    BY <1>2, <2>2, <2>3, <2>4, StagesStay
<1>4. CASE mixed
  BY <1>1, <1>3, <1>4 DEF TokenTrue
<1>5. CASE ~mixed
  <2>1. ~Mixing
    BY <1>5 DEF TokenTrue
  <2>2. \A v \in Update : Under(v)' => Under(v)
    BY <1>2 DEF Under, Over
  <2>3. ~Mixing'
    BY <2>1, <2>2, NothingMixes
  <2>4. \A v \in Update : stage[v] # "deleted"
    BY <2>1 DEF Mixing, StagesTrue, StageTrue, Under, Over
  <2>5. \A v \in Update : /\ stage'[v] \in {"select", "update", "update secret"} =>
                                token' # None /\ token'.id = held'[v].id
                          /\ stage'[v] # "deleted"
    BY <1>2, <1>5, <2>4
  <2>6. stage \in [Update -> StageName] /\ stage[u] # "commit" /\ kind' = kind
    BY DEF Typed
  <2>7. LastOf(Len(answers), kind[u])'
    BY <2>6, AddedIsLast
  <2>8. LastOf(Len(answers), "set")'
    BY <2>6, <2>7 DEF LastOf, Is
  <2>9. answers'[Len(answers')] = u
    BY <2>6, Added
  <2>10. Len(answers') \in 1..Len(answers')
    BY <2>8 DEF LastOf, Is
  <2>11. token' # None /\ token'.secret = answers'[Len(answers')]
    BY <1>5, <2>9
  <2>12. TokenTrue'
    BY <2>3, <2>5, <2>8, <2>10, <2>11 DEF TokenTrue
  <2> QED
    BY <1>1, <1>3, <2>12
<1> QED
  BY <1>4, <1>5

LEMMA InsertTokenInv ==
    ASSUME ConfigInv, NEW u \in Update, InsertToken(u) PROVE ConfigInv'
<1>1. stage[u] = "insert" /\ UNCHANGED <<settingsVars, secret, mixed, kind, held>>
  BY DEF InsertToken, Stands
<1>2. kind[u] = "set" /\ held[u] \in TokenRow /\ held[u].secret = u /\ held[u] # None
  BY <1>1, NoneAssumption DEF ConfigInv, StagesTrue, StageTrue
<1>3. CASE token = None
  <2>1. token' = held[u] /\ answers' = Append(answers, u) /\ Go(u, "commit")
    BY <1>3 DEF InsertToken
  <2>2. Typed'
    BY <1>1, <1>2, <2>1 DEF ConfigInv, Typed, Go, StageName, settingsVars
  <2>3. ~mixed => \A v \in Update : stage[v] \notin {"select", "update", "update secret"}
    BY <1>3 DEF ConfigInv, TokenTrue
  <2>4. StagesTrue' /\ AnswersTrue' /\ ConfigTrue' /\ TokenTrue'
    BY <1>1, <1>2, <2>1, <2>3, TokenWritten
  <2> QED
    BY <2>2, <2>4 DEF ConfigInv
<1>4. CASE token # None
  <2>1. Go(u, "error") /\ UNCHANGED <<token, answers>>
    BY <1>4 DEF InsertToken
  <2>2. Typed'
    BY <1>1, <2>1 DEF ConfigInv, Typed, Go, StageName, Over, settingsVars
  <2>3. ~mixed => ~Mixing'
    <3>1. \A v \in Update : Under(v)' => Under(v)
      BY <1>1, <2>1 DEF ConfigInv, Under, Go, Typed, Over
    <3> QED
      BY <1>1, <3>1, NothingMixes DEF ConfigInv, TokenTrue
  <2>4. StagesTrue' /\ AnswersTrue' /\ ConfigTrue' /\ TokenTrue'
    BY <1>1, <1>2, <2>1, <2>3, TokenStays
  <2> QED
    BY <2>2, <2>4 DEF ConfigInv
<1> QED
  BY <1>3, <1>4

LEMMA UpdateTokenInv ==
    ASSUME ConfigInv, NEW u \in Update, UpdateToken(u) PROVE ConfigInv'
<1>1. /\ stage[u] \in {"update", "update secret"} /\ answers' = Append(answers, u)
      /\ Go(u, "commit") /\ UNCHANGED <<settingsVars, secret, mixed, kind, held>>
  BY DEF UpdateToken, Stands
<1>2. kind[u] = "set" /\ held[u] \in TokenRow /\ held[u].secret = u /\ held[u] # None
  BY <1>1, NoneAssumption DEF ConfigInv, StagesTrue, StageTrue
<1>3. token' \in {token, held[u], [token EXCEPT !.secret = u]}
  BY DEF UpdateToken
<1>4. token # None => [token EXCEPT !.secret = u] \in TokenRow
  BY DEF ConfigInv, Typed, TokenRow
<1>5. token' = token \/ token # None
  BY DEF UpdateToken
<1>6. Typed'
  <2>1. token' \in TokenRow \cup {None}
    BY <1>2, <1>3, <1>4, <1>5 DEF ConfigInv, Typed
  <2> QED
    BY <1>1, <2>1 DEF ConfigInv, Typed, Go, StageName, settingsVars
<1>7. ASSUME ~mixed PROVE token' # None /\ token'.secret = u /\ token'.id = token.id
  <2>1. token # None /\ token.id = held[u].id /\ token \in TokenRow
    BY <1>1, <1>7 DEF ConfigInv, TokenTrue, Typed
  <2>2. CASE stage[u] = "update"
    <3>1. token' = held[u]
      BY <2>1, <2>2 DEF UpdateToken, Stands
    <3> QED
      BY <1>2, <2>1, <3>1
  <2>3. CASE stage[u] = "update secret"
    <3>1. token' = [token EXCEPT !.secret = u]
      BY <2>1, <2>3 DEF UpdateToken, Stands
    <3>2. token' # None
      BY <1>4, <2>1, <3>1, NoneAssumption
    <3>3. token'.secret = u /\ token'.id = token.id
      BY <2>1, <3>1 DEF TokenRow
    <3> QED
      BY <3>2, <3>3
  <2> QED
    BY <1>1, <2>2, <2>3
<1>8. ~mixed => \A v \in Update : stage[v] \in {"select", "update", "update secret"}
                    => token' # None /\ token'.id = held[v].id
  BY <1>7 DEF ConfigInv, TokenTrue
<1>9. StagesTrue' /\ AnswersTrue' /\ ConfigTrue' /\ TokenTrue'
  BY <1>1, <1>2, <1>7, <1>8, TokenWritten
<1> QED
  BY <1>6, <1>9 DEF ConfigInv

LEMMA DeleteTokenInv ==
    ASSUME ConfigInv, NEW u \in Update, DeleteToken(u) PROVE ConfigInv'
<1>1. /\ stage[u] = "delete" /\ token' = None /\ Go(u, "deleted")
      /\ UNCHANGED <<settingsVars, secret, mixed, kind, held, answers>>
  BY DEF DeleteToken, Stands
<1>2. kind[u] = "clear"
  BY <1>1 DEF ConfigInv, StagesTrue, StageTrue
<1>3. stage'[u] = "deleted" /\ \A v \in Update : v # u => stage'[v] = stage[v]
  BY <1>1 DEF ConfigInv, Typed, Go
<1>4. Typed'
  BY <1>1 DEF ConfigInv, Typed, Go, StageName, settingsVars
<1>5. StagesTrue'
  <2>1. StageTrue(u)'
    BY <1>1, <1>2, <1>3 DEF StageTrue
  <2> QED
    BY <1>1, <1>3, <2>1, StagesStay DEF ConfigInv
<1>6. AnswersTrue' /\ ConfigTrue'
  BY <1>1, <1>2, ConfigApart DEF ConfigInv
<1>7. TokenTrue'
  <2>1. CASE mixed
    BY <1>1, <2>1 DEF TokenTrue
  <2>2. CASE ~mixed
    <3>1. ~Mixing
      BY <2>2 DEF ConfigInv, TokenTrue
    <3>2. \A v \in Update : kind[v] = "set" => stage[v] \in Over
      BY <1>1, <1>2, <3>1 DEF Mixing, Under, Over
    <3>3. \A v \in Update : Under(v)' => Under(v)
      BY <1>1, <1>3 DEF Under, Over
    <3>4. ~Mixing'
      BY <1>1, <3>1, <3>3, NothingMixes DEF ConfigInv
    <3>5. \A i \in 1..Len(answers) : ~Is(i, "set")
      BY <3>2, Waiting DEF ConfigInv, Is, Over
    <3>6. \A i \in 1..Len(answers') : ~Is(i, "set")'
      BY <1>1, <3>5 DEF Is
    <3>7. \A v \in Update : /\ stage'[v] \notin {"select", "update", "update secret"}
      <4> SUFFICES ASSUME NEW v \in Update, stage'[v] \in {"select", "update", "update secret"}
                   PROVE  FALSE
        OBVIOUS
      <4>1. v # u /\ stage[v] \in {"select", "update", "update secret"}
        BY <1>3
      <4>2. kind[v] = "set"
        BY <4>1 DEF ConfigInv, StagesTrue, StageTrue
      <4> QED
        BY <3>2, <4>1, <4>2 DEF Over
    <3> QED
      BY <1>1, <1>3, <3>4, <3>6, <3>7 DEF TokenTrue
  <2> QED
    BY <2>1, <2>2
<1> QED
  BY <1>4, <1>5, <1>6, <1>7 DEF ConfigInv

LEMMA ClearTokenInv ==
    ASSUME ConfigInv, NEW u \in Update, ClearToken(u) PROVE ConfigInv'
<1>1. /\ stage[u] = "deleted" /\ secret' = None /\ Go(u, "done")
      /\ UNCHANGED <<settingsVars, token, mixed, kind, held, answers>>
  BY DEF ClearToken, Stands
<1>2. kind[u] = "clear"
  BY <1>1 DEF ConfigInv, StagesTrue, StageTrue
<1>3. stage'[u] = "done" /\ \A v \in Update : v # u => stage'[v] = stage[v]
  BY <1>1 DEF ConfigInv, Typed, Go
<1>4. Typed'
  BY <1>1 DEF ConfigInv, Typed, Go, StageName, Over, settingsVars
<1>5. StagesTrue'
  <2>1. StageTrue(u)'
    BY <1>3, OverTrue DEF Over
  <2> QED
    BY <1>1, <1>3, <2>1, StagesStay DEF ConfigInv
<1>6. AnswersTrue' /\ ConfigTrue'
  BY <1>1, <1>2, ConfigApart DEF ConfigInv
<1>7. TokenTrue'
  <2>1. CASE mixed
    BY <1>1, <2>1 DEF TokenTrue
  <2>2. CASE ~mixed
    <3>1. ~Mixing /\ token = None
      BY <1>1, <2>2 DEF ConfigInv, TokenTrue
    <3>2. \A v \in Update : Under(v)' => Under(v)
      BY <1>1, <1>3 DEF Under, Over
    <3>3. ~Mixing'
      BY <1>1, <3>1, <3>2, NothingMixes DEF ConfigInv
    <3>4. \A i \in 1..Len(answers) : ~Is(i, "set")
      BY <1>1, <1>2, <3>1, Waiting DEF ConfigInv, Is, Mixing, Under, Over
    <3>5. \A i \in 1..Len(answers') : ~Is(i, "set")'
      BY <1>1, <3>4 DEF Is
    <3>6. SameToken'
      BY <1>1, <3>1 DEF SameToken
    <3>7. \A v \in Update : /\ stage'[v] \notin {"select", "update", "update secret"}
                            /\ stage'[v] = "deleted" => token' = None
      BY <1>1, <1>3, <2>2, <3>1 DEF ConfigInv, TokenTrue
    <3> QED
      BY <1>1, <3>3, <3>5, <3>6, <3>7 DEF TokenTrue
  <2> QED
    BY <2>1, <2>2
<1> QED
  BY <1>4, <1>5, <1>6, <1>7 DEF ConfigInv

-----------------------------------------------------------------------------
(* Answers and restarts *)

LEMMA AnsweredInv == ASSUME ConfigInv, Answered PROVE ConfigInv'
<1> DEFINE u == Head(answers)
<1>1. /\ answers # <<>> /\ answers' = Tail(answers) /\ Go(u, "done")
      /\ held' = [held EXCEPT ![u] = None]
      /\ UNCHANGED <<config, missed, token, mixed, kind>>
  BY DEF Answered
<1>2. stage \in [Update -> StageName]
  BY DEF ConfigInv, Typed
<1>3. /\ AnswersTrue' /\ 1 \in 1..Len(answers) /\ u = answers[1]
      /\ Len(answers') = Len(answers) - 1 /\ Len(answers) \in Nat
  BY <1>1, <1>2, Taken DEF ConfigInv
<1>4. u \in Update /\ stage[u] = "commit"
  BY <1>3, Waiting DEF ConfigInv
<1>5. kind[u] # "clear" /\ kind[u] \in Kind
  BY <1>4 DEF ConfigInv, StagesTrue, StageTrue, Typed
<1> HIDE DEF u
<1>6. stage'[u] = "done" /\ \A v \in Update : v # u => stage'[v] = stage[v] /\ held'[v] = held[v]
  BY <1>1, <1>4 DEF ConfigInv, Typed, Go
<1>7. StagesTrue'
  <2>1. PICK w \in Update : w = u
    BY <1>4
  <2>2. StageTrue(w)'
    BY <1>6, <2>1, OverTrue DEF Over
  <2> QED
    BY <1>1, <1>6, <2>1, <2>2, StagesStay DEF ConfigInv
<1>8. \A v \in Update : /\ stage[v] = "reread" => stage'[v] = "reread"
                        /\ stage[v] = "deleted" => stage'[v] = "deleted"
                        /\ stage'[v] \in {"select", "update", "update secret", "deleted"}
                              => stage'[v] = stage[v] /\ held'[v] = held[v]
                        /\ Under(v)' => Under(v)
  BY <1>4, <1>6 DEF Under, Over
<1>9. ~mixed => ~Mixing'
  BY <1>1, <1>8, NothingMixes DEF ConfigInv, TokenTrue
<1>10. ASSUME NEW k, NEW i \in 1..Len(answers), LastOf(i, k), i # 1
       PROVE  /\ i - 1 \in 1..Len(answers') /\ LastOf(i - 1, k)'
              /\ answers'[i - 1] = answers[i] /\ answers'[i - 1] # u
              /\ answers'[i - 1] \in Update
  <2>1. Is(i, k)
    BY <1>10 DEF LastOf
  <2>2. /\ i - 1 \in 1..Len(answers') /\ LastOf(i - 1, k)'
        /\ answers'[i - 1] = answers[i]
    BY <1>1, <1>2, <1>10, <2>1, TakenLast DEF ConfigInv, u
  <2>3. answers'[i - 1] # u
    BY <1>1, <1>2, <1>3, <2>2, Taken DEF ConfigInv, u
  <2> QED
    BY <2>2, <2>3, Waiting DEF ConfigInv
<1>11. \A k : /\ LastOf(1, k) => \A i \in 1..Len(answers') : ~Is(i, k)'
              /\ (\A i \in 1..Len(answers) : ~Is(i, k)) => \A i \in 1..Len(answers') : ~Is(i, k)'
  BY <1>1, <1>2, TakenLast DEF ConfigInv, u
<1>12. Is(1, kind[u])
  BY <1>3 DEF Is
<1>13. CASE kind[u] = "settings"
  <2>1. cached' = held[u] /\ secret' = secret /\ held[u] \in Config
    BY <1>4, <1>13 DEF ConfigInv, StagesTrue, StageTrue, Answered, u
  <2>2. Typed'
    BY <1>1, <1>4, <2>1 DEF ConfigInv, Typed, Go, StageName, Over
  <2>3. ConfigTrue'
    <3>1. CASE missed \/ \E v \in Update : stage[v] = "reread"
      BY <1>1, <1>8, <3>1 DEF ConfigTrue
    <3>2. CASE \E i \in 1..Len(answers) : LastOf(i, "settings") /\ held[answers[i]] = config
      <4>1. PICK i \in 1..Len(answers) : LastOf(i, "settings") /\ held[answers[i]] = config
        BY <3>2
      <4>2. CASE i = 1
        BY <1>1, <1>3, <1>11, <2>1, <4>1, <4>2 DEF ConfigTrue
      <4>3. CASE i # 1
        <5>1. /\ i - 1 \in 1..Len(answers') /\ LastOf(i - 1, "settings")'
              /\ held'[answers'[i - 1]] = config
          BY <1>6, <1>10, <4>1, <4>3
        <5> QED
          BY <1>1, <5>1 DEF ConfigTrue
      <4> QED
        BY <4>2, <4>3
    <3>3. ~(\A i \in 1..Len(answers) : ~Is(i, "settings"))
      BY <1>3, <1>12, <1>13
    <3> QED
      BY <3>1, <3>2, <3>3 DEF ConfigInv, ConfigTrue
  <2>4. TokenTrue'
    <3>1. CASE mixed
      BY <1>1, <3>1 DEF TokenTrue
    <3>2. CASE ~mixed
      <4>1. \A v \in Update : /\ stage'[v] \in {"select", "update", "update secret"} =>
                                    token' # None /\ token'.id = held'[v].id
                              /\ stage'[v] = "deleted" => token' = None
        BY <1>1, <1>8, <3>2 DEF ConfigInv, TokenTrue
      <4>2. CASE \E i \in 1..Len(answers) : /\ LastOf(i, "set")
                                            /\ token # None /\ token.secret = answers[i]
        <5>1. PICK i \in 1..Len(answers) : /\ LastOf(i, "set")
                                           /\ token # None /\ token.secret = answers[i]
          BY <4>2
        <5>2. i # 1
          BY <1>3, <1>13, <5>1 DEF LastOf, Is
        <5>3. /\ i - 1 \in 1..Len(answers') /\ LastOf(i - 1, "set")'
              /\ token'.secret = answers'[i - 1]
          BY <1>1, <1>10, <5>1, <5>2
        <5> QED
          BY <1>1, <1>9, <3>2, <4>1, <5>1, <5>3 DEF TokenTrue
      <4>3. CASE /\ \A i \in 1..Len(answers) : ~Is(i, "set")
                 /\ SameToken \/ \E v \in Update : stage[v] = "deleted"
        <5>1. SameToken => SameToken'
          BY <1>1, <2>1 DEF SameToken
        <5> QED
          BY <1>8, <1>9, <1>11, <3>2, <4>1, <4>3, <5>1 DEF TokenTrue
      <4> QED
        BY <3>2, <4>2, <4>3 DEF ConfigInv, TokenTrue
    <3> QED
      BY <3>1, <3>2
  <2> QED
    BY <1>3, <1>7, <2>2, <2>3, <2>4 DEF ConfigInv
<1>14. CASE kind[u] = "set"
  <2>1. /\ cached' = cached /\ secret' = held[u] /\ held[u] \in TokenRow
        /\ held[u].secret = u /\ held[u] # None
    BY <1>4, <1>14, NoneAssumption DEF ConfigInv, StagesTrue, StageTrue, Answered, u
  <2>2. Typed'
    BY <1>1, <1>4, <2>1 DEF ConfigInv, Typed, Go, StageName, Over
  <2>3. ConfigTrue'
    <3>1. CASE missed \/ \E v \in Update : stage[v] = "reread"
      BY <1>1, <1>8, <3>1 DEF ConfigTrue
    <3>2. CASE \E i \in 1..Len(answers) : LastOf(i, "settings") /\ held[answers[i]] = config
      <4>1. PICK i \in 1..Len(answers) : LastOf(i, "settings") /\ held[answers[i]] = config
        BY <3>2
      <4>2. i # 1
        BY <1>3, <1>14, <4>1 DEF LastOf, Is
      <4>3. /\ i - 1 \in 1..Len(answers') /\ LastOf(i - 1, "settings")'
            /\ held'[answers'[i - 1]] = config
        BY <1>6, <1>10, <4>1, <4>2
      <4> QED
        BY <1>1, <4>3 DEF ConfigTrue
    <3>3. CASE (\A i \in 1..Len(answers) : ~Is(i, "settings")) /\ cached = config
      BY <1>1, <1>11, <2>1, <3>3 DEF ConfigTrue
    <3> QED
      BY <3>1, <3>2, <3>3 DEF ConfigInv, ConfigTrue
  <2>4. TokenTrue'
    <3>1. CASE mixed
      BY <1>1, <3>1 DEF TokenTrue
    <3>2. CASE ~mixed
      <4>1. \A v \in Update : /\ stage'[v] \in {"select", "update", "update secret"} =>
                                    token' # None /\ token'.id = held'[v].id
                              /\ stage'[v] = "deleted" => token' = None
        BY <1>1, <1>8, <3>2 DEF ConfigInv, TokenTrue
      <4>2. ~(\A i \in 1..Len(answers) : ~Is(i, "set"))
        BY <1>3, <1>12, <1>14
      <4>3. PICK i \in 1..Len(answers) : /\ LastOf(i, "set")
                                         /\ token # None /\ token.secret = answers[i]
        BY <3>2, <4>2 DEF ConfigInv, TokenTrue
      <4>4. CASE i = 1
        <5>1. SameToken'
          BY <1>1, <1>3, <2>1, <4>3, <4>4 DEF SameToken
        <5>2. \A j \in 1..Len(answers') : ~Is(j, "set")'
          BY <1>11, <4>3, <4>4
        <5> QED
          BY <1>9, <3>2, <4>1, <5>1, <5>2 DEF TokenTrue
      <4>5. CASE i # 1
        <5>1. /\ i - 1 \in 1..Len(answers') /\ LastOf(i - 1, "set")'
              /\ token'.secret = answers'[i - 1]
          BY <1>1, <1>10, <4>3, <4>5
        <5> QED
          BY <1>1, <1>9, <3>2, <4>1, <4>3, <5>1 DEF TokenTrue
      <4> QED
        BY <4>4, <4>5
    <3> QED
      BY <3>1, <3>2
  <2> QED
    BY <1>3, <1>7, <2>2, <2>3, <2>4 DEF ConfigInv
<1> QED
  BY <1>5, <1>13, <1>14 DEF Kind

LEMMA ReloadInv == ASSUME ConfigInv, Reload PROVE ConfigInv'
<1>1. /\ cached' = config /\ secret' = token /\ answers' = <<>>
      /\ missed' = FALSE /\ held' = [u \in Update |-> None]
      /\ UNCHANGED <<config, token, kind, mixed>>
  BY DEF Reload
<1>2. \A u \in Update : stage'[u] \in Over
  BY DEF Reload, Under, Over
<1>3. stage' \in [Update -> StageName]
  BY DEF ConfigInv, Typed, Reload, StageName, Over
<1>4. Typed'
  <2>1. held' \in [Update -> Config \cup TokenRow \cup {None}]
    BY <1>1
  <2> QED
    BY <1>1, <1>3, <2>1 DEF ConfigInv, Typed
<1>5. StagesTrue'
  BY <1>2 DEF StagesTrue, StageTrue, Over
<1>6. AnswersTrue'
  BY <1>1 DEF AnswersTrue
<1>7. ConfigTrue'
  BY <1>1 DEF ConfigTrue, Is
<1>8. TokenTrue'
  <2>1. ~Mixing'
    BY <1>2 DEF Mixing, Under
  <2>2. SameToken'
    BY <1>1 DEF SameToken
  <2>3. \A u \in Update : stage'[u] \notin {"select", "update", "update secret", "deleted"}
    BY <1>2 DEF Over
  <2>4. \A i \in 1..Len(answers') : ~Is(i, "set")'
    BY <1>1
  <2> QED
    BY <2>1, <2>2, <2>3, <2>4 DEF TokenTrue
<1> QED
  BY <1>4, <1>5, <1>6, <1>7, <1>8 DEF ConfigInv

LEMMA ConfigStays == ASSUME ConfigInv, UNCHANGED configVars PROVE ConfigInv'
<1> USE DEF configVars, settingsVars, tokenVars, requestVars
<1>1. Typed'
  BY DEF ConfigInv, Typed
<1>2. AnswersTrue'
  BY DEF ConfigInv, AnswersTrue
<1>3. StagesTrue'
  <2> SUFFICES ASSUME NEW u \in Update PROVE StageTrue(u)'
    BY DEF StagesTrue
  <2>1. StageTrue(u) /\ UNCHANGED <<stage, kind, held>>
    BY DEF ConfigInv, StagesTrue
  <2> QED
    BY ONLY <2>1 DEF StageTrue
<1>4. ConfigTrue'
  BY DEF ConfigInv, ConfigTrue, LastOf, Is
<1>5. TokenTrue'
  BY DEF ConfigInv, TokenTrue, LastOf, Is, Mixing, Under, SameToken
<1> QED
  BY <1>1, <1>2, <1>3, <1>4, <1>5 DEF ConfigInv

-----------------------------------------------------------------------------
LEMMA ConfigNextInv == ConfigInv /\ [ConfigNext]_configVars => ConfigInv'
<1> SUFFICES ASSUME ConfigInv, [ConfigNext]_configVars PROVE ConfigInv'
  OBVIOUS
<1>1. ASSUME NEW u \in Update,
             \/ UpdateConfig(u) \/ UpdateNothing(u) \/ RereadConfig(u) \/ RereadFails(u)
      PROVE  ConfigInv'
  BY <1>1, UpdateConfigInv, UpdateNothingInv, RereadConfigInv, RereadFailsInv
<1>2. ASSUME NEW u \in Update,
             \/ TokenCall(u) \/ FindToken(u) \/ SelectToken(u) \/ InsertToken(u)
             \/ UpdateToken(u) \/ DeleteToken(u) \/ ClearToken(u)
      PROVE  ConfigInv'
  BY <1>2, TokenCallInv, FindTokenInv, SelectTokenInv, InsertTokenInv, UpdateTokenInv,
     DeleteTokenInv, ClearTokenInv
<1>3. CASE Answered
  BY <1>3, AnsweredInv
<1>4. CASE Reload
  BY <1>4, ReloadInv
<1>5. CASE UNCHANGED configVars
  BY <1>5, ConfigStays
<1> QED
  BY <1>1, <1>2, <1>3, <1>4, <1>5 DEF ConfigNext

\* What relates the rows, the copies and the answers on their way holds always,
\* for any number of overlapping requests, failures and restarts.
THEOREM ConfigInvariance == ConfigSpec => []ConfigInv
<1>1. ConfigInit => ConfigInv
  BY ConfigInitInv
<1>2. ConfigInv /\ [ConfigNext]_configVars => ConfigInv'
  BY ConfigNextInv
<1> QED
  BY <1>1, <1>2, PTL DEF ConfigSpec

\* The settings in memory are the row whenever no update is under way, unless
\* the read behind the last update failed.
THEOREM SettingsAreInStep == ConfigSpec => []SettingsInStep
<1>1. ConfigInv => SettingsInStep
  <2> SUFFICES ASSUME ConfigInv, \A u \in Update : kind[u] = "settings" => ~Under(u)
               PROVE  cached = config \/ missed
    BY DEF SettingsInStep
  <2>1. \A u \in Update : stage[u] # "reread"
    BY DEF ConfigInv, StagesTrue, StageTrue, Under, Over
  <2>2. \A i \in 1..Len(answers) : ~Is(i, "settings")
    BY Waiting DEF ConfigInv, Is, Under, Over
  <2>3. \A i \in 1..Len(answers) : ~LastOf(i, "settings")
    BY <2>2 DEF LastOf
  <2> QED
    BY <2>1, <2>3 DEF ConfigInv, ConfigTrue
<1> QED
  BY <1>1, ConfigInvariance, PTL

\* The token in memory is the token stored whenever no request is under way,
\* unless a clear and a set were under way together.
THEOREM TokensAreInStep == ConfigSpec => []TokenInStep
<1>1. ConfigInv => TokenInStep
  <2> SUFFICES ASSUME ConfigInv, \A u \in Update : ~Under(u), ~mixed PROVE SameToken
    BY DEF TokenInStep, SameToken
  <2>1. \A u \in Update : stage[u] # "deleted"
    BY DEF Under, Over
  <2>2. \A i \in 1..Len(answers) : ~LastOf(i, "set")
    BY Waiting DEF ConfigInv, LastOf, Is, Under, Over
  <2> QED
    BY <2>1, <2>2 DEF ConfigInv, TokenTrue
<1> QED
  BY <1>1, ConfigInvariance, PTL

\* What the API holds in memory is what the database holds, settings and tokens.
THEOREM ConfigIsInStep == ConfigSpec => []ConfigInStep
BY SettingsAreInStep, TokensAreInStep, PTL DEF ConfigInStep

-----------------------------------------------------------------------------
(***************************************************************************)
(* What undisturbed requests brought to a preset is kept, for any set of   *)
(* requests and fields.  The row alone does not show why: each entity that *)
(* is loaded and not saved yet must agree with what may be relied on, and  *)
(* what a request brings may be relied on by nobody until it is answered.  *)
(***************************************************************************)

\* A request that is busy and not clashed is the only busy one.
Alone ==
    \A c, d \in Call : Busy(c) /\ c \notin clashed /\ Busy(d) => c = d

Disturbed(c) == IF asks[c] = "update" THEN brings[c] ELSE Part

\* Nobody relies on what a request under way may change.
HeldBack ==
    \A c \in Call : Busy(c) => \A f \in Disturbed(c) : kept[f] = Absent

\* An entity to be saved agrees with all that may be relied on, and has what
\* its request brings.
EntityTrue ==
    \A c \in Call : step[c] \in {"save", "insert", "write"} =>
        /\ entity[c] \in Row
        /\ \A f \in Part : /\ kept[f] # Absent => entity[c][f] = kept[f]
                           /\ f \in brings[c] => entity[c][f] = c

\* The columns that a request alone does not write are as it wants them.
ColumnsTrue ==
    \A c \in Call : step[c] = "write" /\ c \notin clashed /\ preset # Absent =>
        \A f \in Part : Column(f) \notin columns[c] => preset[f] = entity[c][f]

\* What a request alone has saved is there.
SavedTrue ==
    \A c \in Call :
        step[c] = "saved" /\ c \notin clashed /\ asks[c] # "delete" /\ preset # Absent =>
            \A f \in brings[c] : preset[f] = c

PresetInv ==
    /\ PresetTypeOK
    /\ Alone /\ HeldBack /\ EntityTrue /\ ColumnsTrue /\ SavedTrue
    /\ KeysKept

-----------------------------------------------------------------------------
LEMMA PresetInitInv == PresetInit => PresetInv
<1> SUFFICES ASSUME PresetInit PROVE PresetInv
  OBVIOUS
<1> USE PresetAssumption DEF PresetInit, Busy, Closed
<1>1. PresetTypeOK
  BY DEF PresetTypeOK, Row, Part
<1>2. Alone /\ HeldBack
  BY DEF Alone, HeldBack
<1>3. EntityTrue /\ ColumnsTrue /\ SavedTrue
  BY DEF EntityTrue, ColumnsTrue, SavedTrue
<1>4. KeysKept
  BY DEF KeysKept
<1> QED
  BY <1>1, <1>2, <1>3, <1>4 DEF PresetInv

\* What a request's arrival leaves, whatever it asks for.
LEMMA ArriveInv ==
    ASSUME PresetInv, NEW c \in Call, NEW ask \in {"create", "update", "delete"},
           NEW s \in {"insert", "load", "remove"}, NEW f \in SUBSET Part,
           Arrive(c, ask, s, f)
    PROVE  /\ asks' \in [Call -> {"nothing", "create", "update", "delete"}]
           /\ step' \in [Call -> Closed \cup {"load", "save", "insert", "write",
                                              "remove", "saved"}]
           /\ kept' \in Row /\ clashed' \subseteq Call
           /\ Alone' /\ ColumnsTrue' /\ SavedTrue' /\ KeysKept'
           /\ \A d \in Call \ {c} : step'[d] = step[d] /\ asks'[d] = asks[d]
           /\ step'[c] = s /\ asks'[c] = ask
           /\ \A g \in Part : kept'[g] = IF g \in f THEN Absent ELSE kept[g]
<1> USE DEF PresetInv, PresetTypeOK, Arrive, Moves
<1>1. /\ asks' \in [Call -> {"nothing", "create", "update", "delete"}]
      /\ step' \in [Call -> Closed \cup {"load", "save", "insert", "write",
                                         "remove", "saved"}]
      /\ \A d \in Call \ {c} : step'[d] = step[d] /\ asks'[d] = asks[d]
      /\ step'[c] = s /\ asks'[c] = ask
  OBVIOUS
<1>2. kept' \in Row /\ \A g \in Part : kept'[g] = IF g \in f THEN Absent ELSE kept[g]
  BY DEF Row
<1>3. clashed' \subseteq Call /\ clashed \subseteq clashed'
  OBVIOUS
<1>4. ~Busy(c)
  BY DEF Busy, Closed
<1>5. \A d \in Call \ {c} : Busy(d)' <=> Busy(d)
  BY <1>1 DEF Busy
<1>6. \A d \in Call \ {c} : Busy(d) => d \in clashed' /\ c \in clashed'
  BY <1>4
<1>7. Alone'
  BY <1>3, <1>5, <1>6 DEF Alone
<1>8. ColumnsTrue' /\ SavedTrue'
  BY <1>1, <1>6, Zenon DEF ColumnsTrue, SavedTrue, Busy, Closed
<1>9. KeysKept'
  BY <1>2 DEF KeysKept
<1> QED
  BY <1>1, <1>2, <1>3, <1>7, <1>8, <1>9

LEMMA CreateInv == ASSUME PresetInv, NEW c \in Call, CreatePreset(c) PROVE PresetInv'
<1> USE DEF PresetInv, PresetTypeOK, CreatePreset
<1>0. Arrive(c, "create", "insert", Part)
  OBVIOUS
<1>1. /\ asks' \in [Call -> {"nothing", "create", "update", "delete"}]
      /\ step' \in [Call -> Closed \cup {"load", "save", "insert", "write",
                                         "remove", "saved"}]
      /\ kept' \in Row /\ clashed' \subseteq Call
      /\ Alone' /\ ColumnsTrue' /\ SavedTrue' /\ KeysKept'
      /\ \A d \in Call \ {c} : step'[d] = step[d] /\ asks'[d] = asks[d]
      /\ step'[c] = "insert" /\ asks'[c] = "create"
      /\ \A g \in Part : kept'[g] = Absent
  BY <1>0, ArriveInv
<1>2. PICK keys \in SUBSET Key :
         /\ brings' = [brings EXCEPT ![c] = keys \cup {Label}]
         /\ entity' = [entity EXCEPT ![c] = [f \in Part |-> IF f \in brings'[c] THEN c
                                                             ELSE Absent]]
  OBVIOUS
<1>3. brings' \in [Call -> SUBSET Part] /\ entity' \in [Call -> Row \cup {Absent}]
  BY <1>2 DEF Row, Part
<1>4. PresetTypeOK'
  BY <1>0, <1>1, <1>3 DEF Arrive
<1>5. HeldBack'
  BY <1>1, <1>3 DEF HeldBack, Disturbed
<1>6. EntityTrue'
  <2>1. /\ \A f \in Part : f \in brings'[c] => entity'[c][f] = c
        /\ entity'[c] \in Row
        /\ \A d \in Call \ {c} : entity'[d] = entity[d] /\ brings'[d] = brings[d]
    BY <1>2 DEF Row
  <2> QED
    BY <1>1, <2>1 DEF EntityTrue
<1> QED
  BY <1>1, <1>4, <1>5, <1>6

LEMMA UpdateInv == ASSUME PresetInv, NEW c \in Call, UpdatePreset(c) PROVE PresetInv'
<1> USE DEF PresetInv, PresetTypeOK
<1>0. PICK named \in SUBSET Part : /\ brings' = [brings EXCEPT ![c] = named]
                                  /\ Arrive(c, "update", "load", named)
                                  /\ entity' = entity
  BY DEF UpdatePreset
<1>1. /\ asks' \in [Call -> {"nothing", "create", "update", "delete"}]
      /\ step' \in [Call -> Closed \cup {"load", "save", "insert", "write",
                                         "remove", "saved"}]
      /\ kept' \in Row /\ clashed' \subseteq Call
      /\ Alone' /\ ColumnsTrue' /\ SavedTrue' /\ KeysKept'
      /\ \A d \in Call \ {c} : step'[d] = step[d] /\ asks'[d] = asks[d]
      /\ step'[c] = "load" /\ asks'[c] = "update"
      /\ \A g \in Part : kept'[g] = IF g \in named THEN Absent ELSE kept[g]
  BY <1>0, ArriveInv
<1>2. /\ brings' \in [Call -> SUBSET Part] /\ brings'[c] = named
      /\ \A d \in Call \ {c} : brings'[d] = brings[d]
  BY <1>0
<1>3. PresetTypeOK'
  BY <1>0, <1>1, <1>2 DEF Arrive
<1>4. HeldBack'
  <2> SUFFICES ASSUME NEW d \in Call, Busy(d)', NEW f \in Disturbed(d)' PROVE kept'[f] = Absent
    BY DEF HeldBack
  <2>1. CASE d = c
    BY <2>1, <1>1, <1>2 DEF Disturbed
  <2>2. CASE d # c
    <3>1. Busy(d) /\ f \in Disturbed(d) /\ f \in Part
      BY <2>2, <1>1, <1>2 DEF Busy, Disturbed
    <3> QED
      BY <3>1, <1>1 DEF HeldBack
  <2> QED
    BY <2>1, <2>2
<1>5. EntityTrue'
  BY <1>0, <1>1, <1>2 DEF EntityTrue
<1> QED
  BY <1>1, <1>3, <1>4, <1>5

LEMMA DeleteInv == ASSUME PresetInv, NEW c \in Call, DeletePreset(c) PROVE PresetInv'
<1> USE DEF PresetInv, PresetTypeOK, DeletePreset
<1>1. /\ asks' \in [Call -> {"nothing", "create", "update", "delete"}]
      /\ step' \in [Call -> Closed \cup {"load", "save", "insert", "write",
                                         "remove", "saved"}]
      /\ kept' \in Row /\ clashed' \subseteq Call
      /\ Alone' /\ ColumnsTrue' /\ SavedTrue' /\ KeysKept'
      /\ \A d \in Call \ {c} : step'[d] = step[d] /\ asks'[d] = asks[d]
      /\ step'[c] = "remove" /\ asks'[c] = "delete"
      /\ \A g \in Part : kept'[g] = Absent
  BY ArriveInv
<1>2. PresetTypeOK'
  BY <1>1 DEF Arrive
<1>3. HeldBack' /\ EntityTrue'
  BY <1>1 DEF HeldBack, Disturbed, EntityTrue
<1> QED
  BY <1>1, <1>2, <1>3

\* What is left to show of a request that moves on from step s to step t and
\* touches no history: its entity, columns or the row may change.
LEMMA MoveInv ==
    ASSUME PresetInv, NEW c \in Call, NEW t, Busy(c) \/ t \in Closed, Moves(c, t),
           t \in Closed \cup {"load", "save", "insert", "write", "remove", "saved"},
           UNCHANGED <<brings, asks, kept, clashed>>
    PROVE  /\ Alone' /\ HeldBack'
           /\ step' \in [Call -> Closed \cup {"load", "save", "insert", "write",
                                              "remove", "saved"}]
           /\ step'[c] = t /\ \A d \in Call \ {c} : step'[d] = step[d]
<1> USE DEF PresetInv, PresetTypeOK, Moves
<1>1. /\ step' \in [Call -> Closed \cup {"load", "save", "insert", "write",
                                         "remove", "saved"}]
      /\ step'[c] = t /\ \A d \in Call \ {c} : step'[d] = step[d]
  OBVIOUS
<1>2. \A d \in Call : Busy(d)' => Busy(d)
  BY <1>1 DEF Busy
<1>3. Alone'
  BY <1>2 DEF Alone
<1>4. HeldBack'
  BY <1>2 DEF HeldBack, Disturbed
<1> QED
  BY <1>1, <1>3, <1>4

LEMMA RefuseInv == ASSUME PresetInv, NEW c \in Call, RefusePreset(c) PROVE PresetInv'
<1> USE DEF PresetInv, RefusePreset
<1>1. /\ Alone' /\ HeldBack'
      /\ step' \in [Call -> Closed \cup {"load", "save", "insert", "write",
                                         "remove", "saved"}]
      /\ step'[c] = "refused" /\ \A d \in Call \ {c} : step'[d] = step[d]
  BY MoveInv DEF Closed
<1>2. PresetTypeOK'
  BY <1>1 DEF PresetTypeOK
<1>3. EntityTrue' /\ ColumnsTrue' /\ SavedTrue' /\ KeysKept'
  BY <1>1 DEF EntityTrue, ColumnsTrue, SavedTrue, KeysKept
<1> QED
  BY <1>1, <1>2, <1>3

LEMMA LoadInv == ASSUME PresetInv, NEW c \in Call, Load(c) PROVE PresetInv'
<1> USE DEF PresetInv, Load
<1>0. Busy(c)
  BY DEF Busy, Closed
<1>1. CASE preset = Absent
  <2>1. /\ Alone' /\ HeldBack'
        /\ step' \in [Call -> Closed \cup {"load", "save", "insert", "write",
                                           "remove", "saved"}]
        /\ step'[c] = "refused" /\ \A d \in Call \ {c} : step'[d] = step[d]
    BY <1>1, MoveInv DEF Closed
  <2>2. PresetTypeOK'
    BY <1>1, <2>1 DEF PresetTypeOK
  <2>3. EntityTrue' /\ ColumnsTrue' /\ SavedTrue' /\ KeysKept'
    BY <1>1, <2>1 DEF EntityTrue, ColumnsTrue, SavedTrue, KeysKept
  <2> QED
    BY <2>1, <2>2, <2>3
<1>2. CASE preset # Absent
  <2>1. /\ Alone' /\ HeldBack'
        /\ step' \in [Call -> Closed \cup {"load", "save", "insert", "write",
                                           "remove", "saved"}]
        /\ step'[c] = "save" /\ \A d \in Call \ {c} : step'[d] = step[d]
    BY <1>0, <1>2, MoveInv
  <2>2. /\ entity' = [entity EXCEPT ![c] = [f \in Part |-> IF f \in brings[c] THEN c
                                                           ELSE preset[f]]]
        /\ preset \in Row
    BY <1>2 DEF PresetTypeOK
  <2>3. entity' \in [Call -> Row \cup {Absent}]
    BY <2>2 DEF PresetTypeOK, Row
  <2>4. PresetTypeOK'
    BY <1>2, <2>1, <2>3 DEF PresetTypeOK
  <2>5. /\ entity'[c] \in Row
        /\ \A f \in Part : entity'[c][f] = IF f \in brings[c] THEN c ELSE preset[f]
        /\ \A d \in Call \ {c} : entity'[d] = entity[d]
    BY <2>2 DEF PresetTypeOK, Row
  <2>6. \A f \in Part : kept[f] # Absent => f \notin brings[c] /\ preset[f] = kept[f]
    BY <1>0, <1>2 DEF HeldBack, Disturbed, KeysKept
  <2>7. EntityTrue'
    BY <2>1, <2>5, <2>6 DEF EntityTrue
  <2>8. ColumnsTrue' /\ SavedTrue' /\ KeysKept'
    BY <2>1, <2>5 DEF ColumnsTrue, SavedTrue, KeysKept
  <2> QED
    BY <2>1, <2>4, <2>7, <2>8
<1> QED
  BY <1>1, <1>2

LEMMA CompareInv == ASSUME PresetInv, NEW c \in Call, Compare(c) PROVE PresetInv'
<1> USE DEF PresetInv, PresetTypeOK, Compare
<1>0. Busy(c)
  BY DEF Busy, Closed
<1>1. PICK t \in {"insert", "write"} : Moves(c, t)
  OBVIOUS
<1>2. /\ Alone' /\ HeldBack'
      /\ step' \in [Call -> Closed \cup {"load", "save", "insert", "write",
                                         "remove", "saved"}]
      /\ step'[c] = t /\ \A d \in Call \ {c} : step'[d] = step[d]
  BY <1>0, <1>1, MoveInv
<1>3. columns' \in [Call -> SUBSET {"label", "config"}]
  BY DEF Column
<1>4. PresetTypeOK'
  BY <1>2, <1>3
<1>5. EntityTrue'
  BY <1>2 DEF EntityTrue
<1>6. ColumnsTrue'
  <2> SUFFICES ASSUME NEW d \in Call, step'[d] = "write", d \notin clashed, preset # Absent,
                      NEW f \in Part, Column(f) \notin columns'[d]
               PROVE  preset[f] = entity[d][f]
    BY DEF ColumnsTrue, Column
  <2>1. CASE d = c
    <3>1. columns'[c] = {Column(g) : g \in {h \in Part : preset[h] # entity[c][h]}}
      OBVIOUS
    <3> QED
      BY <2>1, <3>1
  <2>2. CASE d # c
    BY <2>2, <1>2 DEF ColumnsTrue
  <2> QED
    BY <2>1, <2>2
<1>7. SavedTrue' /\ KeysKept'
  BY <1>2 DEF SavedTrue, KeysKept
<1> QED
  BY <1>2, <1>4, <1>5, <1>6, <1>7

\* A request that has written the row: the others' views of it need not hold
\* unless they are alone, which they are not.
LEMMA WrittenInv ==
    ASSUME PresetInv, NEW c \in Call, Busy(c), Moves(c, "saved"),
           UNCHANGED <<brings, asks, entity, columns, kept, clashed>>,
           preset' \in Row \cup {Absent},
           preset' # Absent =>
               /\ \A f \in Part : kept[f] # Absent => preset'[f] = kept[f]
               /\ c \notin clashed /\ asks[c] # "delete" => \A f \in brings[c] : preset'[f] = c
    PROVE  PresetInv'
<1> USE DEF PresetInv, PresetTypeOK
<1>1. /\ Alone' /\ HeldBack'
      /\ step' \in [Call -> Closed \cup {"load", "save", "insert", "write",
                                         "remove", "saved"}]
      /\ step'[c] = "saved" /\ \A d \in Call \ {c} : step'[d] = step[d]
  BY MoveInv
<1>2. PresetTypeOK'
  BY <1>1
<1>3. EntityTrue'
  BY <1>1 DEF EntityTrue
<1>4. \A d \in Call \ {c} : Busy(d) => d \in clashed
  BY DEF Alone
<1>5. ColumnsTrue'
  BY <1>1, <1>4 DEF ColumnsTrue, Busy, Closed
<1>6. SavedTrue'
  <2> SUFFICES ASSUME NEW d \in Call, step'[d] = "saved", d \notin clashed,
                      asks[d] # "delete", preset' # Absent, NEW f \in brings[d]
               PROVE  preset'[f] = d
    BY DEF SavedTrue
  <2>1. d = c
    BY <1>1, <1>4 DEF Busy, Closed
  <2> QED
    BY <2>1
<1>7. KeysKept'
  BY DEF KeysKept
<1> QED
  BY <1>1, <1>2, <1>3, <1>5, <1>6, <1>7

LEMMA InsertInv == ASSUME PresetInv, NEW c \in Call, Insert(c) PROVE PresetInv'
<1> USE DEF PresetInv, PresetTypeOK, Insert
<1>0. Busy(c)
  BY DEF Busy, Closed
<1>1. CASE preset = Absent
  <2>1. /\ preset' = entity[c] /\ entity[c] \in Row
        /\ \A f \in Part : /\ kept[f] # Absent => entity[c][f] = kept[f]
                           /\ f \in brings[c] => entity[c][f] = c
    BY <1>1 DEF EntityTrue
  <2>2. brings[c] \subseteq Part
    OBVIOUS
  <2> QED
    BY <1>0, <1>1, <2>1, <2>2, WrittenInv
<1>2. CASE preset # Absent
  <2>1. /\ Alone' /\ HeldBack'
        /\ step' \in [Call -> Closed \cup {"load", "save", "insert", "write",
                                           "remove", "saved"}]
        /\ step'[c] = "refused" /\ \A d \in Call \ {c} : step'[d] = step[d]
    BY <1>2, MoveInv DEF Closed
  <2>2. PresetTypeOK'
    BY <1>2, <2>1
  <2>3. EntityTrue' /\ ColumnsTrue' /\ SavedTrue' /\ KeysKept'
    BY <1>2, <2>1 DEF EntityTrue, ColumnsTrue, SavedTrue, KeysKept
  <2> QED
    BY <2>1, <2>2, <2>3
<1> QED
  BY <1>1, <1>2

LEMMA WriteInv == ASSUME PresetInv, NEW c \in Call, Write(c) PROVE PresetInv'
<1> USE DEF PresetInv, PresetTypeOK, Write
<1>0. Busy(c)
  BY DEF Busy, Closed
<1>1. CASE preset = Absent
  BY <1>0, <1>1, WrittenInv
<1>2. CASE preset # Absent
  <2>1. preset' = [f \in Part |-> IF Column(f) \in columns[c] THEN entity[c][f]
                                  ELSE preset[f]]
    BY <1>2
  <2>2. /\ entity[c] \in Row
        /\ \A f \in Part : /\ kept[f] # Absent => entity[c][f] = kept[f]
                           /\ f \in brings[c] => entity[c][f] = c
    BY DEF EntityTrue
  <2>3. preset' \in Row
    BY <1>2, <2>1, <2>2 DEF Row
  <2>4. \A f \in Part : kept[f] # Absent => preset'[f] = kept[f]
    BY <1>2, <2>1, <2>2 DEF KeysKept
  <2>5. c \notin clashed => \A f \in brings[c] : preset'[f] = c
    BY <1>2, <2>1, <2>2 DEF ColumnsTrue
  <2> QED
    BY <1>0, <2>3, <2>4, <2>5, WrittenInv
<1> QED
  BY <1>1, <1>2

LEMMA RemoveInv == ASSUME PresetInv, NEW c \in Call, Remove(c) PROVE PresetInv'
<1> USE DEF PresetInv, PresetTypeOK, Remove
<1>0. Busy(c) /\ preset' = Absent
  BY DEF Busy, Closed
<1>1. PICK t \in {"refused", "saved"} : Moves(c, t)
  BY Zenon
<1>2. /\ Alone' /\ HeldBack'
      /\ step' \in [Call -> Closed \cup {"load", "save", "insert", "write",
                                         "remove", "saved"}]
      /\ step'[c] = t /\ \A d \in Call \ {c} : step'[d] = step[d]
  BY <1>0, <1>1, MoveInv DEF Closed
<1>3. PresetTypeOK'
  BY <1>0, <1>2
<1>4. EntityTrue' /\ ColumnsTrue' /\ SavedTrue' /\ KeysKept'
  BY <1>0, <1>2 DEF EntityTrue, ColumnsTrue, SavedTrue, KeysKept
<1> QED
  BY <1>2, <1>3, <1>4

LEMMA AnswerInv == ASSUME PresetInv, NEW c \in Call, AnswerCall(c) PROVE PresetInv'
<1> USE DEF PresetInv, PresetTypeOK, AnswerCall, Moves
<1>0. Busy(c)
  BY DEF Busy, Closed
<1>1. /\ step' \in [Call -> Closed \cup {"load", "save", "insert", "write",
                                         "remove", "saved"}]
      /\ step'[c] = "answered" /\ \A d \in Call \ {c} : step'[d] = step[d]
  BY DEF Closed
<1>2. /\ entity' \in [Call -> Row \cup {Absent}]
      /\ columns' \in [Call -> SUBSET {"label", "config"}]
      /\ \A d \in Call \ {c} : entity'[d] = entity[d] /\ columns'[d] = columns[d]
  OBVIOUS
<1>3. kept' \in Row
  BY DEF Row
<1>4. PresetTypeOK'
  BY <1>1, <1>2, <1>3
<1>5. \A d \in Call : Busy(d)' => Busy(d) /\ d # c
  BY <1>1 DEF Busy, Closed
<1>6. Alone'
  BY <1>5 DEF Alone
<1>7. \A d \in Call : Busy(d)' => kept' = kept
  BY <1>0, <1>5 DEF Alone
<1>8. HeldBack'
  BY <1>5, <1>7 DEF HeldBack, Disturbed
<1>9. EntityTrue'
  <2> SUFFICES ASSUME NEW d \in Call, step'[d] \in {"save", "insert", "write"}
               PROVE  /\ entity'[d] \in Row
                      /\ \A f \in Part : /\ kept'[f] # Absent => entity'[d][f] = kept'[f]
                                         /\ f \in brings[d] => entity'[d][f] = d
    BY DEF EntityTrue
  <2>1. d # c /\ step[d] = step'[d]
    BY <1>1
  <2>2. kept' = kept
    BY <1>7 DEF Busy, Closed
  <2> QED
    BY <1>2, <2>1, <2>2 DEF EntityTrue
<1>10. ColumnsTrue' /\ SavedTrue'
  BY <1>1, <1>2 DEF ColumnsTrue, SavedTrue
<1>11. KeysKept'
  <2>1. CASE c \in clashed \/ asks[c] = "delete"
    BY <2>1 DEF KeysKept
  <2>2. CASE c \notin clashed /\ asks[c] # "delete"
    <3>1. \A f \in Part : kept'[f] = IF f \in brings[c] THEN c ELSE kept[f]
      BY <2>2
    <3> QED
      BY <2>2, <3>1 DEF KeysKept, SavedTrue
  <2> QED
    BY <2>1, <2>2
<1> QED
  BY <1>4, <1>6, <1>8, <1>9, <1>10, <1>11

LEMMA PresetStutter == ASSUME PresetInv, UNCHANGED presetVars PROVE PresetInv'
<1> USE DEF PresetInv, presetVars
<1>1. PresetTypeOK'
  BY DEF PresetTypeOK
<1>2. Alone' /\ HeldBack'
  BY DEF Alone, HeldBack, Busy, Disturbed
<1>3. EntityTrue' /\ ColumnsTrue'
  BY DEF EntityTrue, ColumnsTrue
<1>4. SavedTrue' /\ KeysKept'
  BY DEF SavedTrue, KeysKept
<1> QED
  BY <1>1, <1>2, <1>3, <1>4

-----------------------------------------------------------------------------
\* Every reachable state of the preset and its requests satisfies the
\* invariant, whatever requests there are and whatever fields they name.
THEOREM PresetInvariance == PresetSpec => []PresetInv
<1>1. PresetInv /\ [PresetNext]_presetVars => PresetInv'
  <2> SUFFICES ASSUME PresetInv, [PresetNext]_presetVars PROVE PresetInv'
    OBVIOUS
  <2>1. CASE UNCHANGED presetVars
    BY <2>1, PresetStutter
  <2>2. CASE PresetNext
    <3> PICK c \in Call : \/ CreatePreset(c) \/ UpdatePreset(c) \/ DeletePreset(c)
                          \/ RefusePreset(c) \/ Load(c) \/ Compare(c) \/ Insert(c)
                          \/ Write(c) \/ Remove(c) \/ AnswerCall(c)
      BY <2>2, Zenon DEF PresetNext
    <3>1. CASE CreatePreset(c)
      BY <3>1, CreateInv
    <3>2. CASE UpdatePreset(c)
      BY <3>2, UpdateInv
    <3>3. CASE DeletePreset(c)
      BY <3>3, DeleteInv
    <3>4. CASE RefusePreset(c)
      BY <3>4, RefuseInv
    <3>5. CASE Load(c)
      BY <3>5, LoadInv
    <3>6. CASE Compare(c)
      BY <3>6, CompareInv
    <3>7. CASE Insert(c)
      BY <3>7, InsertInv
    <3>8. CASE Write(c)
      BY <3>8, WriteInv
    <3>9. CASE Remove(c)
      BY <3>9, RemoveInv
    <3>10. CASE AnswerCall(c)
      BY <3>10, AnswerInv
    <3> QED
      BY <3>1, <3>2, <3>3, <3>4, <3>5, <3>6, <3>7, <3>8, <3>9, <3>10
  <2> QED
    BY <2>1, <2>2
<1> QED
  BY <1>1, PresetInitInv, PTL DEF PresetSpec

\* A merge never loses what an undisturbed request brought, for any number of
\* requests, keys and interleavings of their statements.
THEOREM KeysAreKept == PresetSpec => []KeysKept
<1>1. PresetInv => KeysKept
  BY DEF PresetInv
<1> QED
  BY <1>1, PresetInvariance, PTL

-----------------------------------------------------------------------------
(***************************************************************************)
(* However long the collectors take and whenever a refresh comes, polls    *)
(* are one after the other, and so is what they show.                      *)
(***************************************************************************)

Polling(p) == poll[p] \in {"reading", "read", "collecting"}

\* At most one poll is under way, isPolling tells so, and the reading it has
\* got is no older than what is shown or counted from.
OnePoll ==
    /\ \A p \in Poll : Polling(p) => isPolling
    /\ \A p, q \in Poll : Polling(p) /\ Polling(q) => p = q

Newer(p) ==
    /\ poll[p] = "read" => prevCpuTimes <= stat[p] /\ snapshot <= stat[p]
    /\ poll[p] = "collecting" => snapshot <= stat[p]

PollInv == PollTypeOK /\ OnePoll /\ \A p \in Poll : Newer(p)

LEMMA PollInitInv == PollInit => PollInv
<1> SUFFICES ASSUME PollInit PROVE PollInv
  OBVIOUS
<1>1. PollTypeOK
  <2>1. now = 0 /\ 0 \in 0..0
    BY DEF PollInit
  <2>2. stat \in [Poll -> 0..now]
    BY <2>1 DEF PollInit
  <2>3. poll \in [Poll -> {"idle", "reading", "read", "collecting", "done", "skipped"}]
    BY DEF PollInit
  <2>4. isPolling \in BOOLEAN
    BY DEF PollInit
  <2>5. snapshot = 0 /\ prevCpuTimes = 0
    BY DEF PollInit
  <2> QED
    BY <2>1, <2>2, <2>3, <2>4, <2>5 DEF PollTypeOK
<1>2. OnePoll /\ \A p \in Poll : Newer(p)
  BY DEF PollInit, OnePoll, Newer, Polling
<1> QED
  BY <1>1, <1>2 DEF PollInv

\* Only a poll that finds no other under way begins.
LEMMA BeginInv ==
    ASSUME PollInv, NEW p \in Poll, Begin(p) \/ Skip(p)
    PROVE  PollInv'
<1>1. PollTypeOK'
  BY DEF PollInv, PollTypeOK, Begin, Skip
<1>2. OnePoll'
  BY DEF PollInv, PollTypeOK, OnePoll, Polling, Begin, Skip
<1>3. \A q \in Poll : Newer(q)'
  BY DEF PollInv, PollTypeOK, Newer, Begin, Skip
<1> QED
  BY <1>1, <1>2, <1>3 DEF PollInv

\* A reading is the latest there is.
LEMMA ReadStatInv ==
    ASSUME PollInv, NEW p \in Poll, ReadStat(p) \/ NoStat(p)
    PROVE  PollInv'
<1>1. PollTypeOK'
  <2>1. now \in Nat /\ now' \in {now, now + 1} /\ stat \in [Poll -> 0..now]
    BY DEF PollInv, PollTypeOK, ReadStat, NoStat
  <2>2. stat' = [stat EXCEPT ![p] = now']
    BY DEF ReadStat, NoStat
  <2>3. stat' \in [Poll -> 0..now']
    BY <2>1, <2>2
  <2> QED
    BY <2>1, <2>3 DEF PollInv, PollTypeOK, ReadStat, NoStat
<1>2. OnePoll'
  BY DEF PollInv, PollTypeOK, OnePoll, Polling, ReadStat, NoStat
<1>3. \A q \in Poll : Newer(q)'
  BY DEF PollInv, PollTypeOK, Newer, ReadStat, NoStat
<1> QED
  BY <1>1, <1>2, <1>3 DEF PollInv

\* The counters are replaced by the one poll that is under way.
LEMMA CountCpuInv ==
    ASSUME PollInv, NEW p \in Poll, CountCpu(p)
    PROVE  PollInv'
<1>1. PollTypeOK'
  BY DEF PollInv, PollTypeOK, CountCpu
<1>2. OnePoll'
  BY DEF PollInv, PollTypeOK, OnePoll, Polling, CountCpu
<1>3. \A q \in Poll : Newer(q)'
  BY DEF PollInv, PollTypeOK, OnePoll, Polling, Newer, CountCpu
<1> QED
  BY <1>1, <1>2, <1>3 DEF PollInv

\* The end of a poll, good or bad, leaves none under way.
LEMMA PollEndInv ==
    ASSUME PollInv, NEW p \in Poll, Collected(p) \/ PollFails(p)
    PROVE  PollInv'
<1>1. PollTypeOK'
  <2>1. stat[p] \in 0..now /\ now \in Nat
    BY DEF PollInv, PollTypeOK
  <2>2. snapshot' \in Nat /\ snapshot' <= now
    BY <2>1 DEF PollInv, PollTypeOK, Collected, PollFails
  <2> QED
    BY <2>2 DEF PollInv, PollTypeOK, Collected, PollFails
<1>2. \A q \in Poll : ~Polling(q)'
  BY DEF PollInv, PollTypeOK, OnePoll, Polling, Collected, PollFails
<1>3. OnePoll' /\ \A q \in Poll : Newer(q)'
  BY <1>2 DEF OnePoll, Newer, Polling
<1> QED
  BY <1>1, <1>3 DEF PollInv

\* What is shown and what is counted from do not go back in a step.
LEMMA StepAdvances ==
    ASSUME PollInv, NEW p \in Poll,
           \/ Begin(p) \/ Skip(p) \/ ReadStat(p) \/ CountCpu(p) \/ NoStat(p)
           \/ Collected(p) \/ PollFails(p)
    PROVE  snapshot' >= snapshot /\ prevCpuTimes' >= prevCpuTimes
<1>1. snapshot \in Nat /\ prevCpuTimes \in Nat /\ stat[p] \in Nat /\ Newer(p)
  BY DEF PollInv, PollTypeOK
<1>2. CASE CountCpu(p)
  BY <1>1, <1>2 DEF CountCpu, Newer
<1>3. CASE Collected(p)
  BY <1>1, <1>3 DEF Collected, Newer
<1>4. CASE Begin(p) \/ Skip(p) \/ ReadStat(p) \/ NoStat(p) \/ PollFails(p)
  BY <1>1, <1>4 DEF Begin, Skip, ReadStat, NoStat, PollFails
<1> QED
  BY <1>2, <1>3, <1>4

LEMMA PollNextInv == PollInv /\ [PollNext]_pollVars => PollInv'
<1> SUFFICES ASSUME PollInv, [PollNext]_pollVars PROVE PollInv'
  OBVIOUS
<1>1. CASE UNCHANGED pollVars
  BY <1>1 DEF pollVars, PollInv, PollTypeOK, OnePoll, Polling, Newer
<1>2. CASE PollNext
  BY <1>2, BeginInv, ReadStatInv, CountCpuInv, PollEndInv DEF PollNext
<1> QED
  BY <1>1, <1>2

-----------------------------------------------------------------------------
\* For any number of calls of poll(): at most one is past the guard, isPolling
\* is set while it is, and its reading is no older than what it will replace.
THEOREM PollsApart == PollSpec => []PollInv
<1> QED
  BY PollInitInv, PollNextInv, PTL DEF PollSpec

\* The snapshot a client is shown, and the counters CPU use is counted from,
\* never go back in time.
THEOREM SnapshotsOnlyAdvance == PollSpec => SnapshotsAdvance
<1>1. PollInv /\ [PollNext]_pollVars
        => [snapshot' >= snapshot /\ prevCpuTimes' >= prevCpuTimes]_pollVars
  BY StepAdvances DEF PollNext
<1> QED
  BY <1>1, PollsApart, PTL DEF PollSpec, SnapshotsAdvance

-----------------------------------------------------------------------------
(***************************************************************************)
(* What the reader of a job's outputs answers, for any schedule, prompts   *)
(* and way of naming, while the trainer writes and removes.  The names     *)
(* alone tell the point of the training: a preview and a checkpoint meet   *)
(* in a stem exactly if they are of the same point.                        *)
(***************************************************************************)
Point == {Schedule[n] : n \in 1..Len(Schedule)}
Style == [e : BOOLEAN, time : BOOLEAN, seeded : SUBSET Prompt]

LEMMA PointIs == Point \subseteq {"epoch", "step"} \X (Nat \ {0})
BY ScheduleAssumption DEF Point

\* The points of a name: its own, and none of the final one.
LEMMA OfCheckpoint == /\ \A p \in Point : Of(CheckpointName(p)) = {p}
                      /\ Of(Final) = {}
<1>1. ASSUME NEW p \in Point PROVE Of(CheckpointName(p)) = {p}
  <2>1. \A q \in Point : CheckpointName(q) = CheckpointName(p) => q = p
    <3> SUFFICES ASSUME NEW q \in Point, CheckpointName(q) = CheckpointName(p) PROVE q = p
      OBVIOUS
    <3>1. q[2] = p[2] /\ Width(q[1]) = Width(p[1])
      BY DEF CheckpointName
    <3> QED
      BY <3>1, PointIs DEF Width
  <2>2. \A q \in Point, i \in Prompt : CheckpointName(p) # PreviewName(q, i)
    <3> SUFFICES ASSUME NEW q \in Point, NEW i \in Prompt PROVE CheckpointName(p) # PreviewName(q, i)
      OBVIOUS
    <3>1. DOMAIN CheckpointName(p) = {"num", "digits", "e"}
      BY DEF CheckpointName
    <3>2. "index" \in DOMAIN PreviewName(q, i)
      BY DEF PreviewName
    <3> QED
      BY <3>1, <3>2
  <2> QED
    BY <2>1, <2>2 DEF Of, Point
<1>2. Of(Final) = {}
  <2>1. \A q \in Point : CheckpointName(q) # Final
    <3> SUFFICES ASSUME NEW q \in Point, CheckpointName(q) = Final PROVE FALSE
      OBVIOUS
    <3>1. q[2] = 0
      BY DEF CheckpointName, Final
    <3> QED
      BY <3>1, PointIs
  <2>2. \A q \in Point, i \in Prompt : Final # PreviewName(q, i)
    <3> SUFFICES ASSUME NEW q \in Point, NEW i \in Prompt PROVE Final # PreviewName(q, i)
      OBVIOUS
    <3>1. DOMAIN Final = {"num", "digits", "e"} /\ "index" \in DOMAIN PreviewName(q, i)
      BY DEF PreviewName, Final
    <3> QED
      BY <3>1
  <2> QED
    BY <2>1, <2>2 DEF Of, Point
<1> QED
  BY <1>1, <1>2

LEMMA OfPreview == \A p \in Point, i \in Prompt : Of(PreviewName(p, i)) = {p}
<1> SUFFICES ASSUME NEW p \in Point, NEW i \in Prompt PROVE Of(PreviewName(p, i)) = {p}
  OBVIOUS
<1>1. \A q \in Point, k \in Prompt : PreviewName(q, k) = PreviewName(p, i) => q = p
  <2> SUFFICES ASSUME NEW q \in Point, NEW k \in Prompt, PreviewName(q, k) = PreviewName(p, i)
               PROVE  q = p
    OBVIOUS
  <2>1. q[2] = p[2] /\ Width(q[1]) = Width(p[1])
    BY DEF PreviewName
  <2> QED
    BY <2>1, PointIs DEF Width
<1>2. \A q \in Point : PreviewName(p, i) # CheckpointName(q)
  <2> SUFFICES ASSUME NEW q \in Point PROVE PreviewName(p, i) # CheckpointName(q)
    OBVIOUS
  <2>1. DOMAIN CheckpointName(q) = {"num", "digits", "e"} /\ "index" \in DOMAIN PreviewName(p, i)
    BY DEF CheckpointName, PreviewName
  <2> QED
    BY <2>1
<1> QED
  BY <1>1, <1>2 DEF Of, Point

\* A preview is found under the stem of a checkpoint if they are of one point.
LEMMA StemsMeet ==
    ASSUME style \in Style, NEW c \in Checkpoint, NEW s \in Preview
    PROVE  c \in Stems(s) <=> Of(s) = Of(c)
<1>1. PICK q \in Point, i \in Prompt : s = PreviewName(q, i)
  BY DEF Preview, Point
<1>2. /\ s.num = q[2] /\ s.digits = Width(q[1]) /\ (s.e <=> q[1] = "epoch")
      /\ Of(s) = {q}
  BY <1>1, OfPreview DEF PreviewName
<1>3. /\ \A x \in Stems(s) : x.num = q[2] /\ x.digits = Width(q[1])
      /\ \A e \in BOOLEAN : (e => q[1] = "epoch") =>
            [num |-> q[2], digits |-> Width(q[1]), e |-> e] \in Stems(s)
  <2>1. Stems(s) = {[num |-> q[2], digits |-> Width(q[1]), e |-> e] :
                       e \in IF q[1] = "epoch" THEN BOOLEAN ELSE {FALSE}}
    BY <1>2 DEF Stems
  <2>2. ASSUME NEW x \in Stems(s) PROVE x.num = q[2] /\ x.digits = Width(q[1])
    <3>1. PICK e : x = [num |-> q[2], digits |-> Width(q[1]), e |-> e]
      BY <2>1, Zenon
    <3> QED
      BY <3>1
  <2>3. ASSUME NEW e \in BOOLEAN, e => q[1] = "epoch"
        PROVE  [num |-> q[2], digits |-> Width(q[1]), e |-> e] \in Stems(s)
    <3>1. e \in IF q[1] = "epoch" THEN BOOLEAN ELSE {FALSE}
      BY <2>3, Zenon
    <3> QED
      BY <2>1, <3>1, Zenon
  <2> QED
    BY <2>2, <2>3
<1>4. CASE c = Final
  <2>1. c.num = 0
    BY <1>4 DEF Final
  <2>2. q[2] # 0
    BY PointIs
  <2>3. c \notin Stems(s)
    BY <1>3, <2>1, <2>2
  <2> QED
    BY <1>2, <1>4, <2>3, OfCheckpoint
<1>5. CASE c # Final
  <2>1. PICK p \in Point : c = CheckpointName(p)
    BY <1>5 DEF Checkpoint, Point
  <2>2. Of(c) = {p}
    BY <2>1, OfCheckpoint
  <2>3. c = [num |-> p[2], digits |-> Width(p[1]), e |-> p[1] = "epoch" /\ style.e]
    BY <2>1 DEF CheckpointName
  <2>4. ASSUME c \in Stems(s) PROVE p = q
    <3>1. c.num = q[2] /\ c.digits = Width(q[1])
      BY <1>3, <2>4
    <3>2. p[2] = q[2] /\ Width(p[1]) = Width(q[1])
      BY <2>3, <3>1
    <3> QED
      BY <3>2, PointIs DEF Width
  <2>5. ASSUME p = q PROVE c \in Stems(s)
    <3>1. (p[1] = "epoch" /\ style.e) \in BOOLEAN
      OBVIOUS
    <3> QED
      BY <1>3, <2>3, <2>5, <3>1
  <2> QED
    BY <1>2, <2>2, <2>4, <2>5
<1> QED
  BY <1>4, <1>5

\* The previews of the point of a checkpoint, and those listed for it.
OwnOf(c, shots) == {s \in shots : Of(s) = Of(c)}
PreviewsOf(c) == IF c \in DOMAIN byStem THEN byStem[c] ELSE {}
FilesFound == {r.file : r \in found}

OutTyped ==
    /\ style \in Style /\ point \in Nat
    /\ outputDir \subseteq Checkpoint /\ sampleDir \subseteq Preview /\ names \subseteq Checkpoint
    /\ found \subseteq [file : Checkpoint, label : {"final", "epoch", "step"}, previews : SUBSET Preview]
    /\ asked \in {"no", "list", "previews", "stat", "answered"}

\* What the directories were and are; one that is not made holds nothing.
DirsTrue ==
    /\ asked # "no" => stayed \subseteq outputDir /\ outputDir \subseteq ever /\ shown \subseteq sampleDir
    /\ "output" \notin made => outputDir = {}

\* What was there all the while is listed or answered, and all of this was there.
ListTrue ==
    /\ asked \in {"no", "list"} => names = {}
    /\ asked \in {"no", "list", "previews"} => found = {}
    /\ asked \in {"previews", "stat", "answered"} =>
          stayed \subseteq names \cup FilesFound /\ names \cup FilesFound \subseteq ever
    /\ asked = "answered" => names = {}

\* A checkpoint has the previews of its own point, in the list and in the answer.
PairsTrue ==
    /\ asked = "stat" => \A c \in Checkpoint : /\ OwnOf(c, shown) \subseteq PreviewsOf(c)
                                              /\ PreviewsOf(c) \subseteq OwnOf(c, sampleDir)
    /\ \A r \in found : /\ OwnOf(r.file, shown) \subseteq r.previews
                        /\ r.previews \subseteq OwnOf(r.file, sampleDir)
                        /\ r.label = LabelOf(r.file, r.previews)

OutputInv == OutTyped /\ DirsTrue /\ ListTrue /\ PairsTrue

\* The style of the names never changes, nor what they tell.
LEMMA SameStyle ==
    ASSUME style' = style
    PROVE  /\ Checkpoint' = Checkpoint /\ Preview' = Preview
           /\ \A f : Of(f)' = Of(f)
<1>1. \A p : CheckpointName(p)' = CheckpointName(p) /\ \A i : PreviewName(p, i)' = PreviewName(p, i)
  BY DEF CheckpointName, PreviewName
<1> QED
  BY <1>1 DEF Checkpoint, Preview, Of

LEMMA OutputInitInv == OutputInit => OutputInv
<1> SUFFICES ASSUME OutputInit PROVE OutputInv
  OBVIOUS
<1>1. OutTyped
  BY DEF OutputInit, OutTyped, Style
<1>2. DirsTrue /\ ListTrue /\ PairsTrue
  BY DEF OutputInit, DirsTrue, ListTrue, PairsTrue, FilesFound
<1> QED
  BY <1>1, <1>2 DEF OutputInv

\* The trainer: what it writes was there at some time, and what it removes did
\* not stay.
LEMMA TrainerInv ==
    ASSUME OutputInv, Proceed \/ SaveCheckpoint \/ RemoveCheckpoint \/ SamplePrompt
    PROVE  OutputInv'
<1> USE DEF OutputInv
<1>1. UNCHANGED <<style, asked, names, byStem, found, shown>>
  BY DEF Proceed, SaveCheckpoint, RemoveCheckpoint, SamplePrompt, readerVars
<1>2. point' \in Nat /\ stayed' \subseteq stayed /\ ever \subseteq ever' /\ sampleDir \subseteq sampleDir'
  BY DEF Proceed, SaveCheckpoint, RemoveCheckpoint, SamplePrompt, OutTyped
<1>3. outputDir' \subseteq Checkpoint /\ sampleDir' \subseteq Preview
  <2>1. CASE SaveCheckpoint
    <3>1. PICK c : outputDir' = outputDir \cup {c} /\ sampleDir' = sampleDir
                     /\ c = IF point > Len(Schedule) THEN Final ELSE CheckpointName(Schedule[point])
      BY <2>1 DEF SaveCheckpoint
    <3>2. point > 0 /\ point \in Nat /\ Len(Schedule) \in Nat
      BY <2>1, ScheduleAssumption DEF SaveCheckpoint, OutTyped
    <3>3. c \in Checkpoint
      BY <3>1, <3>2 DEF Checkpoint
    <3> QED
      BY <3>1, <3>3 DEF OutTyped
  <2>2. CASE SamplePrompt
    BY <2>2 DEF SamplePrompt, OutTyped, Preview
  <2>3. CASE Proceed \/ RemoveCheckpoint
    BY <2>3 DEF Proceed, RemoveCheckpoint, OutTyped
  <2> QED
    BY <2>1, <2>2, <2>3
<1>4. OutTyped'
  BY <1>1, <1>2, <1>3, SameStyle DEF OutTyped
<1>5. DirsTrue'
  <2>1. CASE Proceed \/ SamplePrompt
    BY <1>1, <1>2, <2>1 DEF Proceed, SamplePrompt, DirsTrue
  <2>2. CASE SaveCheckpoint
    BY <2>2 DEF SaveCheckpoint, DirsTrue, readerVars
  <2>3. CASE RemoveCheckpoint
    BY <2>3 DEF RemoveCheckpoint, DirsTrue, readerVars
  <2> QED
    BY <2>1, <2>2, <2>3
<1>6. ListTrue'
  BY <1>1, <1>2 DEF ListTrue, FilesFound
<1>7. PairsTrue'
  <2>1. \A c : /\ OwnOf(c, shown)' = OwnOf(c, shown) /\ OwnOf(c, sampleDir) \subseteq OwnOf(c, sampleDir)'
               /\ PreviewsOf(c)' = PreviewsOf(c)
    BY <1>1, <1>2, SameStyle DEF OwnOf, PreviewsOf
  <2>2. asked' = "stat" => \A c \in Checkpoint' : /\ OwnOf(c, shown)' \subseteq PreviewsOf(c)'
                                                 /\ PreviewsOf(c)' \subseteq OwnOf(c, sampleDir)'
    BY <1>1, <2>1, SameStyle DEF PairsTrue
  <2>3. ASSUME NEW r \in found'
        PROVE  /\ OwnOf(r.file, shown)' \subseteq r.previews
               /\ r.previews \subseteq OwnOf(r.file, sampleDir)'
               /\ r.label = LabelOf(r.file, r.previews)
    BY <1>1, <2>1, <2>3 DEF PairsTrue
  <2> QED
    BY <2>2, <2>3 DEF PairsTrue, LabelOf
<1> QED
  BY <1>4, <1>5, <1>6, <1>7

\* The reader: it lists what there is, and looks at one checkpoint after another.
LEMMA ReaderInv ==
    ASSUME OutputInv, GetOutputs \/ ListCheckpoints \/ BuildPreviewMap \/ AnswerOutputs
    PROVE  OutputInv'
<1> USE DEF OutputInv
<1>1. UNCHANGED <<style, point, outputDir, sampleDir, made, found>>
  BY DEF GetOutputs, ListCheckpoints, BuildPreviewMap, AnswerOutputs, trainerVars
<1>2. names' \in {names, outputDir, {}} /\ asked' \in {"list", "previews", "stat", "answered"}
  BY DEF GetOutputs, ListCheckpoints, BuildPreviewMap, AnswerOutputs
<1>3. OutTyped'
  BY <1>1, <1>2, SameStyle DEF OutTyped
<1>4. \/ UNCHANGED <<stayed, ever, shown>> /\ asked # "no"
      \/ stayed' = outputDir /\ ever' = outputDir /\ shown' = sampleDir /\ asked = "no"
  BY DEF GetOutputs, ListCheckpoints, BuildPreviewMap, AnswerOutputs
<1>5. DirsTrue'
  BY <1>1, <1>4 DEF DirsTrue
<1>6. ListTrue'
  <2>1. CASE GetOutputs
    BY <1>1, <2>1 DEF GetOutputs, ListTrue, FilesFound
  <2>2. CASE ListCheckpoints
    BY <1>1, <2>2 DEF ListCheckpoints, ListTrue, DirsTrue, FilesFound
  <2>3. CASE BuildPreviewMap
    BY <1>1, <2>3 DEF BuildPreviewMap, ListTrue, FilesFound
  <2>4. CASE AnswerOutputs
    BY <1>1, <2>4 DEF AnswerOutputs, ListTrue, FilesFound
  <2> QED
    BY <2>1, <2>2, <2>3, <2>4
<1>7. PairsTrue'
  <2>1. ASSUME NEW r \in found'
        PROVE  /\ OwnOf(r.file, shown)' \subseteq r.previews
               /\ r.previews \subseteq OwnOf(r.file, sampleDir)'
               /\ r.label = LabelOf(r.file, r.previews)
    <3>1. r \in found /\ asked # "no" /\ shown' = shown /\ sampleDir' = sampleDir
      BY <1>1, <1>4, <2>1 DEF ListTrue
    <3>2. \A c : OwnOf(c, shown)' = OwnOf(c, shown) /\ OwnOf(c, sampleDir)' = OwnOf(c, sampleDir)
      BY <1>1, <3>1, SameStyle DEF OwnOf
    <3> QED
      BY <3>1, <3>2 DEF PairsTrue
  <2>2. ASSUME asked' = "stat", NEW c \in Checkpoint
        PROVE  /\ OwnOf(c, shown)' \subseteq PreviewsOf(c)'
               /\ PreviewsOf(c)' \subseteq OwnOf(c, sampleDir)'
    <3>1. /\ asked = "previews" /\ UNCHANGED <<stayed, ever, shown>>
          /\ byStem' = [stem \in UNION {Stems(s) : s \in sampleDir} |-> {s \in sampleDir : stem \in Stems(s)}]
      BY <2>2 DEF GetOutputs, ListCheckpoints, BuildPreviewMap, AnswerOutputs
    <3>2. PreviewsOf(c)' = {s \in sampleDir : c \in Stems(s)}
      BY <3>1 DEF PreviewsOf
    <3>3. {s \in sampleDir : c \in Stems(s)} = OwnOf(c, sampleDir)
      BY StemsMeet DEF OutTyped, OwnOf
    <3>4. shown \subseteq sampleDir
      BY <3>1 DEF DirsTrue
    <3>5. OwnOf(c, shown)' = OwnOf(c, shown) /\ OwnOf(c, sampleDir)' = OwnOf(c, sampleDir)
      BY <1>1, <3>1, SameStyle DEF OwnOf
    <3> QED
      BY <3>2, <3>3, <3>4, <3>5 DEF OwnOf
  <2> QED
    BY <1>1, <2>1, <2>2, SameStyle DEF PairsTrue, LabelOf
<1> QED
  BY <1>3, <1>5, <1>6, <1>7

LEMMA StatInv == ASSUME OutputInv, StatCheckpoint PROVE OutputInv'
<1> USE DEF OutputInv
<1>1. PICK c \in names :
         /\ names' = names \ {c}
         /\ found' = IF c \notin outputDir THEN found
                     ELSE found \cup {[file |-> c, label |-> LabelOf(c, PreviewsOf(c)),
                                       previews |-> PreviewsOf(c)]}
  BY DEF StatCheckpoint, PreviewsOf
<1>2. /\ UNCHANGED <<style, point, outputDir, sampleDir, made, asked, byStem, stayed, ever, shown>>
      /\ asked = "stat" /\ c \in Checkpoint
  BY DEF StatCheckpoint, trainerVars, OutTyped
<1> DEFINE new == [file |-> c, label |-> LabelOf(c, PreviewsOf(c)), previews |-> PreviewsOf(c)]
<1>3. OwnOf(c, shown) \subseteq PreviewsOf(c) /\ PreviewsOf(c) \subseteq OwnOf(c, sampleDir)
  BY <1>2 DEF PairsTrue
<1>4. LabelOf(c, PreviewsOf(c)) \in {"final", "epoch", "step"} /\ PreviewsOf(c) \subseteq Preview
  BY <1>3 DEF LabelOf, OwnOf, OutTyped
<1>5. new \in [file : Checkpoint, label : {"final", "epoch", "step"}, previews : SUBSET Preview]
  BY <1>2, <1>4
<1>6. OutTyped'
  <2>1. found' \subseteq [file : Checkpoint, label : {"final", "epoch", "step"}, previews : SUBSET Preview]
    BY <1>1, <1>5 DEF OutTyped
  <2> QED
    BY <1>1, <1>2, <2>1, SameStyle DEF OutTyped
<1>7. DirsTrue'
  BY <1>2 DEF DirsTrue
<1>8. ListTrue'
  <2>1. FilesFound' = IF c \notin outputDir THEN FilesFound ELSE FilesFound \cup {c}
    <3>1. CASE c \notin outputDir
      BY <1>1, <3>1 DEF FilesFound
    <3>2. CASE c \in outputDir
      <4>1. found' = found \cup {new} /\ new.file = c
        BY <1>1, <3>2
      <4> HIDE DEF new
      <4> QED
        BY <3>2, <4>1 DEF FilesFound
    <3> QED
      BY <3>1, <3>2
  <2>2. stayed \subseteq outputDir
    BY <1>2 DEF DirsTrue
  <2>3. stayed \subseteq names \cup FilesFound /\ names \cup FilesFound \subseteq ever
    BY <1>2 DEF ListTrue
  <2>4. stayed \subseteq names' \cup FilesFound' /\ names' \cup FilesFound' \subseteq ever
    BY <1>1, <2>1, <2>2, <2>3
  <2> QED
    BY <1>2, <2>4 DEF ListTrue
<1>9. PairsTrue'
  <2>1. /\ \A k : OwnOf(k, shown)' = OwnOf(k, shown) /\ OwnOf(k, sampleDir)' = OwnOf(k, sampleDir)
        /\ \A k : PreviewsOf(k)' = PreviewsOf(k)
    BY <1>2, SameStyle DEF OwnOf, PreviewsOf
  <2>2. ASSUME NEW r \in found'
        PROVE  /\ OwnOf(r.file, shown) \subseteq r.previews
               /\ r.previews \subseteq OwnOf(r.file, sampleDir)
               /\ r.label = LabelOf(r.file, r.previews)
    <3>1. CASE r \in found
      BY <3>1 DEF PairsTrue
    <3>2. CASE r = new
      BY <1>3, <3>2
    <3> QED
      BY <1>1, <2>2, <3>1, <3>2
  <2> QED
    BY <1>2, <2>1, <2>2, SameStyle DEF PairsTrue, LabelOf
<1> QED
  BY <1>6, <1>7, <1>8, <1>9

\* The invariant of the reader, for any schedule, prompts and names.
THEOREM OutputInvariance == OutputSpec => []OutputInv
<1>1. OutputInv /\ [OutputNext]_outputVars => OutputInv'
  <2> SUFFICES ASSUME OutputInv, [OutputNext]_outputVars PROVE OutputInv'
    OBVIOUS
  <2>1. CASE UNCHANGED outputVars
    <3>1. UNCHANGED <<style, point, outputDir, sampleDir, made, asked, names, byStem, found, stayed, ever, shown>>
      BY <2>1 DEF outputVars, readerVars, trainerVars
    <3>2. /\ \A k : OwnOf(k, shown)' = OwnOf(k, shown) /\ OwnOf(k, sampleDir)' = OwnOf(k, sampleDir)
          /\ \A k : PreviewsOf(k)' = PreviewsOf(k)
      BY <3>1, SameStyle DEF OwnOf, PreviewsOf
    <3>3. OutTyped' /\ PairsTrue'
      BY <3>1, <3>2, SameStyle DEF OutputInv, OutTyped, PairsTrue, LabelOf
    <3>4. DirsTrue' /\ ListTrue'
      BY <3>1 DEF OutputInv, DirsTrue, ListTrue, FilesFound
    <3> QED
      BY <3>3, <3>4 DEF OutputInv
  <2> QED
    BY <2>1, TrainerInv, ReaderInv, StatInv DEF OutputNext
<1> QED
  BY <1>1, OutputInitInv, PTL DEF OutputSpec

\* Whatever the trainer writes and removes meanwhile, the answer has what stayed
\* and nothing that never was, each checkpoint with the previews of its own point
\* and called by its kind.
THEOREM OutputsAreTrue == OutputSpec => []OutputsTrue
<1>1. OutputInv => OutputsTrue
  <2> SUFFICES ASSUME OutputInv, asked = "answered"
               PROVE  /\ stayed \subseteq FilesFound /\ FilesFound \subseteq ever
                      /\ \A r \in found :
                            /\ OwnOf(r.file, shown) \subseteq r.previews
                            /\ r.previews \subseteq OwnOf(r.file, sampleDir)
                            /\ r.label = "final" <=> r.file = Final
                            /\ \A p \in Of(r.file) :
                                  \/ r.label = p[1]
                                  \/ p[1] = "epoch" /\ ~style.e /\ \A s \in r.previews : s.seed
    BY DEF OutputsTrue, FilesFound, OwnOf
  <2>1. stayed \subseteq FilesFound /\ FilesFound \subseteq ever
    BY DEF OutputInv, ListTrue
  <2>2. ASSUME NEW r \in found
        PROVE  /\ r.label = "final" <=> r.file = Final
               /\ \A p \in Of(r.file) :
                     \/ r.label = p[1]
                     \/ p[1] = "epoch" /\ ~style.e /\ \A s \in r.previews : s.seed
    <3>1. /\ r.label = LabelOf(r.file, r.previews) /\ r.file \in Checkpoint
          /\ r.previews \subseteq OwnOf(r.file, sampleDir) /\ sampleDir \subseteq Preview
      BY DEF OutputInv, OutTyped, PairsTrue
    <3>2. r.label = "final" <=> r.file = Final
      BY <3>1 DEF LabelOf
    <3>3. ASSUME NEW p \in Of(r.file)
          PROVE  \/ r.label = p[1]
                 \/ p[1] = "epoch" /\ ~style.e /\ \A s \in r.previews : s.seed
      <4>1. r.file # Final
        BY <3>3, OfCheckpoint
      <4>2. PICK q \in Point : r.file = CheckpointName(q)
        BY <3>1, <4>1 DEF Checkpoint, Point
      <4>3. p = q /\ p \in Point
        BY <3>3, <4>2, OfCheckpoint
      <4>4. r.file.e <=> p[1] = "epoch" /\ style.e
        <5>1. r.file = [num |-> p[2], digits |-> Width(p[1]), e |-> p[1] = "epoch" /\ style.e]
          BY <4>2, <4>3 DEF CheckpointName
        <5>2. CASE p[1] = "epoch" /\ style.e
          <6>1. r.file = [num |-> p[2], digits |-> Width(p[1]), e |-> TRUE]
            BY <5>1, <5>2
          <6> QED
            BY <5>2, <6>1
        <5>3. CASE ~(p[1] = "epoch" /\ style.e)
          <6>1. r.file = [num |-> p[2], digits |-> Width(p[1]), e |-> FALSE]
            BY <5>1, <5>3
          <6> QED
            BY <5>3, <6>1
        <5> QED
          BY <5>2, <5>3
      <4>5. \A s \in r.previews : s.e <=> p[1] = "epoch"
        <5> SUFFICES ASSUME NEW s \in r.previews PROVE s.e <=> p[1] = "epoch"
          OBVIOUS
        <5>1. PICK k \in Point, i \in Prompt : s = PreviewName(k, i)
          BY <3>1 DEF OwnOf, Preview, Point
        <5>2. Of(s) = Of(r.file)
          BY <3>1 DEF OwnOf
        <5>3. k = p
          BY <4>2, <4>3, <5>1, <5>2, OfCheckpoint, OfPreview
        <5> QED
          BY <5>1, <5>3 DEF PreviewName
      <4>6. p[1] \in {"epoch", "step"}
        BY <4>3, PointIs
      <4> QED
        BY <3>1, <4>1, <4>4, <4>5, <4>6 DEF LabelOf, PreviewIsEpoch
    <3> QED
      BY <3>2, <3>3
  <2> QED
    BY <2>1, <2>2 DEF OutputInv, PairsTrue
<1> QED
  BY <1>1, OutputInvariance, PTL


-----------------------------------------------------------------------------
(***************************************************************************)
(* Why the caption editor displays what was typed or what the file holds,  *)
(* for any images, texts and requests.  What was read of a caption is the  *)
(* file's until a request changes the file; from then on an answer is on   *)
(* its way that leaves no query as it was.                                 *)
(***************************************************************************)

\* Requests name an image of the dataset, and a save a text typed for it.
OrdersTrue ==
    \A n \in DOMAIN sent :
        /\ sent[n].kind # "prepend" => sent[n].image \in Image
        /\ sent[n].kind = "save" => sent[n].text \in Text /\ sent[n].text.of = sent[n].image

\* The edit is what was typed last, for the image on display.
DraftTrue ==
    /\ edited = draft
    /\ draft # Nothing => draft.of = editor.image
    /\ \A f \in DOMAIN captions : captions[f] # Nothing => captions[f].of = f

\* The API has done something whose answer is on its way.
Served == \E n \in DOMAIN sent : sent[n].state = "ok"

\* What was read is the file's, and what is displayed too.
CacheTrue ==
    ~Served => \A f \in DOMAIN captions \ outdated :
        /\ fetch[f] \notin {<<>>, <<"asked">>} => fetch[f] = <<"read", captions[f]>>
        /\ fetch[f] = <<>> /\ data[f] # <<>> =>
               data[f] = <<captions[f]>> \/ (f \in stale /\ f # editor.image)

EditInv == EditTypeOK /\ OrdersTrue /\ DraftTrue /\ CacheTrue

\* A list is of finitely many images.
LEMMA ListIs ==
  ASSUME NEW list \in List
  PROVE  /\ DOMAIN list \subseteq Image /\ IsFiniteSet(DOMAIN list)
         /\ Cardinality(DOMAIN list) \in Nat /\ Cardinality(Image) \in Nat
         /\ Cardinality(DOMAIN list) <= Cardinality(Image)
         /\ list \in [DOMAIN list -> Caption]
<1>1. PICK I \in SUBSET Image : list \in [I -> Caption]
  BY DEF List
<1>2. DOMAIN list = I
  BY <1>1
<1>3. IsFiniteSet(Image)
  BY EditorAssumption
<1>4. IsFiniteSet(I) /\ Cardinality(I) <= Cardinality(Image)
  BY <1>3, FS_Subset
<1>5. Cardinality(I) \in Nat /\ Cardinality(Image) \in Nat
  BY <1>3, <1>4, FS_CardinalityType
<1> QED
  BY <1>1, <1>2, <1>4, <1>5

\* The place of an image is in the list.
LEMMA PlaceIs ==
  ASSUME NEW list \in List, NEW f \in DOMAIN list
  PROVE  Place(list, f) \in 1..Cardinality(DOMAIN list)
<1> DEFINE below == {g \in DOMAIN list : g <= f}
<1>1. f \in Nat /\ IsFiniteSet(DOMAIN list) /\ Cardinality(DOMAIN list) \in Nat
  BY ListIs, EditorAssumption
<1>2. f \in below
  BY <1>1
<1>3. IsFiniteSet(below) /\ Cardinality(below) <= Cardinality(DOMAIN list)
  BY <1>1, FS_Subset
<1>4. Cardinality(below) \in Nat
  BY <1>3, FS_CardinalityType
<1>5. Cardinality(below) # 0
  BY <1>2, <1>3, FS_EmptySet
<1> QED
  BY <1>1, <1>3, <1>4, <1>5 DEF Place

\* Every place in the list is some image's.
LEMMA PlacesTaken ==
  ASSUME NEW list \in List, NEW i \in 1..Cardinality(DOMAIN list)
  PROVE  \E f \in DOMAIN list : Place(list, f) = i
<1> DEFINE D == DOMAIN list
           N == Cardinality(D)
           rank == [f \in D |-> Place(list, f)]
<1>1. D \subseteq Nat /\ IsFiniteSet(D) /\ N \in Nat
  BY ListIs, EditorAssumption
<1>2. rank \in [D -> 1..N]
  BY PlaceIs
<1>3. ASSUME NEW f \in D, NEW h \in D, f < h PROVE rank[f] # rank[h]
  <2> DEFINE low == {g \in D : g <= f}
             high == {g \in D : g <= h}
  <2>1. f \in Nat /\ h \in Nat /\ h \in high /\ h \notin low
    BY <1>1, <1>3
  <2>2. low \subseteq high
    BY <1>1, <1>3
  <2>3. IsFiniteSet(high)
    BY <1>1, FS_Subset
  <2>4. Cardinality(low) # Cardinality(high)
    BY <2>1, <2>2, <2>3, FS_Subset
  <2> QED
    BY <2>4 DEF Place
<1>4. \A f, h \in D : rank[f] = rank[h] => f = h
  BY <1>1, <1>3
<1>5. IsFiniteSet(1..N) /\ Cardinality(1..N) = N
  BY <1>1, FS_Interval
<1> HIDE DEF rank
<1>6. rank \in Injection(D, 1..N)
  BY <1>2, <1>4 DEF Injection, IsInjective
<1>7. rank \in Surjection(D, 1..N)
  BY <1>1, <1>5, <1>6, FS_Injection
<1>8. PICK f \in D : rank[f] = i
  BY <1>7 DEF Surjection
<1> QED
  BY <1>8 DEF rank

\* What is at a place is an image of the list, or nothing.
LEMMA AtIs ==
  ASSUME NEW list \in List, NEW i
  PROVE  At(list, i) \in DOMAIN list \cup {Nothing}
<1>1. CASE i \in 1..Cardinality(DOMAIN list)
  <2>1. \E f \in DOMAIN list : Cardinality({g \in DOMAIN list : g <= f}) = i
    BY <1>1, PlacesTaken DEF Place
  <2>2. At(list, i) = CHOOSE f \in DOMAIN list : Cardinality({g \in DOMAIN list : g <= f}) = i
    BY <1>1 DEF At
  <2> QED
    BY <2>1, <2>2
<1>2. CASE i \notin 1..Cardinality(DOMAIN list)
  BY <1>2 DEF At
<1> QED
  BY <1>1, <1>2

\* The page opens with nothing read and nothing typed.
LEMMA EditInitInv == EditInit => EditInv
<1> SUFFICES ASSUME EditInit PROVE EditInv
  OBVIOUS
<1>1. PICK I \in SUBSET Image : captions = [f \in Image |->
          IF f \in I THEN [of |-> f, n |-> 0, token |-> FALSE] ELSE Nothing]
  BY DEF EditInit
<1>2. /\ DOMAIN captions = Image
      /\ \A f \in Image : captions[f] = Nothing \/ captions[f] = [of |-> f, n |-> 0, token |-> FALSE]
  BY <1>1
<1>3. \A f \in Image : [of |-> f, n |-> 0, token |-> FALSE] \in Text
  BY EditorAssumption DEF Text
<1>4. captions \in [Image -> Caption]
  BY <1>1, <1>3 DEF Caption
<1>5. captions \in List /\ dataset \in List
  BY <1>4 DEF List, EditInit
<1>6. selected \in 1..Cardinality(Image) \cup {1}
  <2>1. CASE Linked = Nothing
    BY <2>1 DEF EditInit
  <2>2. CASE Linked # Nothing
    <3>1. Linked \in DOMAIN dataset /\ DOMAIN dataset = Image
      BY <1>2, <2>2, EditorAssumption DEF EditInit
    <3> QED
      BY <1>5, <2>2, <3>1, PlaceIs DEF EditInit
  <2> QED
    BY <2>1, <2>2
<1>7. At(dataset, selected) \in Image \cup {Nothing}
  BY <1>5, AtIs, ListIs
<1>8. editor \in [image : Image \cup {Nothing}, nr : 0..MaxMounts]
  BY <1>7, EditorAssumption DEF EditInit
<1>9. sent \in Seq(Request) /\ DOMAIN sent = {}
  <2>1. sent = <<>>
    BY DEF EditInit
  <2> QED
    BY <2>1
<1>10. EditTypeOK
  <2>1. /\ listing = <<>> /\ isError = FALSE /\ edited = Nothing /\ draft = Nothing
        /\ data = [f \in Image |-> <<>>] /\ stale = {} /\ outdated = {} /\ typed = 0 /\ odd = 0
        /\ fetch = [f \in Image |-> IF f = editor.image THEN <<"asked">> ELSE <<>>]
    BY DEF EditInit
  <2>2. typed \in 0..MaxTyped /\ odd \in 0..MaxOdd
    BY <2>1, EditorAssumption
  <2> QED
    BY <1>5, <1>6, <1>8, <1>9, <2>1, <2>2 DEF EditTypeOK, Caption
<1>11. OrdersTrue
  BY <1>9 DEF OrdersTrue
<1>12. DraftTrue
  BY <1>2 DEF DraftTrue, EditInit
<1>13. CacheTrue
  <2>1. ASSUME NEW f \in Image PROVE data[f] = <<>> /\ fetch[f] \in {<<>>, <<"asked">>}
    BY DEF EditInit
  <2> QED
    BY <1>2, <2>1 DEF CacheTrue
<1> QED
  BY <1>10, <1>11, <1>12, <1>13 DEF EditInv


\* What a fetch of a caption may hold.
Fetched == {<<>>, <<"asked">>} \cup ({"read"} \X Caption)

\* A caption comes on display, or the list moves below it.
LEMMA ShowEdit ==
  ASSUME EditInv, NEW list \in List, NEW mid \in Image \cup {Nothing},
         NEW i \in 1..Cardinality(Image) \cup {1}, Show(list, mid, i),
         UNCHANGED <<captions, sent>>, dataset' \in List,
         listing' \in {<<>>, <<"asked">>} \cup ({"read"} \X List), isError' \in BOOLEAN,
         typed' \in 0..MaxTyped, odd' \in 0..MaxOdd
  PROVE  EditInv'
<1> DEFINE image == At(list, i)
           I == {mid, image} \ {Nothing}
           ask == {f \in I : fetch[f] = <<>> /\ (data[f] = <<>> \/ f \in stale)}
<1>1. image \in Image \cup {Nothing}
  BY AtIs, ListIs
<1>2. EditTypeOK /\ OrdersTrue /\ DraftTrue /\ CacheTrue
  BY DEF EditInv
<1>3. OrdersTrue'
  BY <1>2 DEF OrdersTrue
<1>4. selected' \in 1..Cardinality(Image) \cup {1}
  BY DEF Show
<1>5. CASE {mid, image} = {editor.image}
  <2>1. UNCHANGED <<editor, edited, draft, data, fetch, stale, outdated>>
    BY <1>5 DEF Show, queryVars
  <2>2. EditTypeOK'
    BY <1>2, <1>4, <2>1 DEF EditTypeOK
  <2>3. DraftTrue' /\ CacheTrue'
    BY <1>2, <2>1 DEF DraftTrue, CacheTrue, Served
  <2> QED
    BY <1>3, <2>2, <2>3 DEF EditInv
<1>6. CASE {mid, image} # {editor.image}
  <2>1. /\ editor.nr < MaxMounts
        /\ editor' = [image |-> image, nr |-> editor.nr + 1]
        /\ edited' = Nothing /\ draft' = Nothing
        /\ Display(I)
    BY <1>6 DEF Show
  <2>2. /\ fetch' = [f \in Image |-> IF f \in ask THEN <<"asked">> ELSE fetch[f]]
        /\ outdated' = outdated \ ask
        /\ UNCHANGED <<data, stale>>
    BY <2>1 DEF Display
  <2>3. editor \in [image : Image \cup {Nothing}, nr : 0..MaxMounts]
        /\ fetch \in [Image -> Fetched]
    BY <1>2 DEF EditTypeOK, Fetched
  <2>4. editor' \in [image : Image \cup {Nothing}, nr : 0..MaxMounts]
    BY <1>1, <2>1, <2>3, EditorAssumption
  <2>5. fetch' \in [Image -> Fetched]
    BY <2>2, <2>3 DEF Fetched
  <2>6. EditTypeOK'
    <3>1. edited' \in Caption /\ draft' \in Caption
      BY <2>1 DEF Caption
    <3>2. data' \in [Image -> {<<>>} \cup {<<c>> : c \in Caption}] /\ stale' \subseteq Image
          /\ outdated' \subseteq Image /\ captions' \in List /\ sent' \in Seq(Request)
      BY <1>2, <2>2 DEF EditTypeOK
    <3> QED
      BY <1>4, <2>4, <2>5, <3>1, <3>2 DEF EditTypeOK, Fetched
  <2>7. DraftTrue'
    BY <1>2, <2>1 DEF DraftTrue
  <2>8. CacheTrue'
    <3> SUFFICES ASSUME ~Served, NEW h \in DOMAIN captions, h \notin outdated'
                 PROVE  /\ fetch'[h] \notin {<<>>, <<"asked">>} => fetch'[h] = <<"read", captions[h]>>
                        /\ fetch'[h] = <<>> /\ data[h] # <<>> =>
                               data[h] = <<captions[h]>> \/ (h \in stale /\ h # editor'.image)
      BY <2>2 DEF CacheTrue, Served
    <3>1. h \in Image /\ h # Nothing
      BY <1>2, ListIs, NothingAssumption DEF EditTypeOK
    <3>2. CASE h \in ask
      BY <2>2, <3>1, <3>2
    <3>3. CASE h \notin ask
      <4>1. h \notin outdated /\ fetch'[h] = fetch[h]
        BY <2>2, <3>1, <3>3
      <4>2. /\ fetch[h] \notin {<<>>, <<"asked">>} => fetch[h] = <<"read", captions[h]>>
            /\ fetch[h] = <<>> /\ data[h] # <<>> =>
                   data[h] = <<captions[h]>> \/ (h \in stale /\ h # editor.image)
        BY <1>2, <4>1 DEF CacheTrue
      <4>3. ASSUME fetch[h] = <<>>, data[h] # <<>>, h = image PROVE h \notin stale
        BY <3>1, <3>3, <4>3
      <4>4. editor'.image = image
        BY <2>1
      <4> HIDE DEF image, I, ask
      <4> QED
        BY <4>1, <4>2, <4>3, <4>4
    <3> QED
      BY <3>2, <3>3
  <2> QED
    BY <1>3, <2>6, <2>7, <2>8 DEF EditInv
<1> QED
  BY <1>5, <1>6

\* An answer leaves no query on display as it was, and what it leaves in the
\* cache it marks.
LEMMA InvalidateEdit ==
  ASSUME EditTypeOK, NEW f \in Image \cup {Nothing}, InvalidateDataset(f)
  PROVE  /\ listing' = <<"asked">> /\ stale' \subseteq Image /\ outdated' \subseteq Image
         /\ data' \in [Image -> {<<>>} \cup {<<c>> : c \in Caption}]
         /\ fetch' \in [Image -> Fetched]
         /\ \A h \in Image \ outdated' :
               /\ fetch'[h] \in {<<>>, <<"asked">>}
               /\ fetch'[h] = <<>> /\ data'[h] # <<>> => h \in stale' /\ h # editor.image
<1> DEFINE on == editor.image
           restart == on # f /\ (fetch[on] = <<>> \/ data[on] # <<>>)
           again == IF on = f \/ (on # Nothing /\ restart) THEN {on} ELSE {}
           there == {g \in Image \ {f} : data[g] # <<>> \/ fetch[g] # <<>>}
<1>1. /\ listing' = <<"asked">>
      /\ data' = [g \in Image |-> IF g = f THEN <<>> ELSE data[g]]
      /\ fetch' = [g \in Image |-> IF g \in again \ {Nothing} THEN <<"asked">>
                                   ELSE IF g = f THEN <<>> ELSE fetch[g]]
      /\ stale' = (stale \cup there) \ {f}
      /\ outdated' = (outdated \cup {g \in there : fetch[g] # <<>>}) \ (again \cup {f})
  BY DEF InvalidateDataset
<1>2. /\ data \in [Image -> {<<>>} \cup {<<c>> : c \in Caption}]
      /\ fetch \in [Image -> Fetched]
      /\ stale \subseteq Image /\ outdated \subseteq Image
  BY DEF EditTypeOK, Fetched
<1>3. stale' \subseteq Image /\ outdated' \subseteq Image
  BY <1>1, <1>2
<1>4. data' \in [Image -> {<<>>} \cup {<<c>> : c \in Caption}]
  BY <1>1, <1>2
<1>5. fetch' \in [Image -> Fetched]
  BY <1>1, <1>2 DEF Fetched
<1>6. ASSUME NEW h \in Image, h \notin outdated'
      PROVE  /\ fetch'[h] \in {<<>>, <<"asked">>}
             /\ fetch'[h] = <<>> /\ data'[h] # <<>> => h \in stale' /\ h # on
  <2>1. h # Nothing
    BY NothingAssumption
  <2>2. CASE h \in again
    BY <1>1, <2>1, <2>2
  <2>3. CASE h \notin again /\ h = f
    BY <1>1, <2>3
  <2>4. CASE h \notin again /\ h # f
    <3>1. fetch'[h] = fetch[h] /\ data'[h] = data[h]
      BY <1>1, <2>4
    <3>2. ~(h \in there /\ fetch[h] # <<>>)
      BY <1>1, <1>6, <2>4
    <3>3. fetch[h] = <<>>
      BY <2>4, <3>2
    <3>4. data[h] # <<>> => h \in there
      BY <2>4
    <3>5. h # on
      BY <2>1, <2>4, <3>3
    <3> QED
      BY <1>1, <2>4, <3>1, <3>3, <3>4, <3>5
  <2> QED
    BY <2>2, <2>3, <2>4
<1> QED
  BY <1>1, <1>3, <1>4, <1>5, <1>6

\* The answer to a request arrives.
LEMMA AnswerEdit ==
  ASSUME EditInv, NEW n \in DOMAIN sent, Answer(n)
  PROVE  EditInv'
<1> DEFINE r == sent[n]
           req == [r EXCEPT !.state = "done"]
<1>1. EditTypeOK /\ OrdersTrue /\ DraftTrue /\ CacheTrue
  BY DEF EditInv
<1>2. /\ r.state \in {"ok", "failed"}
      /\ sent' = [sent EXCEPT ![n].state = "done"]
      /\ UNCHANGED <<captions, typed, odd>>
  BY DEF Answer
<1>3. sent \in Seq(Request) /\ r \in Request
  BY <1>1 DEF EditTypeOK
<1>4. /\ req \in Request /\ req.kind = r.kind /\ req.image = r.image /\ req.text = r.text
      /\ req.state = "done"
  BY <1>3 DEF Request
<1>5. sent' = [sent EXCEPT ![n] = req]
  BY <1>2, <1>3
<1> HIDE DEF req
<1>6. sent' \in Seq(Request) /\ DOMAIN sent' = DOMAIN sent
  BY <1>3, <1>4, <1>5
<1>7. \A m \in DOMAIN sent : sent'[m] = IF m = n THEN req ELSE sent[m]
  BY <1>3, <1>5
<1>8. OrdersTrue'
  BY <1>1, <1>4, <1>6, <1>7 DEF OrdersTrue
<1>9. CASE r.state = "failed"
  <2>1. UNCHANGED <<dataset, listing, isError, selected, editor, edited, draft, data, fetch, stale, outdated>>
    BY <1>9 DEF Answer, pageVars, queryVars
  <2>2. EditTypeOK'
    BY <1>1, <1>2, <1>6, <2>1 DEF EditTypeOK
  <2>3. Served => Served'
    BY <1>6, <1>7, <1>9 DEF Served
  <2>4. DraftTrue' /\ CacheTrue'
    BY <1>1, <1>2, <2>1, <2>3 DEF DraftTrue, CacheTrue
  <2> QED
    BY <1>8, <2>2, <2>4 DEF EditInv
<1>10. CASE r.state # "failed"
  <2>1. PICK f : f = IF r.kind \in {"clear", "remove"} THEN r.image ELSE Nothing
    OBVIOUS
  <2>2. Forget(r) /\ InvalidateDataset(f) /\ UNCHANGED <<dataset, isError, selected, editor>>
    BY <1>10, <2>1 DEF Answer
  <2>3. f \in Image \cup {Nothing}
    BY <1>3, <2>1 DEF Request
  <2>4. /\ listing' = <<"asked">> /\ stale' \subseteq Image /\ outdated' \subseteq Image
        /\ data' \in [Image -> {<<>>} \cup {<<c>> : c \in Caption}]
        /\ fetch' \in [Image -> Fetched]
        /\ \A h \in Image \ outdated' :
              /\ fetch'[h] \in {<<>>, <<"asked">>}
              /\ fetch'[h] = <<>> /\ data'[h] # <<>> => h \in stale' /\ h # editor.image
    BY <1>1, <2>2, <2>3, InvalidateEdit
  <2>5. (edited' = Nothing /\ draft' = Nothing) \/ (edited' = edited /\ draft' = draft)
    BY <2>2 DEF Forget
  <2>6. EditTypeOK'
    <3>1. edited' \in Caption /\ draft' \in Caption
      BY <1>1, <2>5 DEF EditTypeOK, Caption
    <3> QED
      BY <1>1, <1>2, <1>6, <2>2, <2>4, <3>1 DEF EditTypeOK, Fetched
  <2>7. DraftTrue'
    BY <1>1, <1>2, <2>2, <2>5 DEF DraftTrue
  <2>8. CacheTrue'
    <3>1. DOMAIN captions \subseteq Image
      BY <1>1, ListIs DEF EditTypeOK
    <3> QED
      BY <1>2, <2>2, <2>4, <3>1 DEF CacheTrue
  <2> QED
    BY <1>8, <2>6, <2>7, <2>8 DEF EditInv
<1> QED
  BY <1>9, <1>10


\* The API serves a request: what it did, its answer will tell.
LEMMA ServeEdit ==
  ASSUME EditInv, NEW n \in DOMAIN sent, Serve(n)
  PROVE  EditInv'
<1> DEFINE r == sent[n]
           there == r.kind = "prepend" \/ r.image \in DOMAIN captions
           said == IF there \/ r.kind = "clear" THEN "ok" ELSE "failed"
           req == [r EXCEPT !.state = said]
<1>1. EditTypeOK /\ OrdersTrue /\ DraftTrue /\ CacheTrue
  BY DEF EditInv
<1>2. /\ r.state = "sent"
      /\ sent' = [sent EXCEPT ![n].state = said]
      /\ UNCHANGED <<dataset, listing, isError, selected, editor, edited, draft, data, fetch, stale,
                     outdated, typed, odd>>
  BY DEF Serve, pageVars, queryVars
<1>3. sent \in Seq(Request) /\ r \in Request
  BY <1>1 DEF EditTypeOK
<1>4. /\ req \in Request /\ req.kind = r.kind /\ req.image = r.image /\ req.text = r.text
      /\ req.state = said
  BY <1>3 DEF Request
<1>5. sent' = [sent EXCEPT ![n] = req]
  BY <1>2, <1>3
<1> HIDE DEF req
<1>6. sent' \in Seq(Request) /\ DOMAIN sent' = DOMAIN sent
  BY <1>3, <1>4, <1>5
<1>7. \A m \in DOMAIN sent : sent'[m] = IF m = n THEN req ELSE sent[m]
  BY <1>3, <1>5
<1>8. OrdersTrue'
  BY <1>1, <1>4, <1>6, <1>7 DEF OrdersTrue
<1>9. Served => Served'
  BY <1>2, <1>6, <1>7 DEF Served
<1>10. captions \in [DOMAIN captions -> Caption] /\ DOMAIN captions \subseteq Image
  BY <1>1, ListIs DEF EditTypeOK
<1>11. ASSUME NEW c \in [DOMAIN captions -> Caption] PROVE c \in List
  BY <1>10 DEF List
<1>12. /\ captions' \in List /\ DOMAIN captions' \subseteq DOMAIN captions
       /\ \A f \in DOMAIN captions' : captions'[f] # Nothing => captions'[f].of = f
       /\ captions' = captions \/ said = "ok"
  <2>1. CASE ~there
    <3>1. captions' = captions
      BY <2>1 DEF Serve
    <3> QED
      BY <1>1, <3>1 DEF EditTypeOK, DraftTrue
  <2>2. CASE there /\ r.kind = "save"
    <3>1. captions' = [captions EXCEPT ![r.image] = r.text]
      BY <2>2 DEF Serve
    <3>2. r.text \in Text /\ r.text.of = r.image
      BY <1>1, <2>2 DEF OrdersTrue
    <3>3. captions' \in [DOMAIN captions -> Caption]
      BY <1>10, <3>1, <3>2 DEF Caption
    <3>4. \A f \in DOMAIN captions : captions'[f] # Nothing => captions'[f].of = f
      BY <1>1, <1>10, <3>1, <3>2 DEF DraftTrue
    <3> QED
      BY <1>11, <2>2, <3>3, <3>4
  <2>3. CASE there /\ r.kind = "clear"
    <3>1. captions' = [captions EXCEPT ![r.image] = Nothing]
      BY <2>3 DEF Serve
    <3>2. captions' \in [DOMAIN captions -> Caption]
      BY <1>10, <3>1 DEF Caption
    <3>3. \A f \in DOMAIN captions : captions'[f] # Nothing => captions'[f].of = f
      BY <1>1, <1>10, <3>1 DEF DraftTrue
    <3> QED
      BY <1>11, <2>3, <3>2, <3>3
  <2>4. CASE there /\ r.kind = "remove"
    <3>1. captions' = [f \in DOMAIN captions \ {r.image} |-> captions[f]]
      BY <2>4 DEF Serve
    <3>2. captions' \in [DOMAIN captions \ {r.image} -> Caption]
      BY <1>10, <3>1
    <3>3. captions' \in List
      BY <1>10, <3>2 DEF List
    <3>4. DOMAIN captions' = DOMAIN captions \ {r.image}
          /\ \A f \in DOMAIN captions' : captions'[f] = captions[f]
      BY <3>1
    <3> QED
      BY <1>1, <2>4, <3>3, <3>4 DEF DraftTrue
  <2>5. CASE there /\ r.kind = "prepend"
    <3>1. captions' = [f \in DOMAIN captions |->
                          IF captions[f] = Nothing THEN Nothing
                          ELSE [captions[f] EXCEPT !.token = TRUE]]
      BY <2>5 DEF Serve
    <3>2. ASSUME NEW f \in DOMAIN captions, captions[f] # Nothing
          PROVE  [captions[f] EXCEPT !.token = TRUE] \in Text
                 /\ [captions[f] EXCEPT !.token = TRUE].of = f
      <4>1. captions[f] \in Text /\ captions[f].of = f
        BY <1>1, <1>10, <3>2 DEF Caption, DraftTrue
      <4> QED
        BY <4>1 DEF Text
    <3>3. captions' \in [DOMAIN captions -> Caption]
      BY <3>1, <3>2 DEF Caption
    <3>4. \A f \in DOMAIN captions : captions'[f] # Nothing => captions'[f].of = f
      BY <3>1, <3>2
    <3> QED
      BY <1>11, <2>5, <3>3, <3>4
  <2>6. r.kind \in {"save", "clear", "remove", "prepend"}
    BY <1>3 DEF Request
  <2> QED
    BY <2>1, <2>2, <2>3, <2>4, <2>5, <2>6
<1>13. EditTypeOK'
  BY <1>1, <1>2, <1>6, <1>12 DEF EditTypeOK
<1>14. DraftTrue'
  BY <1>1, <1>2, <1>12 DEF DraftTrue
<1>15. CacheTrue'
  <2>1. CASE said = "ok"
    <3>1. Served'
      BY <1>4, <1>6, <1>7, <2>1 DEF Served
    <3> QED
      BY <3>1 DEF CacheTrue
  <2>2. CASE said # "ok"
    BY <1>1, <1>2, <1>9, <1>12, <2>2 DEF CacheTrue
  <2> QED
    BY <2>1, <2>2
<1> QED
  BY <1>8, <1>13, <1>14, <1>15 DEF EditInv

\* A request is sent.
LEMMA SendEdit ==
  ASSUME EditInv, NEW k \in {"save", "clear", "remove", "prepend"},
         NEW f \in Image \cup {Nothing}, NEW t \in Caption, Send(k, f, t),
         k # "prepend" => f \in Image, k = "save" => t \in Text /\ t.of = f
  PROVE  EditInv'
<1> DEFINE req == [kind |-> k, image |-> f, text |-> t, from |-> editor.nr, state |-> "sent"]
<1>1. EditTypeOK /\ OrdersTrue /\ DraftTrue /\ CacheTrue
  BY DEF EditInv
<1>2. /\ sent' = Append(sent, req)
      /\ UNCHANGED <<captions, dataset, listing, isError, selected, editor, edited, draft, data, fetch,
                     stale, outdated, typed, odd>>
  BY DEF Send, pageVars, queryVars
<1>3. /\ req \in Request /\ req.kind = k /\ req.image = f /\ req.text = t
  BY <1>1 DEF EditTypeOK, Request
<1> HIDE DEF req
<1>4. sent \in Seq(Request)
  BY <1>1 DEF EditTypeOK
<1>5. /\ sent' \in Seq(Request) /\ DOMAIN sent \subseteq DOMAIN sent'
      /\ \A m \in DOMAIN sent : sent'[m] = sent[m]
      /\ \A m \in DOMAIN sent' : m \in DOMAIN sent \/ sent'[m] = req
  BY <1>2, <1>3, <1>4
<1>6. EditTypeOK'
  BY <1>1, <1>2, <1>5 DEF EditTypeOK
<1>7. OrdersTrue'
  BY <1>1, <1>3, <1>5 DEF OrdersTrue
<1>8. Served => Served'
  BY <1>5 DEF Served
<1>9. DraftTrue' /\ CacheTrue'
  BY <1>1, <1>2, <1>8 DEF DraftTrue, CacheTrue
<1> QED
  BY <1>6, <1>7, <1>9 DEF EditInv

\* A fetch of a caption begins, reads the file, brings what it read, or fails.
LEMMA FetchEdit ==
  ASSUME EditInv, NEW f \in Image,
         \/ RefetchCaption /\ f = editor.image
         \/ ReadCaption(f) \/ CaptionArrives(f) \/ FetchFails(f)
  PROVE  EditInv'
<1>1. EditTypeOK /\ OrdersTrue /\ DraftTrue /\ CacheTrue
  BY DEF EditInv
<1>2. UNCHANGED <<captions, dataset, listing, isError, selected, editor, edited, draft, sent, typed>>
  BY DEF RefetchCaption, ReadCaption, CaptionArrives, FetchFails, pageVars
<1>3. /\ data \in [Image -> {<<>>} \cup {<<c>> : c \in Caption}]
      /\ fetch \in [Image -> Fetched]
      /\ stale \subseteq Image /\ outdated \subseteq Image
      /\ odd \in 0..MaxOdd
  BY <1>1 DEF EditTypeOK, Fetched
<1>4. captions \in [DOMAIN captions -> Caption] /\ DOMAIN captions \subseteq Image
  BY <1>1, ListIs DEF EditTypeOK
<1>5. PICK next : fetch' = [fetch EXCEPT ![f] = next] /\ next \in Fetched
  <2>1. CASE RefetchCaption /\ f = editor.image
    BY <2>1 DEF RefetchCaption, Fetched
  <2>2. CASE ReadCaption(f)
    <3>1. PICK c : c = IF f \in DOMAIN captions THEN captions[f] ELSE Nothing
      OBVIOUS
    <3>2. c \in Caption
      BY <1>4, <3>1 DEF Caption
    <3>3. <<"read", c>> \in Fetched
      BY <3>2 DEF Fetched
    <3>4. fetch' = [fetch EXCEPT ![f] = <<"read", c>>]
      BY <2>2, <3>1 DEF ReadCaption
    <3> QED
      BY <3>3, <3>4
  <2>3. CASE CaptionArrives(f)
    BY <2>3 DEF CaptionArrives, Fetched
  <2>4. CASE FetchFails(f)
    BY <2>4 DEF FetchFails, Fetched
  <2> QED
    BY <2>1, <2>2, <2>3, <2>4
<1>6. fetch' \in [Image -> Fetched]
  BY <1>3, <1>5
<1>7. /\ data' \in [Image -> {<<>>} \cup {<<c>> : c \in Caption}]
      /\ stale' \subseteq Image /\ outdated' \subseteq Image /\ odd' \in 0..MaxOdd
      /\ \A h \in Image \ {f} : /\ data'[h] = data[h]
                                /\ h \in stale' <=> h \in stale
                                /\ h \in outdated' <=> h \in outdated
  <2>1. CASE RefetchCaption /\ f = editor.image
    BY <1>3, <2>1, EditorAssumption DEF RefetchCaption
  <2>2. CASE ReadCaption(f)
    BY <1>3, <2>2 DEF ReadCaption
  <2>3. CASE CaptionArrives(f)
    <3>1. Len(fetch[f]) = 2 /\ fetch[f] \in Fetched
      BY <1>3, <2>3 DEF CaptionArrives
    <3>2. Len(<<>>) = 0 /\ Len(<<"asked">>) = 1
      OBVIOUS
    <3>3. fetch[f] \in {"read"} \X Caption
      BY <3>1, <3>2 DEF Fetched
    <3>4. fetch[f][2] \in Caption
      BY <3>3
    <3> QED
      BY <1>3, <2>3, <3>4 DEF CaptionArrives
  <2>4. CASE FetchFails(f)
    <3>1. Nothing \in Caption
      BY DEF Caption
    <3> QED
      BY <1>3, <2>4, <3>1, EditorAssumption DEF FetchFails
  <2> QED
    BY <2>1, <2>2, <2>3, <2>4
<1>8. EditTypeOK'
  BY <1>1, <1>2, <1>6, <1>7 DEF EditTypeOK, Fetched
<1>9. OrdersTrue' /\ DraftTrue'
  BY <1>1, <1>2 DEF OrdersTrue, DraftTrue
<1>10. CacheTrue'
  <2> SUFFICES ASSUME ~Served, NEW h \in DOMAIN captions, h \notin outdated'
               PROVE  /\ fetch'[h] \notin {<<>>, <<"asked">>} => fetch'[h] = <<"read", captions[h]>>
                      /\ fetch'[h] = <<>> /\ data'[h] # <<>> =>
                             data'[h] = <<captions[h]>> \/ (h \in stale' /\ h # editor.image)
    BY <1>2 DEF CacheTrue, Served
  <2>1. h \in Image
    BY <1>4
  <2>2. CASE h # f
    <3>1. fetch'[h] = fetch[h] /\ h \notin outdated
      BY <1>3, <1>5, <1>7, <2>1, <2>2
    <3> QED
      BY <1>1, <1>7, <2>1, <2>2, <3>1 DEF CacheTrue
  <2>3. CASE h = f /\ RefetchCaption /\ f = editor.image
    BY <1>3, <2>1, <2>3 DEF RefetchCaption
  <2>4. CASE h = f /\ ReadCaption(f)
    BY <1>3, <2>1, <2>4 DEF ReadCaption
  <2>5. CASE h = f /\ CaptionArrives(f)
    <3>1. Len(fetch[f]) = 2 /\ fetch'[f] = <<>> /\ data'[f] = <<fetch[f][2]>> /\ f \notin outdated
      BY <1>3, <2>5 DEF CaptionArrives
    <3>2. Len(<<>>) = 0 /\ Len(<<"asked">>) = 1
      OBVIOUS
    <3>3. fetch[f] = <<"read", captions[f]>>
      BY <1>1, <2>5, <3>1, <3>2 DEF CacheTrue
    <3>4. data'[f] = <<captions[f]>>
      BY <3>1, <3>3
    <3> QED
      BY <2>5, <3>1, <3>4
  <2>6. CASE h = f /\ FetchFails(f)
    BY <2>6 DEF FetchFails
  <2> QED
    BY <2>2, <2>3, <2>4, <2>5, <2>6
<1> QED
  BY <1>8, <1>9, <1>10 DEF EditInv


\* What happens to the list, and what the user does.
LEMMA PageEdit ==
  ASSUME EditInv,
         RefetchDataset \/ ReadDataset \/ DatasetArrives \/ DatasetFails \/ Select \/ Type
  PROVE  EditInv'
<1>1. EditTypeOK /\ OrdersTrue /\ DraftTrue /\ CacheTrue
  BY DEF EditInv
<1>2. dataset \in List /\ captions \in List /\ selected \in 1..Cardinality(Image) \cup {1}
      /\ listing \in {<<>>, <<"asked">>} \cup ({"read"} \X List)
      /\ typed \in 0..MaxTyped /\ odd \in 0..MaxOdd /\ isError \in BOOLEAN
  BY <1>1 DEF EditTypeOK
<1>3. \A list \in List : \A i : At(list, i) \in Image \cup {Nothing}
  BY AtIs, ListIs
<1>4. \A list \in List : /\ DOMAIN list \subseteq Image /\ Cardinality(Image) \in Nat
                         /\ Cardinality(DOMAIN list) \in Nat
                         /\ Cardinality(DOMAIN list) <= Cardinality(Image)
  BY ListIs
<1>5. CASE RefetchDataset
  <2>1. /\ UNCHANGED <<captions, dataset, isError, selected, editor, edited, draft, data, fetch, stale,
                       outdated, sent, typed>>
        /\ listing' = <<"asked">>
        /\ odd' = odd \/ (odd < MaxOdd /\ odd' = odd + 1)
    BY <1>5 DEF RefetchDataset, queryVars
  <2>2. odd' \in 0..MaxOdd
    BY <1>2, <2>1, EditorAssumption
  <2>3. EditTypeOK'
    BY <1>1, <2>1, <2>2 DEF EditTypeOK
  <2>4. OrdersTrue' /\ DraftTrue' /\ CacheTrue'
    BY <1>1, <2>1 DEF OrdersTrue, DraftTrue, CacheTrue, Served
  <2> QED
    BY <2>3, <2>4 DEF EditInv
<1>6. CASE ReadDataset
  <2>1. /\ UNCHANGED <<captions, dataset, isError, selected, editor, edited, draft, data, fetch, stale,
                       outdated, sent, typed, odd>>
        /\ listing' = <<"read", captions>>
    BY <1>6 DEF ReadDataset, queryVars
  <2>2. EditTypeOK'
    BY <1>1, <1>2, <2>1 DEF EditTypeOK
  <2>3. OrdersTrue' /\ DraftTrue' /\ CacheTrue'
    BY <1>1, <2>1 DEF OrdersTrue, DraftTrue, CacheTrue, Served
  <2> QED
    BY <2>2, <2>3 DEF EditInv
<1>7. CASE DatasetArrives
  <2>1. PICK list : list = listing[2]
    OBVIOUS
  <2>2. Len(<<>>) = 0 /\ Len(<<"asked">>) = 1
    OBVIOUS
  <2>3. listing \in {"read"} \X List
    <3>1. Len(listing) = 2
      BY <1>7 DEF DatasetArrives
    <3>2. listing # <<>> /\ listing # <<"asked">>
      BY <2>2, <3>1
    <3> QED
      BY <1>2, <3>2
  <2>4. list \in List
    BY <2>1, <2>3
  <2>5. PICK last : last = Cardinality(DOMAIN list)
    OBVIOUS
  <2>6. PICK i : i = IF list = dataset THEN selected
                     ELSE IF Linked # Nothing /\ Linked \in DOMAIN list THEN Place(list, Linked)
                     ELSE IF selected > last THEN (IF last = 0 THEN 1 ELSE last) ELSE selected
    OBVIOUS
  <2>7. /\ dataset' = list /\ listing' = <<>> /\ isError' = FALSE
        /\ UNCHANGED <<captions, sent, typed, odd>>
        /\ IF list = dataset /\ ~isError THEN UNCHANGED <<selected, editor, edited, draft, queryVars>>
           ELSE Show(list, At(list, selected), i)
    BY <1>7, <2>1, <2>5, <2>6 DEF DatasetArrives
  <2>8. i \in 1..Cardinality(Image) \cup {1}
    <3>1. last \in Nat /\ last <= Cardinality(Image) /\ Cardinality(Image) \in Nat
      BY <1>4, <2>4, <2>5
    <3>2. CASE list # dataset /\ Linked # Nothing /\ Linked \in DOMAIN list
      <4>1. Place(list, Linked) \in 1..last
        BY <2>4, <2>5, <3>2, PlaceIs
      <4> QED
        BY <2>6, <3>1, <3>2, <4>1
    <3>3. CASE ~(list # dataset /\ Linked # Nothing /\ Linked \in DOMAIN list)
      BY <1>2, <2>6, <3>1, <3>3
    <3> QED
      BY <3>2, <3>3
  <2>9. CASE list = dataset /\ ~isError
    <3>1. UNCHANGED <<selected, editor, edited, draft, data, fetch, stale, outdated>>
      BY <2>7, <2>9 DEF queryVars
    <3>2. EditTypeOK'
      BY <1>1, <2>4, <2>7, <3>1 DEF EditTypeOK
    <3>3. OrdersTrue' /\ DraftTrue' /\ CacheTrue'
      BY <1>1, <2>7, <3>1 DEF OrdersTrue, DraftTrue, CacheTrue, Served
    <3> QED
      BY <3>2, <3>3 DEF EditInv
  <2>10. CASE ~(list = dataset /\ ~isError)
    <3>1. At(list, selected) \in Image \cup {Nothing}
      BY <1>3, <2>4
    <3>2. Show(list, At(list, selected), i)
      BY <2>7, <2>10
    <3>3. UNCHANGED <<captions, sent>> /\ dataset' \in List /\ typed' \in 0..MaxTyped
          /\ odd' \in 0..MaxOdd /\ listing' = <<>> /\ isError' \in BOOLEAN
      BY <1>2, <2>4, <2>7
    <3> QED
      BY <2>4, <2>8, <3>1, <3>2, <3>3, ShowEdit
  <2> QED
    BY <2>9, <2>10
<1>8. CASE Select
  <2>1. PICK i \in 1..Cardinality(DOMAIN dataset) :
           IF isError THEN selected' = i /\ UNCHANGED <<editor, edited, draft, queryVars>>
           ELSE Show(dataset, At(dataset, i), i)
    BY <1>8 DEF Select
  <2>2. UNCHANGED <<captions, dataset, listing, isError, sent, typed, odd>>
    BY <1>8 DEF Select
  <2>3. i \in 1..Cardinality(Image) \cup {1}
    BY <1>2, <1>4
  <2>4. At(dataset, i) \in Image \cup {Nothing}
    BY <1>2, <1>3
  <2>5. dataset' \in List /\ typed' \in 0..MaxTyped /\ odd' \in 0..MaxOdd
        /\ listing' \in {<<>>, <<"asked">>} \cup ({"read"} \X List) /\ isError' \in BOOLEAN
    BY <1>2, <2>2
  <2>6. CASE isError
    <3>1. selected' = i /\ UNCHANGED <<editor, edited, draft, data, fetch, stale, outdated>>
      BY <2>1, <2>6 DEF queryVars
    <3>2. EditTypeOK'
      BY <1>1, <2>2, <2>3, <3>1 DEF EditTypeOK
    <3>3. OrdersTrue' /\ DraftTrue' /\ CacheTrue'
      BY <1>1, <2>2, <3>1 DEF OrdersTrue, DraftTrue, CacheTrue, Served
    <3> QED
      BY <3>2, <3>3 DEF EditInv
  <2>7. CASE ~isError
    BY <1>2, <2>1, <2>2, <2>3, <2>4, <2>5, <2>7, ShowEdit
  <2> QED
    BY <2>6, <2>7
<1>9. CASE Type
  <2>1. /\ editor.image # Nothing /\ typed < MaxTyped /\ typed' = typed + 1
        /\ edited' = [of |-> editor.image, n |-> typed + 1, token |-> FALSE]
        /\ draft' = edited'
        /\ UNCHANGED <<captions, dataset, listing, isError, selected, editor, data, fetch, stale,
                       outdated, sent, odd>>
    BY <1>9 DEF Type, queryVars
  <2>2. typed' \in 0..MaxTyped /\ typed' = typed + 1
    BY <1>2, <2>1, EditorAssumption
  <2>3. editor.image \in Image
    BY <1>1, <2>1 DEF EditTypeOK
  <2>4. edited' \in Text /\ edited'.of = editor.image
    BY <2>1, <2>2, <2>3 DEF Text
  <2>5. EditTypeOK'
    BY <1>1, <2>1, <2>2, <2>4 DEF EditTypeOK, Caption
  <2>6. DraftTrue'
    BY <1>1, <2>1, <2>4 DEF DraftTrue
  <2>7. OrdersTrue' /\ CacheTrue'
    BY <1>1, <2>1 DEF OrdersTrue, CacheTrue, Served
  <2> QED
    BY <2>5, <2>6, <2>7 DEF EditInv
<1>10. CASE DatasetFails
  <2>1. /\ UNCHANGED <<captions, dataset, selected, data, fetch, stale, outdated, sent, typed>>
        /\ listing' = <<>> /\ isError' = TRUE /\ odd < MaxOdd /\ odd' = odd + 1
        /\ editor' = [editor EXCEPT !.image = Nothing] /\ edited' = Nothing /\ draft' = Nothing
    BY <1>10 DEF DatasetFails, queryVars
  <2>2. odd' \in 0..MaxOdd
    BY <1>2, <2>1, EditorAssumption
  <2>3. editor' \in [image : Image \cup {Nothing}, nr : 0..MaxMounts] /\ editor'.image = Nothing
    BY <1>1, <2>1 DEF EditTypeOK
  <2>4. EditTypeOK'
    BY <1>1, <2>1, <2>2, <2>3 DEF EditTypeOK, Caption
  <2>5. OrdersTrue' /\ DraftTrue'
    BY <1>1, <2>1 DEF OrdersTrue, DraftTrue
  <2>6. \A f \in DOMAIN captions : f # editor'.image
    BY <1>2, <1>4, <2>3, NothingAssumption
  <2>7. CacheTrue'
    BY <1>1, <2>1, <2>6 DEF CacheTrue, Served
  <2> QED
    BY <2>4, <2>5, <2>7 DEF EditInv
<1> QED
  BY <1>5, <1>6, <1>7, <1>8, <1>9, <1>10

\* A request fails on its way.
LEMMA RequestFailsEdit ==
  ASSUME EditInv, NEW n \in DOMAIN sent, RequestFails(n)
  PROVE  EditInv'
<1> DEFINE said == IF sent[n].kind = "clear" THEN "ok" ELSE "failed"
           req == [sent[n] EXCEPT !.state = said]
<1>1. EditTypeOK /\ OrdersTrue /\ DraftTrue /\ CacheTrue
  BY DEF EditInv
<1>2. /\ sent[n].state = "sent" /\ odd < MaxOdd /\ odd' = odd + 1
      /\ sent' = [sent EXCEPT ![n].state = said]
      /\ UNCHANGED <<captions, dataset, listing, isError, selected, editor, edited, draft, data, fetch,
                     stale, outdated, typed>>
  BY DEF RequestFails, pageVars, queryVars
<1>3. sent \in Seq(Request) /\ sent[n] \in Request
  BY <1>1 DEF EditTypeOK
<1>4. req \in Request /\ req.kind = sent[n].kind /\ req.image = sent[n].image /\ req.text = sent[n].text
  BY <1>3 DEF Request
<1>5. sent' = [sent EXCEPT ![n] = req]
  BY <1>2, <1>3
<1> HIDE DEF req
<1>6. /\ sent' \in Seq(Request) /\ DOMAIN sent' = DOMAIN sent
      /\ \A m \in DOMAIN sent : sent'[m] = IF m = n THEN req ELSE sent[m]
  BY <1>3, <1>4, <1>5
<1>7. odd' \in 0..MaxOdd
  BY <1>1, <1>2, EditorAssumption DEF EditTypeOK
<1>8. EditTypeOK'
  BY <1>1, <1>2, <1>6, <1>7 DEF EditTypeOK
<1>9. OrdersTrue'
  BY <1>1, <1>4, <1>6 DEF OrdersTrue
<1>10. Served => Served'
  BY <1>2, <1>6 DEF Served
<1>11. DraftTrue' /\ CacheTrue'
  BY <1>1, <1>2, <1>10 DEF DraftTrue, CacheTrue
<1> QED
  BY <1>8, <1>9, <1>11 DEF EditInv

\* One step of the page and of the API.
LEMMA EditNextInv ==
  ASSUME EditInv, [EditNext]_editVars
  PROVE  EditInv'
<1>1. EditTypeOK /\ OrdersTrue /\ DraftTrue /\ CacheTrue
  BY DEF EditInv
<1>2. Nothing \in Caption
  BY DEF Caption
<1>3. DOMAIN dataset \subseteq Image
  BY <1>1, ListIs DEF EditTypeOK
<1>4. CASE RefetchCaption
  <2>1. editor.image \in Image
    BY <1>1, <1>4 DEF EditTypeOK, RefetchCaption
  <2> QED
    BY <1>4, <2>1, FetchEdit
<1>5. CASE RefetchDataset \/ ReadDataset \/ DatasetArrives \/ DatasetFails \/ Select \/ Type
  BY <1>5, PageEdit
<1>6. ASSUME NEW f \in Image, ReadCaption(f) \/ CaptionArrives(f) \/ FetchFails(f) PROVE EditInv'
  BY <1>6, FetchEdit
<1>7. CASE Save
  <2>1. editor.image \in Image /\ edited # Nothing /\ Send("save", editor.image, edited)
    BY <1>1, <1>7 DEF Save, EditTypeOK
  <2>2. edited \in Text /\ edited.of = editor.image
    BY <1>1, <2>1 DEF EditTypeOK, DraftTrue, Caption
  <2> QED
    BY <2>1, <2>2, SendEdit DEF Caption
<1>8. CASE Clear
  <2>1. editor.image \in Image /\ Send("clear", editor.image, Nothing)
    BY <1>3, <1>8 DEF Clear
  <2> QED
    BY <1>2, <2>1, SendEdit
<1>9. CASE RemoveImage
  <2>1. PICK f \in Image : Send("remove", f, Nothing)
    BY <1>3, <1>9 DEF RemoveImage
  <2> QED
    BY <1>2, <2>1, SendEdit
<1>10. CASE Prepend
  BY <1>2, <1>10, SendEdit DEF Prepend
<1>11. ASSUME NEW n \in DOMAIN sent, Serve(n) \/ RequestFails(n) \/ Answer(n) PROVE EditInv'
  BY <1>11, ServeEdit, RequestFailsEdit, AnswerEdit
<1>12. CASE UNCHANGED editVars
  <2>1. UNCHANGED <<captions, dataset, listing, isError, selected, editor, edited, draft, data, fetch,
                    stale, outdated, sent, typed, odd>>
    BY <1>12 DEF editVars, pageVars, queryVars
  <2>2. EditTypeOK'
    BY <1>1, <2>1 DEF EditTypeOK
  <2>3. OrdersTrue' /\ DraftTrue' /\ CacheTrue'
    BY <1>1, <2>1 DEF OrdersTrue, DraftTrue, CacheTrue, Served
  <2> QED
    BY <2>2, <2>3 DEF EditInv
<1> QED
  BY <1>4, <1>5, <1>6, <1>7, <1>8, <1>9, <1>10, <1>11, <1>12 DEF EditNext

\* What the editor holds and what the queries hold, for any images, texts,
\* requests and failing fetches.
THEOREM EditInvariance == EditSpec => []EditInv
<1>1. EditInit => EditInv
  BY EditInitInv
<1>2. EditInv /\ [EditNext]_editVars => EditInv'
  BY EditNextInv
<1> QED
  BY <1>1, <1>2, PTL DEF EditSpec

\* Typed text stays until its editor is done with it and lands on its image; and
\* when all is answered what is displayed is the file's.
THEOREM EditorIsTrue == EditSpec => []EditorTells
<1>1. ASSUME EditInv PROVE EditorTells
  <2>1. TypedTextKept
    BY <1>1 DEF EditInv, DraftTrue, TypedTextKept
  <2>2. CaptionFresh
    <3> SUFFICES ASSUME \A n \in DOMAIN sent : sent[n].state = "done",
                        NEW f \in DOMAIN captions \ outdated, fetch[f] = <<>>, data[f] # <<>>
                 PROVE  data[f] = <<captions[f]>> \/ (f \in stale /\ f # editor.image)
      BY DEF CaptionFresh
    <3>1. ~Served
      BY DEF Served
    <3> QED
      BY <1>1, <3>1 DEF EditInv, CacheTrue
  <2> QED
    BY <2>1, <2>2 DEF EditorTells
<1> QED
  BY <1>1, EditInvariance, PTL
=============================================================================
