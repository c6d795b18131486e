--------------------------- MODULE JobStreamProofs ---------------------------
(***************************************************************************)
(* What a page shows of its job is right, for any jobs, kills and bounds:  *)
(* whatever the socket loses, whatever answers overtake its messages and   *)
(* however often the page comes and goes.  At the end, the outputs of the  *)
(* job, which the same page displays.                                      *)
(***************************************************************************)
EXTENDS JobStream, OutputsPage, JobsProofs, SequenceTheorems

-----------------------------------------------------------------------------
(* The inductive invariant: the buffer, the lines under way, the ends told *)

\* The buffer has the last lines.
BufferInv ==
    /\ Len(buf) <= printed
    /\ \A n \in 1..Len(buf) : buf[n] = printed - Len(buf) + n
    /\ \E n \in bound.sizes : Len(buf) <= n

Subscribed == Listening /\ room /\ "subscribe" \notin ToSet(up)

\* What the page will show, wherever the last replay is.
Shows == \A i \in 0..Len(down) : Replayed(i) => \E base \in 0..printed : ShowsFrom(base, i)

ShownInv ==
    /\ room => link = "up"
    /\ Subscribed => Shows

\* Done or Failed, told to anyone, is what the row says, or the job of launch()
\* that is still to be saved; after a crash it may have remained unsaved.
EndTrue(s) ==
    s \in Finished => row[Watched] = s \/ mem[Watched] = s \/ pc[Watched] = "lost"

\* All of it, for a job that has ended under the API that started it.
Whole(s, log) == s \in Finished /\ pc[Watched] = "attached" => log = buf

ToldInv ==
    /\ \A i \in 1..Len(down) : EndTrue(down[i].status)
    /\ EndTrue(fetch.status)
    /\ EndTrue(detail.status)
    /\ \A k \in Kill : kjob[k] = Watched => EndTrue(ksaid[k])
    /\ fetch.stage = "sent" => Whole(fetch.status, fetch.log)
    /\ polled => Whole(detail.status, detail.log)

StreamInv == IInv /\ StreamTypeOK /\ BufferInv /\ ShownInv /\ ToldInv

-----------------------------------------------------------------------------
(* Sequences of messages *)

Message == [kind : {"history", "log", "status"}, lines : Lines, status : MaybeStatus]

\* What the gateway sends.
LEMMA MessagesTyped ==
    /\ \A lines \in Lines : History(lines) \in Message
    /\ \A n \in Nat : LogLine(n) \in Message
    /\ \A s \in MaybeStatus : StatusEvent(s) \in Message
<1>1. \A n \in Nat : <<n>> \in Lines /\ <<>> \in Lines
  BY DEF Lines
<1> QED
  BY <1>1 DEF Message, History, LogLine, StatusEvent, MaybeStatus

\* One element more at the end.
LEMMA AppendIs ==
    ASSUME NEW S, NEW s \in Seq(S), NEW e \in S
    PROVE  /\ Append(s, e) \in Seq(S) /\ Len(Append(s, e)) = Len(s) + 1
           /\ \A n \in 1..Len(s) : Append(s, e)[n] = s[n]
           /\ Append(s, e)[Len(s) + 1] = e
OBVIOUS

\* One element less at the beginning.
LEMMA TailIs ==
    ASSUME NEW S, NEW s \in Seq(S), s # <<>>
    PROVE  /\ Tail(s) \in Seq(S) /\ Len(s) \in Nat \ {0} /\ Len(Tail(s)) = Len(s) - 1
           /\ \A n \in 1..Len(Tail(s)) : Tail(s)[n] = s[n + 1]
           /\ Head(s) = s[1] /\ Head(s) \in S
BY HeadTailProperties

\* The places behind i in a sequence of N elements, and in one of M more.
LEMMA PlacesBehind ==
    ASSUME NEW N \in Nat, NEW M \in Nat \ {0}, NEW i \in 0..N, NEW k
    PROVE  /\ N + 1 \in (i + 1)..(N + M)
           /\ k \in (i + 1)..N => k \in (i + 1)..(N + M) /\ k \in 1..(N + M) /\ k <= N /\ k # N + 1
           /\ k \in (i + 1)..(N + M) /\ k # N + 1 /\ k \notin (i + 1)..N
                => k \in 1..(N + M) /\ k > N + 1
           /\ k \in 1..(N + M) /\ k > N + 1 => k - N \in 2..M /\ ~(k <= N)
  OBVIOUS

LEMMA ConcatElement ==
    ASSUME NEW S, NEW s \in Seq(S), NEW t \in Seq(S), NEW i \in 1..Len(s \o t)
    PROVE  /\ Len(s) \in Nat /\ Len(t) \in Nat /\ Len(s \o t) = Len(s) + Len(t)
           /\ (s \o t)[i] = IF i <= Len(s) THEN s[i] ELSE t[i - Len(s)]
BY ConcatProperties, LenProperties

LEMMA ToSetAppend ==
    ASSUME NEW S, NEW s \in Seq(S), NEW e \in S
    PROVE  e \in ToSet(Append(s, e))
BY AppendIs DEF ToSet

-----------------------------------------------------------------------------
(* The first state *)

LEMMA StreamInitInv == StreamInit => StreamInv
<1> SUFFICES ASSUME StreamInit PROVE StreamInv
  OBVIOUS
<1> USE DEF StreamInit
<1>1. IInv
  BY InitIInv
<1>2. bound.sizes \in SUBSET (Nat \ {0}) /\ bound.drops \in Nat /\ bound.moves \in Nat
  BY StreamAssumption
<1>3. StreamTypeOK
  <2>1. <<>> \in Lines /\ "none" \in MaybeStatus
    BY DEF Lines, MaybeStatus
  <2>2. fetch \in [stage : {"idle", "row", "sent"}, status : MaybeStatus, log : Lines]
    BY <2>1 DEF NoFetch
  <2>3. drops \in 0..bound.drops /\ moves \in 0..bound.moves
    BY <1>2
  <2>4. \A S : up \in Seq(S) /\ down \in Seq(S)
    BY EmptySeq
  <2>5. page \in {"new", "detail", "away"} /\ detail \in [status : MaybeStatus, log : Lines]
    BY <2>1
  <2>6. printed \in Nat /\ buf \in Lines /\ logs \in Lines /\ link \in {"down", "up", "off"}
    BY <2>1
  <2>7. size \in bound.sizes /\ bound \in Bounds /\ room \in BOOLEAN /\ polled \in BOOLEAN
          /\ seeded \in BOOLEAN /\ told \subseteq Kill
    OBVIOUS
  <2> QED
    BY <2>2, <2>3, <2>4, <2>5, <2>6, <2>7 DEF StreamTypeOK
<1>4. BufferInv
  BY <1>2 DEF BufferInv
<1>5. ShownInv
  BY DEF ShownInv, Subscribed
<1>6. ToldInv
  BY DEF ToldInv, EndTrue, Whole, Init, NoFetch, Finished
<1> QED
  BY <1>1, <1>3, <1>4, <1>5, <1>6 DEF StreamInv

-----------------------------------------------------------------------------
(* The end of a job *)

\* Who has told of an end has an object that says the same, or the API died.
LEMMA EndIs ==
    ASSUME IInv, NEW s \in Finished, EndTrue(s)
    PROVE  pc[Watched] = "lost" \/ (pc[Watched] = "attached" /\ mem[Watched] = s)
<1>1. TypeOK /\ MemInv(Watched) /\ RowInv(Watched)
  BY StreamAssumption DEF IInv, JobInv
<1>2. pc[Watched] \in CreateStage /\ row[Watched] \in MaybeStatus
        /\ mem[Watched] \in {"none", "running"} \cup Finished
  BY <1>1, StreamAssumption DEF TypeOK
<1> QED
  BY <1>1, <1>2 DEF EndTrue, MemInv, RowInv, CreateStage, InFlight, Finished

\* An object that is finished stays as it is while the API lives, and what it
\* does to the log is over.
LEMMA EndStands ==
    ASSUME IInv, Next, pc[Watched] = "attached", mem[Watched] \in Finished
    PROVE  \/ pc'[Watched] = "lost" /\ api = "up" /\ api' = "down"
           \/ pc'[Watched] = "attached" /\ mem'[Watched] = mem[Watched] /\ ~ErrorHandled
                /\ ~(api = "up" /\ api' = "down")
<1> DEFINE w == Watched
<1>1. w \in Job /\ TypeOK /\ MemInv(w) /\ RowInv(w) /\ EndInv(w) /\ DownInv
  BY StreamAssumption DEF IInv, JobInv
<1>2. api = "up"
  BY <1>1 DEF DownInv, TypeOK
<1>3. ASSUME ApiDies PROVE pc'[w] = "lost" /\ api = "up" /\ api' = "down"
  BY <1>1, <1>3 DEF ApiDies
<1>4. ASSUME NEW j \in Job, CreateStep(j) PROVE pc'[w] = "attached" /\ mem'[w] = mem[w] /\ flush' = flush /\ api' = api
  BY <1>1, <1>4 DEF CreateStep, CreateAccept, CreateRefuse, InsertRow, Launch, SaveRunning,
     SaveRunningFails, Attach, TypeOK, createVars
<1>5. ASSUME NEW k \in Kill, KillStep(k) PROVE UNCHANGED <<pc, mem, flush, api>>
  BY <1>5 DEF KillStep, KillLookup, KillSignal, KillMiss, KillSaved, KillSaveFails, KillTimer,
     KillAnswer, createVars
<1>6. ASSUME NEW j \in Job, Close(j)
      PROVE  pc' = pc /\ mem'[w] = mem[w] /\ <<w, "error">> \notin flush' \ flush /\ api' = api
  <2>1. CASE j = w
    <3>1. mem[w] = "failed" /\ os[w] = "nonzero"
      BY <1>1, <1>6, <2>1 DEF Close, MemInv
    <3> QED
      BY <1>1, <1>6, <2>1, <3>1 DEF Close, Outcome, TypeOK
  <2>2. CASE j # w
    BY <1>1, <1>6, <2>2 DEF Close, TypeOK
  <2> QED
    BY <2>1, <2>2
<1>7. ASSUME NEW j \in Job, SpawnError(j)
      PROVE  pc' = pc /\ mem'[w] = mem[w] /\ <<w, "error">> \notin flush' \ flush /\ api' = api
  <2>1. j # w
    BY <1>1, <1>7 DEF SpawnError, MemInv
  <2> QED
    BY <1>1, <1>7, <2>1 DEF SpawnError, TypeOK
<1>8. ASSUME NEW j \in Job, NEW v \in {"close", "error"}, FlushSaved(j, v)
      PROVE  pc' = pc /\ mem' = mem /\ <<w, "error">> \notin flush' \ flush /\ api' = api
  BY <1>8 DEF FlushSaved
<1>9. ASSUME NEW j \in Job, Exit(j) \/ CloseUnheard(j) PROVE UNCHANGED <<pc, mem, flush, api>>
  BY <1>9 DEF Exit, CloseUnheard, createVars
<1>10. ASSUME NEW j \in Job, ProcessStep(j)
       PROVE  \/ ApiDies
              \/ pc' = pc /\ mem'[w] = mem[w] /\ <<w, "error">> \notin flush' \ flush /\ api' = api
  BY <1>6, <1>7, <1>8, <1>9, <1>10 DEF ProcessStep, SpawnErrorUnheard, FlushFails
<1>11. ~Restart
  BY <1>2 DEF Restart
<1>12. ErrorHandled <=> <<w, "error">> \in flush' \ flush
  BY DEF ErrorHandled
<1> HIDE DEF w
<1>13. \/ pc'[w] = "lost" /\ api = "up" /\ api' = "down"
       \/ pc'[w] = "attached" /\ mem'[w] = mem[w] /\ <<w, "error">> \notin flush' \ flush
            /\ api' = api
  BY <1>3, <1>4, <1>5, <1>10, <1>11 DEF Next, Crash, w
<1> QED
  BY <1>2, <1>12, <1>13 DEF w

\* What was told stays true.
LEMMA EndStays ==
    ASSUME IInv, Next, NEW s, EndTrue(s)
    PROVE  EndTrue(s)'
<1> SUFFICES ASSUME s \in Finished PROVE mem'[Watched] = s \/ pc'[Watched] = "lost"
  BY DEF EndTrue
<1>1. CASE pc[Watched] = "lost"
  <2>1. Watched \in Job /\ TypeOK
    BY StreamAssumption DEF IInv
  <2>2. ASSUME ApiDies PROVE pc'[Watched] = "lost"
    BY <1>1, <2>1, <2>2 DEF ApiDies
  <2>3. ASSUME NEW j \in Job, CreateStep(j) PROVE pc'[Watched] = "lost"
    BY <1>1, <2>1, <2>3 DEF CreateStep, CreateAccept, CreateRefuse, InsertRow, Launch, SaveRunning,
       SaveRunningFails, Attach, TypeOK
  <2> QED
    BY <1>1, <2>2, <2>3 DEF Next, Crash, Restart, createVars, ProcessStep, Exit, CloseUnheard, Close,
       SpawnError, SpawnErrorUnheard, FlushSaved, FlushFails, KillStep, KillLookup, KillSignal,
       KillMiss, KillSaved, KillSaveFails, KillTimer, KillAnswer
<1>2. CASE pc[Watched] = "attached" /\ mem[Watched] = s
  BY <1>2, EndStands
<1> QED
  BY <1>1, <1>2, EndIs

\* And it has all of the log, if it had.
LEMMA WholeStays ==
    ASSUME IInv, Next, NEW s, EndTrue(s), NEW log, Whole(s, log),
           ~ErrorHandled /\ ~(api = "up" /\ api' = "down") => buf' = buf
    PROVE  Whole(s, log)'
<1> SUFFICES ASSUME s \in Finished, pc'[Watched] = "attached" PROVE log = buf'
  BY DEF Whole
<1>1. pc[Watched] # "lost"
  <2> SUFFICES ASSUME pc[Watched] = "lost" PROVE FALSE
    OBVIOUS
  <2>1. Watched \in Job /\ TypeOK
    BY StreamAssumption DEF IInv
  <2>2. ~ApiDies
    BY <2>1 DEF ApiDies
  <2>3. ASSUME NEW j \in Job, CreateStep(j) PROVE FALSE
    BY <2>1, <2>3 DEF CreateStep, CreateAccept, CreateRefuse, InsertRow, Launch, SaveRunning,
       SaveRunningFails, Attach, TypeOK
  <2> QED
    BY <2>2, <2>3 DEF Next, Crash, Restart, createVars, ProcessStep, Exit, CloseUnheard, Close,
       SpawnError, SpawnErrorUnheard, FlushSaved, FlushFails, KillStep, KillLookup, KillSignal,
       KillMiss, KillSaved, KillSaveFails, KillTimer, KillAnswer
<1>2. pc[Watched] = "attached" /\ mem[Watched] = s
  BY <1>1, EndIs
<1> QED
  BY <1>2, EndStands DEF Whole

\* What is announced, and what a kill is answered, is true when it is said.
LEMMA AnnouncedTrue == ASSUME IInv' PROVE EndTrue(announced[Watched])'
BY StreamAssumption DEF IInv, JobInv, AnnounceInv, EndTrue

LEMMA AnswersTrue ==
    ASSUME IInv, Next, NEW k \in Kill, kjob[k] = Watched => EndTrue(ksaid[k])
    PROVE  (kjob[k] = Watched => EndTrue(ksaid[k]))'
<1>1. kjob' = kjob
  BY DEF Next, CreateStep, CreateAccept, CreateRefuse, InsertRow, Launch, SaveRunning,
     SaveRunningFails, Attach, ProcessStep, Exit, CloseUnheard, Close, SpawnError, SpawnErrorUnheard,
     FlushSaved, FlushFails, ApiDies, Crash, Restart, KillStep, KillLookup, KillSignal, KillMiss,
     KillSaved, KillSaveFails, KillTimer, KillAnswer
<1> SUFFICES ASSUME kjob[k] = Watched PROVE EndTrue(ksaid[k])'
  BY <1>1
<1>2. CASE KillAnswer(k)
  <2>1. ksaid'[k] = row[Watched] /\ row' = row
    BY <1>2 DEF KillAnswer, IInv, TypeOK
  <2> QED
    BY <2>1 DEF EndTrue
<1>3. CASE ~KillAnswer(k)
  <2>1. ksaid'[k] = ksaid[k]
    <3>1. ASSUME NEW i \in Kill, KillStep(i) PROVE ksaid'[k] = ksaid[k]
      BY <1>3, <3>1 DEF KillStep, KillLookup, KillSignal, KillMiss, KillSaved, KillSaveFails, KillTimer,
         KillAnswer, IInv, TypeOK
    <3> QED
      BY <3>1 DEF Next, CreateStep, CreateAccept, CreateRefuse, InsertRow, Launch, SaveRunning,
         SaveRunningFails, Attach, ProcessStep, Exit, CloseUnheard, Close, SpawnError,
         SpawnErrorUnheard, FlushSaved, FlushFails, ApiDies, Crash, Restart, killVars
  <2>2. EndTrue(ksaid[k])
    OBVIOUS
  <2>3. \A s : EndTrue(s) => EndTrue(s)'
    BY EndStays
  <2> QED
    BY <2>1, <2>2, <2>3 DEF EndTrue
<1> QED
  BY <1>2, <1>3

-----------------------------------------------------------------------------
(* The buffer and the messages behind it *)

\* appendLog() keeps the last lines.
LEMMA PushIs ==
    ASSUME StreamTypeOK, BufferInv, printed' = printed + 1, buf' = Push(buf, printed'),
           UNCHANGED bound
    PROVE  buf' \in Lines /\ BufferInv' /\ Len(buf') <= Len(buf) + 1
<1> DEFINE longer == Append(buf, printed + 1)
           rest == Tail(longer)
           L == Len(buf)
<1>1. /\ buf \in Seq(Nat) /\ printed \in Nat /\ L \in Nat
      /\ size \in bound.sizes /\ bound.sizes \subseteq Nat \ {0}
  <2>1. buf \in Seq(Nat) /\ printed \in Nat /\ size \in bound.sizes /\ bound \in Bounds
    BY DEF StreamTypeOK, Lines
  <2>2. bound.sizes \subseteq Nat \ {0}
    BY <2>1, StreamAssumption
  <2>3. L \in Nat
    BY <2>1, LenProperties
  <2> QED
    BY <2>1, <2>2, <2>3
<1>2. /\ longer \in Seq(Nat) /\ Len(longer) = L + 1
      /\ \A n \in 1..L : longer[n] = buf[n]
      /\ longer[L + 1] = printed + 1
  BY <1>1, AppendIs
<1>3. /\ rest \in Seq(Nat) /\ Len(rest) = L
      /\ \A n \in 1..L : rest[n] = longer[n + 1]
  <2>1. longer # <<>>
    BY <1>1, <1>2
  <2> HIDE DEF longer, L
  <2>2. rest \in Seq(Nat) /\ Len(rest) = Len(longer) - 1
          /\ \A n \in 1..Len(rest) : rest[n] = longer[n + 1]
    BY <1>2, <2>1, TailIs
  <2> HIDE DEF rest
  <2>3. Len(rest) = L
    BY <1>1, <1>2, <2>2
  <2> QED
    BY <2>2, <2>3
<1>4. L <= printed /\ \A n \in 1..L : buf[n] = printed - L + n
  BY DEF BufferInv
<1>5. PICK m \in bound.sizes : L <= m
  BY DEF BufferInv
<1>6. buf' = IF Len(longer) > size THEN rest ELSE longer
  BY DEF Push
<1> HIDE DEF longer, rest, L
<1>7. \A n \in 1..(L + 1) : longer[n] = printed' - (L + 1) + n
  BY <1>1, <1>2, <1>4
<1>8. CASE L + 1 > size
  <2>1. buf' = rest
    BY <1>2, <1>6, <1>8
  <2>2. ASSUME NEW n \in 1..L PROVE rest[n] = printed' - L + n
    <3>1. n + 1 \in 1..(L + 1) /\ printed' - (L + 1) + (n + 1) = printed' - L + n
      BY <1>1
    <3>2. rest[n] = longer[n + 1]
      BY <1>3
    <3>3. longer[n + 1] = printed' - (L + 1) + (n + 1)
      BY <1>7, <3>1
    <3> QED
      BY <3>1, <3>2, <3>3
  <2>3. L <= printed'
    BY <1>1, <1>4
  <2>4. buf' \in Lines /\ Len(buf') = L
    BY <1>3, <2>1 DEF Lines
  <2>5. Len(buf') <= Len(buf) + 1 /\ L <= m
    BY <1>1, <1>5, <2>4 DEF L
  <2> QED
    BY <1>5, <2>1, <2>2, <2>3, <2>4, <2>5 DEF BufferInv
<1>9. CASE ~(L + 1 > size)
  <2>1. buf' = longer
    BY <1>2, <1>6, <1>9
  <2>2. L + 1 <= printed' /\ L + 1 <= size
    BY <1>1, <1>4, <1>9
  <2>3. buf' \in Lines /\ Len(buf') = L + 1
    BY <1>2, <2>1 DEF Lines
  <2>4. Len(buf') <= Len(buf) + 1
    BY <1>1, <2>3 DEF L
  <2> QED
    BY <1>1, <1>7, <2>1, <2>2, <2>3, <2>4 DEF BufferInv
<1> QED
  BY <1>1, <1>8, <1>9

\* Events of the status do not concern the lines.
LEMMA ShowsQuiet ==
    ASSUME StreamTypeOK, Shows, NEW m \in Seq(Message), down' = down \o m,
           \A k \in 1..Len(m) : m[k].kind = "status", UNCHANGED <<printed, buf, logs>>
    PROVE  Shows'
<1>1. /\ down \in Seq(Message) /\ Len(down) \in Nat /\ Len(m) \in Nat
      /\ Len(down') = Len(down) + Len(m)
      /\ \A k \in 1..Len(down') :
            down'[k] = IF k <= Len(down) THEN down[k] ELSE m[k - Len(down)]
  BY ConcatProperties, LenProperties DEF StreamTypeOK, Message
<1> SUFFICES ASSUME NEW i \in 0..Len(down'), Replayed(i)'
             PROVE  \E base \in 0..printed' : ShowsFrom(base, i)'
  BY DEF Shows
<1>2. \A k \in 1..Len(down') : k > Len(down) => down'[k].kind = "status"
  BY <1>1
<1>3. i \in 0..Len(down)
  BY <1>1, <1>2 DEF Replayed
<1>4. Replayed(i)
  BY <1>1, <1>3 DEF Replayed
<1>5. PICK base \in 0..printed : ShowsFrom(base, i)
  BY <1>3, <1>4 DEF Shows
<1>6. Start(i)' = Start(i)
  BY <1>1, <1>3 DEF Start
<1>7. After(i)' = After(i)
  <2>1. ASSUME NEW k PROVE k \in After(i)' <=> k \in After(i)
    <3>1. k \in (i + 1)..Len(down)
            => k \in (i + 1)..Len(down') /\ k \in 1..Len(down') /\ k <= Len(down)
      BY <1>1, <1>3
    <3>2. k \in (i + 1)..Len(down') => k \in 1..Len(down') /\ (k \in (i + 1)..Len(down) \/ k > Len(down))
      BY <1>1, <1>3
    <3>3. ASSUME k \in (i + 1)..Len(down) PROVE down'[k] = down[k]
      BY <1>1, <3>1, <3>3
    <3> QED
      BY <1>2, <3>1, <3>2, <3>3 DEF After
  <2> QED
    BY <2>1
<1>8. \A k \in After(i) : down'[k] = down[k]
  BY <1>1, <1>3 DEF After
<1> DEFINE seen == base + Len(Start(i))
<1>9. /\ seen' <= printed' /\ base + Len(buf') <= printed'
      /\ \A n \in 1..Len(Start(i)') : Start(i)'[n] = base + n
  BY <1>5, <1>6 DEF ShowsFrom
<1>10. \A n \in (seen' + 1)..printed' : \E k \in After(i)' : down'[k] = LogLine(n)
  <2>1. \A n \in (seen + 1)..printed : \E k \in After(i) : down[k] = LogLine(n)
    BY <1>5 DEF ShowsFrom
  <2>2. seen' = seen
    BY <1>6
  <2> HIDE DEF seen
  <2> QED
    BY <1>7, <1>8, <2>1, <2>2
<1>11. \A k \in After(i)' : \E n \in (seen' + 1)..printed' : down'[k] = LogLine(n)
  <2>1. \A k \in After(i) : \E n \in (seen + 1)..printed : down[k] = LogLine(n)
    BY <1>5 DEF ShowsFrom
  <2>2. seen' = seen
    BY <1>6
  <2> HIDE DEF seen
  <2> QED
    BY <1>7, <1>8, <2>1, <2>2
<1>12. \A k, l \in After(i)' : k < l => down'[k].lines[1] < down'[l].lines[1]
  <2>1. \A k, l \in After(i) : k < l => down[k].lines[1] < down[l].lines[1]
    BY <1>5 DEF ShowsFrom
  <2> QED
    BY <1>7, <1>8, <2>1
<1>13. ShowsFrom(base, i)'
  BY <1>9, <1>10, <1>11, <1>12 DEF ShowsFrom
<1> QED
  BY <1>13

\* The next line goes to the room.
LEMMA ShowsLine ==
    ASSUME StreamTypeOK, Shows, NEW m \in Seq(Message), down' = down \o m,
           Len(m) > 0, printed' = printed + 1, m[1] = LogLine(printed + 1),
           \A k \in 2..Len(m) : m[k].kind = "status",
           Len(buf') \in Nat, Len(buf') <= Len(buf) + 1, UNCHANGED logs
    PROVE  Shows'
<1> DEFINE N == Len(down)
           M == Len(m)
<1>1. /\ down \in Seq(Message) /\ N \in Nat /\ M \in Nat \ {0} /\ printed \in Nat
      /\ Len(buf) \in Nat
  BY LenProperties DEF StreamTypeOK, Message, Lines
<1>2. Len(down') = N + M /\ \A k \in 1..(N + M) : down'[k] = IF k <= N THEN down[k] ELSE m[k - N]
  BY <1>1, ConcatProperties
<1> HIDE DEF N
<1>3. down'[N + 1] = LogLine(printed + 1)
  <2>1. N + 1 \in 1..(N + M) /\ ~(N + 1 <= N) /\ (N + 1) - N = 1
    BY <1>1
  <2> QED
    BY <1>2, <2>1
<1>4. ASSUME NEW k \in 1..(N + M), k > N + 1 PROVE down'[k].kind = "status"
  <2>1. k - N \in 2..M /\ ~(k <= N)
    BY <1>1, <1>4, PlacesBehind
  <2> QED
    BY <1>2, <2>1
<1> HIDE DEF M
<1>5. down'[N + 1].kind = "log" /\ down'[N + 1].lines[1] = printed + 1
  BY <1>3 DEF LogLine
<1> SUFFICES ASSUME NEW i \in 0..(N + M), Replayed(i)'
             PROVE  \E base \in 0..printed' : ShowsFrom(base, i)'
  BY <1>2 DEF Shows
<1>6. i \in 0..N
  <2> SUFFICES ASSUME i > N PROVE FALSE
    BY <1>1
  <2>1. i \in Nat /\ i # 0 /\ i \in 1..(N + M)
    BY <1>1
  <2>2. down'[i].kind = "history"
    BY <2>1 DEF Replayed
  <2>3. CASE i = N + 1
    BY <1>5, <2>2, <2>3
  <2>4. CASE i > N + 1
    BY <1>4, <2>1, <2>2, <2>4
  <2> QED
    BY <1>1, <2>1, <2>3, <2>4
<1>7. Replayed(i)
  <2>1. i # 0 => down[i].kind = "history"
    BY <1>1, <1>2, <1>6 DEF Replayed
  <2>2. ASSUME NEW k \in (i + 1)..N PROVE down[k].kind # "history"
    <3>1. k \in (i + 1)..(N + M) /\ k \in 1..(N + M) /\ k <= N
      BY <1>1, <1>6, PlacesBehind
    <3> QED
      BY <1>2, <3>1 DEF Replayed
  <2> QED
    BY <2>1, <2>2 DEF Replayed, N
<1>8. PICK base \in 0..printed : ShowsFrom(base, i)
  BY <1>6, <1>7 DEF Shows, N
<1>9. Start(i)' = Start(i)
  <2>1. ASSUME i # 0 PROVE down'[i] = down[i]
    <3>1. i \in 1..(N + M) /\ i <= N
      BY <1>1, <1>6, <2>1
    <3> QED
      BY <1>2, <3>1
  <2> QED
    BY <2>1 DEF Start
<1>10. Len(Start(i)) \in Nat
  <2>1. Start(i) \in Lines
    <3>1. CASE i = 0
      BY <3>1 DEF Start, StreamTypeOK
    <3>2. CASE i # 0
      <4>1. i \in 1..Len(down)
        BY <1>1, <1>6, <3>2 DEF N
      <4>2. down[i] \in Message
        BY <1>1, <4>1, ElementOfSeq
      <4> QED
        BY <3>2, <4>2 DEF Start, Message
    <3> QED
      BY <3>1, <3>2
  <2> QED
    BY <2>1, LenProperties DEF Lines
<1>11. ASSUME NEW k PROVE k \in After(i)' <=> k \in After(i) \/ k = N + 1
  <2>1. k \in After(i)' <=> k \in (i + 1)..(N + M) /\ down'[k].kind = "log"
    BY <1>2 DEF After
  <2>2. k \in After(i) <=> k \in (i + 1)..N /\ down[k].kind = "log"
    BY DEF After, N
  <2>3. CASE k = N + 1
    <3>1. N + 1 \in (i + 1)..(N + M)
      BY <1>1, <1>6, PlacesBehind
    <3> QED
      BY <1>5, <2>1, <2>3, <3>1
  <2>4. CASE k \in (i + 1)..N
    <3>1. k \in (i + 1)..(N + M) /\ k \in 1..(N + M) /\ k <= N /\ k # N + 1
      BY <1>1, <1>6, <2>4, PlacesBehind
    <3>2. down'[k] = down[k]
      BY <1>2, <3>1
    <3> QED
      BY <2>1, <2>2, <2>4, <3>1, <3>2
  <2>5. CASE k # N + 1 /\ k \notin (i + 1)..N
    <3>1. ASSUME k \in (i + 1)..(N + M) PROVE k \in 1..(N + M) /\ k > N + 1
      BY <1>1, <1>6, <2>5, <3>1, PlacesBehind
    <3> QED
      BY <1>4, <2>1, <2>2, <2>5, <3>1
  <2> QED
    BY <2>3, <2>4, <2>5
<1>12. ASSUME NEW k \in After(i) PROVE down'[k] = down[k] /\ k \in 1..N
  BY <1>1, <1>2, <1>6 DEF After, N
<1> DEFINE seen == base + Len(Start(i))
<1>13. seen \in Nat /\ seen <= printed /\ base + Len(buf') <= printed'
  BY <1>1, <1>8, <1>10 DEF ShowsFrom
<1>14. ASSUME NEW n \in (seen + 1)..printed' PROVE \E k \in After(i)' : down'[k] = LogLine(n)
  <2>1. CASE n = printed + 1
    BY <1>3, <1>11, <2>1
  <2>2. CASE n # printed + 1
    <3>1. n \in (seen + 1)..printed
      BY <1>1, <1>13, <2>2
    <3>2. PICK k \in After(i) : down[k] = LogLine(n)
      BY <1>8, <3>1 DEF ShowsFrom
    <3> QED
      BY <1>11, <1>12, <3>2
  <2> QED
    BY <2>1, <2>2
<1>15. ASSUME NEW k \in After(i)' PROVE \E n \in (seen + 1)..printed' : down'[k] = LogLine(n)
  <2>1. CASE k \in After(i)
    <3>1. PICK n \in (seen + 1)..printed : down[k] = LogLine(n)
      BY <1>8, <2>1 DEF ShowsFrom
    <3>2. n \in (seen + 1)..printed'
      BY <1>1, <1>13
    <3> QED
      BY <1>12, <2>1, <3>1, <3>2
  <2>2. CASE k = N + 1
    <3>1. printed + 1 \in (seen + 1)..printed'
      BY <1>1, <1>13
    <3> QED
      BY <1>3, <2>2, <3>1
  <2> QED
    BY <1>11, <2>1, <2>2
<1>16. ASSUME NEW k \in After(i) PROVE down'[k].lines[1] \in Nat /\ down'[k].lines[1] <= printed /\ k <= N
  <2>1. PICK n \in (seen + 1)..printed : down[k] = LogLine(n)
    BY <1>8 DEF ShowsFrom
  <2>2. down'[k] = LogLine(n)
    BY <1>12, <2>1
  <2>3. down'[k].lines[1] = n
    BY <2>2 DEF LogLine
  <2> QED
    BY <1>1, <1>12, <1>13, <2>3
<1>17. ASSUME NEW k \in After(i)', NEW l \in After(i)', k < l
       PROVE  down'[k].lines[1] < down'[l].lines[1]
  <2>1. CASE k \in After(i) /\ l \in After(i)
    <3>1. down[k].lines[1] < down[l].lines[1]
      BY <1>8, <1>17, <2>1 DEF ShowsFrom
    <3> QED
      BY <1>12, <2>1, <3>1
  <2>2. CASE k \in After(i) /\ l = N + 1
    <3>1. down'[k].lines[1] \in Nat /\ down'[k].lines[1] <= printed
      BY <1>16, <2>2
    <3>2. down'[l].lines[1] = printed + 1
      BY <1>5, <2>2
    <3>3. \A a, b : a \in Nat /\ a <= printed /\ b = printed + 1 => a < b
      BY <1>1
    <3> QED
      BY <3>1, <3>2, <3>3
  <2>3. CASE k = N + 1
    <3>1. l <= N + 1 /\ l \in Nat
      BY <1>1, <1>11, <1>12, <1>16
    <3> QED
      BY <1>1, <1>17, <2>3, <3>1
  <2> QED
    BY <1>11, <2>1, <2>2, <2>3
<1>18. \A n \in 1..Len(Start(i)) : Start(i)[n] = base + n
  BY <1>8 DEF ShowsFrom
<1>19. base \in 0..printed' /\ seen <= printed'
  BY <1>1, <1>13
<1>20. ShowsFrom(base, i)'
  BY <1>9, <1>13, <1>14, <1>15, <1>17, <1>18, <1>19 DEF ShowsFrom
<1> QED
  BY <1>19, <1>20

\* The replay of the buffer: what came before does not matter any more.
LEMMA ShowsReplay ==
    ASSUME StreamTypeOK, BufferInv, down' = Append(down, History(buf)),
           UNCHANGED <<printed, buf>>
    PROVE  Shows'
<1>1. /\ down \in Seq(Message) /\ History(buf) \in Message /\ printed \in Nat /\ Len(buf) \in Nat
      /\ Len(down) \in Nat
  BY MessagesTyped, LenProperties DEF StreamTypeOK, Message, Lines
<1>2. Len(down') = Len(down) + 1 /\ down'[Len(down) + 1] = History(buf)
  BY <1>1, AppendIs
<1>3. down'[Len(down) + 1].kind = "history" /\ down'[Len(down) + 1].lines = buf
  BY <1>2 DEF History
<1> SUFFICES ASSUME NEW i \in 0..Len(down'), Replayed(i)'
             PROVE  \E base \in 0..printed' : ShowsFrom(base, i)'
  BY DEF Shows
<1>4. i = Len(down) + 1
  BY <1>1, <1>2, <1>3 DEF Replayed
<1>5. Start(i)' = buf /\ After(i)' = {}
  BY <1>1, <1>2, <1>3, <1>4 DEF Start, After
<1>6. printed - Len(buf) \in 0..printed
  BY <1>1 DEF BufferInv
<1>7. ShowsFrom(printed - Len(buf), i)'
  BY <1>1, <1>5, <1>6 DEF ShowsFrom, BufferInv
<1> QED
  BY <1>6, <1>7

\* A message of the wire arrives at a page that listens.
LEMMA ShowsArrival ==
    ASSUME StreamTypeOK, Shows, down # <<>>, down' = Tail(down),
           logs' = IF Head(down).kind # "status" THEN Show(Head(down)) ELSE logs,
           UNCHANGED <<printed, buf>>
    PROVE  Shows'
<1> DEFINE N == Len(down)
           t == Tail(down)
           L == Len(logs)
<1>1. /\ down \in Seq(Message) /\ printed \in Nat /\ logs \in Seq(Nat) /\ L \in Nat
      /\ Len(buf) \in Nat
  BY LenProperties DEF StreamTypeOK, Message, Lines
<1>2. /\ N \in Nat \ {0} /\ Len(t) = N - 1 /\ \A k \in 1..Len(t) : t[k] = down[k + 1]
      /\ Head(down) = down[1] /\ down[1] \in Message
  BY <1>1, TailIs
<1> HIDE DEF N, t
<1>3. Len(down') = N - 1 /\ \A k \in 1..(N - 1) : down'[k] = down[k + 1]
  BY <1>2 DEF t
<1> SUFFICES ASSUME NEW i \in 0..(N - 1), Replayed(i)'
             PROVE  \E base \in 0..printed' : ShowsFrom(base, i)'
  BY <1>3 DEF Shows
<1>4. \A k \in (i + 1)..(N - 1) : k \in 1..(N - 1) /\ k + 1 \in (i + 2)..N
  BY <1>2
<1>5. \A k \in (i + 2)..N : k - 1 \in (i + 1)..(N - 1) /\ (k - 1) + 1 = k
  BY <1>2
<1>6. ASSUME NEW k \in (i + 2)..N PROVE down[k].kind # "history"
  <2>1. k - 1 \in (i + 1)..(N - 1) /\ down'[k - 1] = down[k]
    BY <1>3, <1>4, <1>5
  <2> QED
    BY <1>3, <2>1 DEF Replayed
<1>7. ASSUME NEW k \in After(i)'
      PROVE  k \in (i + 1)..(N - 1) /\ down'[k] = down[k + 1] /\ down[k + 1].kind = "log"
  BY <1>3, <1>4 DEF After
<1>8. ASSUME NEW k \in (i + 2)..N, down[k].kind = "log"
      PROVE  k - 1 \in After(i)' /\ down'[k - 1] = down[k]
  BY <1>3, <1>4, <1>5, <1>8 DEF After
<1>9. CASE i # 0 \/ down[1].kind = "history"
  <2>1. Replayed(i + 1)
    <3>1. down[i + 1].kind = "history"
      <4>1. CASE i # 0
        BY <1>2, <1>3, <4>1 DEF Replayed
      <4>2. CASE i = 0
        BY <1>9, <4>2
      <4> QED
        BY <4>1, <4>2
    <3> QED
      BY <1>6, <3>1 DEF Replayed, N
  <2>2. PICK base \in 0..printed : ShowsFrom(base, i + 1)
    <3>1. i + 1 \in 0..N
      BY <1>2
    <3> QED
      BY <2>1, <3>1 DEF Shows, N
  <2>3. Start(i)' = Start(i + 1)
    <3>1. CASE i # 0
      BY <1>2, <1>3, <3>1 DEF Start
    <3>2. CASE i = 0
      BY <1>2, <1>9, <3>2 DEF Start, Show
    <3> QED
      BY <3>1, <3>2
  <2>4. ASSUME NEW k PROVE k \in After(i + 1) <=> k \in (i + 2)..N /\ down[k].kind = "log"
    BY DEF After, N
  <2> DEFINE seen == base + Len(Start(i + 1))
  <2>5. ASSUME NEW n \in (seen + 1)..printed PROVE \E k \in After(i)' : down'[k] = LogLine(n)
    <3>1. PICK k \in After(i + 1) : down[k] = LogLine(n)
      BY <2>2 DEF ShowsFrom
    <3> QED
      BY <1>8, <2>4, <3>1
  <2>6. ASSUME NEW k \in After(i)'
        PROVE  k + 1 \in After(i + 1) /\ \E n \in (seen + 1)..printed : down'[k] = LogLine(n)
    <3>1. k + 1 \in After(i + 1)
      BY <1>4, <1>7, <2>4
    <3>2. \A l \in After(i + 1) : \E n \in (seen + 1)..printed : down[l] = LogLine(n)
      BY <2>2 DEF ShowsFrom
    <3>3. PICK n \in (seen + 1)..printed : down[k + 1] = LogLine(n)
      BY <3>1, <3>2
    <3> QED
      BY <1>7, <3>1, <3>3
  <2>7. ASSUME NEW k \in After(i)', NEW l \in After(i)', k < l
        PROVE  down'[k].lines[1] < down'[l].lines[1]
    <3>1. k \in Nat /\ l \in Nat
      BY <1>2, <1>7
    <3>2. k + 1 \in After(i + 1) /\ l + 1 \in After(i + 1) /\ k + 1 < l + 1
      BY <2>6, <2>7, <3>1
    <3>3. down[k + 1].lines[1] < down[l + 1].lines[1]
      BY <2>2, <3>2 DEF ShowsFrom
    <3> QED
      BY <1>7, <3>3
  <2>8. ShowsFrom(base, i)'
    BY <2>2, <2>3, <2>5, <2>6, <2>7 DEF ShowsFrom
  <2> QED
    BY <2>8
<1>10. CASE i = 0 /\ down[1].kind # "history"
  <2>1. Replayed(0)
    <3>1. \A k \in 1..N : k = 1 \/ k \in 2..N
      BY <1>2
    <3> QED
      BY <1>6, <1>10, <3>1 DEF Replayed, N
  <2>2. PICK base \in 0..printed : ShowsFrom(base, 0)
    BY <1>2, <2>1 DEF Shows, N
  <2>3. Start(0) = logs /\ Start(i)' = logs'
    BY <1>10 DEF Start
  <2>4. \A k : k \in After(0) <=> k \in 1..N /\ down[k].kind = "log"
    BY DEF After, N
  <2> DEFINE seen == base + L
  <2>5. /\ seen \in Nat /\ seen <= printed /\ base + Len(buf) <= printed /\ base \in Nat
        /\ \A n \in 1..L : logs[n] = base + n
        /\ \A n \in (seen + 1)..printed : \E k \in After(0) : down[k] = LogLine(n)
        /\ \A k \in After(0) : \E n \in (seen + 1)..printed : down[k] = LogLine(n)
        /\ \A k, l \in After(0) : k < l => down[k].lines[1] < down[l].lines[1]
    BY <1>1, <2>2, <2>3 DEF ShowsFrom
  <2> HIDE DEF L
  <2>6. ASSUME NEW k \in After(i)' PROVE k + 1 \in After(0) /\ down'[k] = down[k + 1] /\ k \in Nat \ {0}
    <3>1. k \in Nat \ {0} /\ k + 1 \in 1..N
      BY <1>2, <1>7, <1>10
    <3>2. k + 1 \in After(0)
      BY <1>7, <2>4, <3>1
    <3> QED
      BY <1>7, <3>1, <3>2
  <2>7. ASSUME NEW k \in After(0), k # 1 PROVE k - 1 \in After(i)' /\ down'[k - 1] = down[k] /\ 1 < k
    <3>1. k \in (i + 2)..N /\ 1 < k
      BY <1>2, <1>10, <2>4, <2>7
    <3> QED
      BY <1>8, <2>4, <3>1
  <2>8. ASSUME NEW k \in After(i)', NEW l \in After(i)', k < l
        PROVE  down'[k].lines[1] < down'[l].lines[1]
    <3>1. k + 1 < l + 1
      BY <2>6, <2>8
    <3> QED
      BY <2>5, <2>6, <3>1
  <2>9. CASE down[1].kind = "status"
    <3>1. logs' = logs /\ 1 \notin After(0)
      BY <1>2, <2>4, <2>9
    <3>2. \A n \in (seen + 1)..printed : \E k \in After(i)' : down'[k] = LogLine(n)
      BY <2>5, <2>7, <3>1
    <3>3. ASSUME NEW k \in After(i)' PROVE \E n \in (seen + 1)..printed : down'[k] = LogLine(n)
      <4>1. PICK n \in (seen + 1)..printed : down[k + 1] = LogLine(n)
        BY <2>5, <2>6
      <4> QED
        BY <2>6, <4>1
    <3>4. /\ Start(i)' = logs /\ base + Len(logs) = seen /\ Len(logs) = L
      BY <2>3, <3>1 DEF L
    <3> HIDE DEF seen
    <3>5. ShowsFrom(base, i)'
      BY <2>5, <2>8, <3>2, <3>3, <3>4 DEF ShowsFrom
    <3> QED
      BY <3>5
  <2>10. CASE down[1].kind = "log"
    <3>1. 1 \in After(0)
      BY <1>2, <2>4, <2>10
    <3>2. PICK h \in (seen + 1)..printed : down[1] = LogLine(h)
      BY <2>5, <3>1
    <3>3. down[1].lines = <<h>> /\ down[1].lines[1] = h
      BY <3>2 DEF LogLine
    <3>4. h = seen + 1
      <4> SUFFICES ASSUME h # seen + 1 PROVE FALSE
        OBVIOUS
      <4>1. seen + 1 \in (seen + 1)..printed /\ seen + 1 < h
        BY <1>1, <2>5
      <4>2. PICK k \in After(0) : down[k] = LogLine(seen + 1)
        BY <2>5, <4>1
      <4>3. down[k].lines[1] = seen + 1
        BY <4>2 DEF LogLine
      <4>4. k # 1 /\ 1 < k
        BY <2>7, <3>3, <4>1, <4>3
      <4>5. h < seen + 1
        BY <2>5, <3>1, <3>3, <4>3, <4>4
      <4> QED
        BY <2>5, <4>1, <4>5
    <3>5. logs' = logs \o <<h>>
      BY <1>2, <2>10, <3>3 DEF Show
    <3>6. /\ Len(logs') = L + 1
          /\ \A n \in 1..L : logs'[n] = logs[n]
          /\ logs'[L + 1] = seen + 1
      <4>1. h \in Nat /\ <<h>> \in Seq(Nat) /\ Len(<<h>>) = 1 /\ <<h>>[1] = h
        BY <2>5
      <4>2. L + 1 \in 1..(L + 1) /\ ~(L + 1 <= L) /\ (L + 1) - L = 1
        BY <1>1
      <4> DEFINE one == <<h>>
      <4> HIDE DEF one
      <4>3. /\ Len(logs \o one) = Len(logs) + Len(one)
            /\ \A n \in 1..(Len(logs) + Len(one)) :
                 (logs \o one)[n] = IF n <= Len(logs) THEN logs[n] ELSE one[n - Len(logs)]
        BY <1>1, <4>1, ConcatProperties DEF one
      <4>4. /\ Len(logs') = L + 1
            /\ \A n \in 1..(L + 1) : logs'[n] = IF n <= L THEN logs[n] ELSE one[n - L]
        BY <3>5, <4>1, <4>3 DEF one, L
      <4>5. logs'[L + 1] = h
        BY <4>1, <4>2, <4>4 DEF one
      <4> QED
        BY <1>1, <3>4, <4>4, <4>5
    <3>7. ASSUME NEW n \in 1..(L + 1) PROVE logs'[n] = base + n
      <4>1. CASE n \in 1..L
        BY <2>5, <3>6, <4>1
      <4>2. CASE n = L + 1
        BY <1>1, <2>5, <3>6, <4>2
      <4> QED
        BY <1>1, <4>1, <4>2
    <3>8. ASSUME NEW n \in (seen + 2)..printed PROVE \E k \in After(i)' : down'[k] = LogLine(n)
      <4>1. n \in (seen + 1)..printed /\ n # h
        BY <1>1, <2>5, <3>4
      <4>2. PICK k \in After(0) : down[k] = LogLine(n)
        BY <2>5, <4>1
      <4>3. k # 1
        BY <3>3, <4>1, <4>2 DEF LogLine
      <4> QED
        BY <2>7, <4>2, <4>3
    <3>9. ASSUME NEW k \in After(i)' PROVE \E n \in (seen + 2)..printed : down'[k] = LogLine(n)
      <4>1. PICK n \in (seen + 1)..printed : down[k + 1] = LogLine(n)
        BY <2>5, <2>6
      <4>2. down[k + 1].lines[1] = n /\ 1 < k + 1
        BY <2>6, <4>1 DEF LogLine
      <4>3. h < n
        BY <2>5, <2>6, <3>1, <3>3, <4>2
      <4>4. n \in (seen + 2)..printed
        BY <1>1, <2>5, <3>4, <4>3
      <4> QED
        BY <2>6, <4>1, <4>4
    <3>10. /\ base + Len(logs') <= printed
           /\ \A n : n \in (base + Len(logs') + 1)..printed <=> n \in (seen + 2)..printed
      <4>1. L \in Nat /\ base \in Nat /\ printed \in Nat /\ seen = base + L
        BY <1>1, <2>5
      <4>2. PICK len : len = Len(logs')
        OBVIOUS
      <4>3. len = L + 1 /\ seen + 1 <= printed
        BY <1>1, <2>5, <3>4, <3>6, <4>2
      <4>4. base + len = seen + 1
        BY <4>1, <4>3
      <4> HIDE DEF seen
      <4>5. base + len <= printed /\ base + len + 1 = seen + 2
        BY <2>5, <4>3, <4>4
      <4> QED
        BY <4>2, <4>5
    <3>11. \A n \in 1..Len(logs') : logs'[n] = base + n
      BY <3>6, <3>7
    <3> HIDE DEF seen
    <3>12. ShowsFrom(base, i)'
      BY <2>3, <2>5, <2>8, <3>8, <3>9, <3>10, <3>11 DEF ShowsFrom
    <3> QED
      BY <3>12
  <2> QED
    BY <1>2, <1>10, <2>9, <2>10 DEF Message
<1> QED
  BY <1>9, <1>10

-----------------------------------------------------------------------------
(* What the steps of the tab and the socket have in common *)

\* The bounds of a behaviour are numbers.
LEMMA BoundsTyped ==
    ASSUME StreamTypeOK
    PROVE  bound.drops \in Nat /\ bound.moves \in Nat /\ bound.sizes \subseteq Nat \ {0}
             /\ drops \in 0..bound.drops /\ moves \in 0..bound.moves
BY StreamAssumption DEF StreamTypeOK

\* The page keeps what it will show as long as nothing of it changes.
LEMMA ShownStays ==
    ASSUME ShownInv, room' => link' = "up", Subscribed' => Subscribed,
           UNCHANGED <<printed, buf, logs, down>>
    PROVE  ShownInv'
<1> SUFFICES ASSUME Subscribed, NEW i \in 0..Len(down), Replayed(i)
             PROVE  \E base \in 0..printed : ShowsFrom(base, i)'
  BY DEF ShownInv, Shows, Replayed
<1>1. PICK base \in 0..printed : ShowsFrom(base, i)
  BY DEF ShownInv, Shows
<1>2. ShowsFrom(base, i)'
  BY <1>1 DEF ShowsFrom, Start, After
<1> QED
  BY <1>2

\* The effect of the hook subscribes anew before it counts as subscribed.
LEMMA EffectSubscribes ==
    ASSUME StreamTypeOK, ShownInv, NEW sent \in Seq({"subscribe", "unsubscribe"}), Effect(sent),
           UNCHANGED room, room => link' = "up" /\ sent = up
    PROVE  (Subscribed' => Subscribed) /\ up' \in Seq({"subscribe", "unsubscribe"})
<1> DEFINE will == ListensWith(page', detail'.status)
<1>1. Listening' <=> will
  BY DEF Listening
<1>2. CASE Listening /\ ~will
  <2>1. up' = Append(sent, "unsubscribe")
    BY <1>2 DEF Effect
  <2> QED
    BY <1>1, <1>2, <2>1, AppendIs DEF Subscribed
<1>3. CASE ~Listening /\ will /\ link' = "up"
  <2>1. up' = Append(sent, "subscribe")
    BY <1>3 DEF Effect
  <2>2. "subscribe" \in ToSet(up')
    BY <2>1, ToSetAppend
  <2> QED
    BY <2>1, <2>2, AppendIs DEF Subscribed
<1>4. CASE ~(Listening /\ ~will) /\ ~(~Listening /\ will /\ link' = "up")
  <2>1. up' = sent
    BY <1>4 DEF Effect
  <2> QED
    BY <1>1, <1>4, <2>1 DEF Subscribed
<1> QED
  BY <1>2, <1>3, <1>4

\* Nothing happens to the job.
LEMMA JobStays ==
    ASSUME IInv, UNCHANGED vars
    PROVE  IInv' /\ \A s : EndTrue(s)' <=> EndTrue(s)
BY StutterInv DEF EndTrue, vars, createVars

\* What the tab holds of the job afterwards was told before.
LEMMA ToldStays ==
    ASSUME ToldInv, UNCHANGED <<vars, buf>>,
           \A i \in 1..Len(down') : EndTrue(down'[i].status),
           EndTrue(fetch'.status), EndTrue(detail'.status),
           fetch'.stage = "sent" => Whole(fetch'.status, fetch'.log),
           polled' => Whole(detail'.status, detail'.log)
    PROVE  ToldInv'
BY DEF ToldInv, EndTrue, Whole, vars, createVars, killVars

LEMMA BufferStays == ASSUME BufferInv, UNCHANGED <<buf, printed, bound>> PROVE BufferInv'
BY DEF BufferInv

-----------------------------------------------------------------------------
(* The gateway *)

LEMMA HandleOutputInv == ASSUME StreamInv, HandleOutput PROVE StreamInv'
<1> USE DEF StreamInv, HandleOutput, Emit
<1>1. IInv' /\ \A s : EndTrue(s)' <=> EndTrue(s)
  BY JobStays
<1>2. buf' \in Lines /\ BufferInv' /\ Len(buf') <= Len(buf) + 1 /\ UNCHANGED bound
  BY PushIs DEF bounds
<1>3. /\ down \in Seq(Message) /\ printed \in Nat /\ printed' \in Nat
      /\ LogLine(printed') \in Message /\ Len(buf') \in Nat
  <2>1. down \in Seq(Message) /\ printed \in Nat
    BY DEF StreamTypeOK, Message
  <2>2. printed' = printed + 1 /\ printed' \in Nat
    BY <2>1
  <2>3. Len(buf') \in Nat
    BY <1>2, LenProperties DEF Lines
  <2> QED
    BY <2>1, <2>2, <2>3, MessagesTyped
<1> DEFINE m == IF room THEN <<LogLine(printed')>> ELSE <<>>
<1>4. m \in Seq(Message) /\ down' = down \o m
  BY <1>3
<1>5. StreamTypeOK'
  <2>1. down' \in Seq(Message)
    BY <1>3, <1>4
  <2> QED
    BY <1>2, <1>3, <2>1 DEF StreamTypeOK, Message, tabVars, bounds
<1>6. ShownInv'
  <2>1. Subscribed' => Subscribed
    BY DEF Subscribed, Listening, tabVars
  <2>2. ASSUME Subscribed PROVE Shows'
    <3>1. room /\ Shows
      BY <2>2 DEF Subscribed, ShownInv
    <3>2. Len(m) = 1 /\ m[1] = LogLine(printed + 1)
      BY <3>1
    <3> HIDE DEF m
    <3>3. \A k \in 2..Len(m) : m[k].kind = "status"
      BY <3>2
    <3> QED
      BY <1>2, <1>3, <1>4, <3>1, <3>2, <3>3, ShowsLine DEF tabVars
  <2> QED
    BY <2>1, <2>2 DEF ShownInv
<1>7. ToldInv'
  <2>1. ASSUME NEW i \in 1..Len(down') PROVE EndTrue(down'[i].status)
    <3>1. Len(down) \in Nat /\ Len(m) \in Nat /\ Len(down') = Len(down) + Len(m)
            /\ down'[i] = IF i <= Len(down) THEN down[i] ELSE m[i - Len(down)]
      <4>1. i \in 1..Len(down \o m) /\ down \in Seq(Message) /\ m \in Seq(Message)
        BY <1>3, <1>4
      <4> HIDE DEF m, StreamInv, HandleOutput, Emit
      <4> QED
        BY <1>4, <4>1, ConcatElement
    <3>2. CASE i <= Len(down)
      BY <3>1, <3>2 DEF ToldInv
    <3>3. CASE ~(i <= Len(down))
      <4>1. i - Len(down) \in 1..Len(m)
        BY <3>1, <3>3
      <4>2. m[i - Len(down)].status = "none"
        BY <4>1 DEF LogLine
      <4> QED
        BY <3>1, <3>3, <4>2 DEF EndTrue, Finished
    <3> QED
      BY <3>2, <3>3
  <2>2. ASSUME NEW s, EndTrue(s), NEW log PROVE Whole(s, log)'
    BY <2>2, EndIs DEF Whole, Finished, vars, createVars
  <2>3. \A k \in Kill : kjob'[k] = Watched => EndTrue(ksaid'[k])
    BY DEF ToldInv, vars, killVars
  <2>4. fetch' = fetch /\ detail' = detail /\ polled' = polled
    BY DEF tabVars
  <2> QED
    BY <1>1, <2>1, <2>2, <2>3, <2>4 DEF ToldInv
<1> QED
  BY <1>1, <1>2, <1>5, <1>6, <1>7

LEMMA SetSizeInv == ASSUME StreamInv, SetSize PROVE StreamInv'
<1> USE DEF StreamInv, SetSize
<1>1. IInv'
  BY JobStays
<1>2. UNCHANGED <<printed, buf, room, link, up, down, logs, page, detail, polled, fetch, bound>>
  BY DEF socketVars, tabVars, bounds
<1>3. StreamTypeOK'
  BY <1>2 DEF StreamTypeOK, tabVars, bounds
<1>4. ShownInv'
  BY <1>2, ShownStays DEF ShownInv, Subscribed, Listening
<1>5. ToldInv'
  BY <1>2, ToldStays DEF ToldInv
<1> QED
  BY <1>1, <1>2, <1>3, <1>4, <1>5, BufferStays

LEMMA HandleSubscribeInv == ASSUME StreamInv, HandleSubscribe PROVE StreamInv'
<1> USE DEF StreamInv, HandleSubscribe
<1>1. IInv'
  BY JobStays
<1>2. UNCHANGED <<printed, buf, link, logs, page, detail, polled, fetch, bound>>
  BY DEF tabVars, bounds
<1>3. down \in Seq(Message) /\ History(buf) \in Message
  BY MessagesTyped DEF StreamTypeOK, Message
<1>4. StreamTypeOK'
  <2>1. down' \in Seq(Message) /\ up' \in Seq({"subscribe", "unsubscribe"})
    BY <1>3, AppendIs, TailIs DEF StreamTypeOK
  <2> QED
    BY <1>2, <2>1 DEF StreamTypeOK, Message, tabVars, bounds
<1>5. ShownInv'
  BY <1>2, ShowsReplay DEF ShownInv
<1>6. ToldInv'
  <2>1. ASSUME NEW i \in 1..Len(down') PROVE EndTrue(down'[i].status)
    <3>1. /\ Len(down) \in Nat /\ Len(down') = Len(down) + 1
          /\ \A n \in 1..Len(down) : down'[n] = down[n]
          /\ down'[Len(down) + 1] = History(buf)
      BY <1>3, AppendIs, LenProperties
    <3>2. CASE i \in 1..Len(down)
      BY <3>1, <3>2 DEF ToldInv
    <3>3. CASE i = Len(down) + 1
      BY <3>1, <3>3 DEF History, EndTrue, Finished
    <3> QED
      BY <3>1, <3>2, <3>3
  <2> QED
    BY <1>2, <2>1, ToldStays DEF ToldInv
<1> QED
  BY <1>1, <1>2, <1>4, <1>5, <1>6, BufferStays

LEMMA HandleUnsubscribeInv == ASSUME StreamInv, HandleUnsubscribe PROVE StreamInv'
<1> USE DEF StreamInv, HandleUnsubscribe
<1>1. IInv'
  BY JobStays
<1>2. UNCHANGED <<printed, buf, link, down, logs, page, detail, polled, fetch, bound>>
  BY DEF tabVars, bounds
<1>3. StreamTypeOK'
  <2>1. up' \in Seq({"subscribe", "unsubscribe"})
    BY TailIs DEF StreamTypeOK
  <2> QED
    BY <1>2, <2>1 DEF StreamTypeOK, tabVars, bounds
<1>4. ShownInv'
  BY DEF ShownInv, Subscribed
<1>5. ToldInv'
  BY <1>2, ToldStays DEF ToldInv
<1> QED
  BY <1>1, <1>2, <1>3, <1>4, <1>5, BufferStays

-----------------------------------------------------------------------------
(* The socket *)

LEMMA ConnectInv == ASSUME StreamInv, Connect PROVE StreamInv'
<1> USE DEF StreamInv, Connect
<1>1. IInv'
  BY JobStays
<1>2. UNCHANGED <<printed, buf, room, down, logs, page, detail, polled, fetch, bound>>
  BY DEF serverVars, tabVars, bounds
<1>3. StreamTypeOK'
  <2>1. up' \in Seq({"subscribe", "unsubscribe"})
    BY AppendIs DEF StreamTypeOK
  <2> QED
    BY <1>2, <2>1 DEF StreamTypeOK, serverVars, tabVars, bounds
<1>4. ShownInv'
  BY <1>2 DEF ShownInv, Subscribed
<1>5. ToldInv'
  BY <1>2, ToldStays DEF ToldInv
<1> QED
  BY <1>1, <1>2, <1>3, <1>4, <1>5, BufferStays

LEMMA DropInv == ASSUME StreamInv, Drop \/ GiveUp PROVE StreamInv'
<1> USE DEF StreamInv, Drop, GiveUp
<1>1. IInv'
  BY JobStays
<1>2. UNCHANGED <<vars, printed, buf, logs, page, detail, polled, fetch, bound, size, seeded, told, moves>>
        /\ link' \in {"down", "off"}
  BY DEF serverVars, tabVars
<1>3. up' \in Seq({"subscribe", "unsubscribe"}) /\ down' \in Seq(Message) /\ room' = FALSE
        /\ (down' = down \/ down' = <<>>)
  BY EmptySeq DEF StreamTypeOK, Message, ShownInv, serverVars
<1>4. StreamTypeOK'
  <2>1. drops' \in 0..bound.drops
    BY BoundsTyped
  <2> QED
    BY <1>2, <1>3, <2>1 DEF StreamTypeOK, Message
<1>5. ShownInv'
  BY <1>3 DEF ShownInv, Subscribed
<1>6. ToldInv'
  <2>1. \A i \in 1..Len(down') : EndTrue(down'[i].status)
    BY <1>3 DEF ToldInv
  <2> QED
    BY <1>2, <2>1, ToldStays DEF ToldInv
<1> QED
  BY <1>1, <1>2, <1>4, <1>5, <1>6, BufferStays

LEMMA DeliverInv == ASSUME StreamInv, Deliver PROVE StreamInv'
<1> USE DEF StreamInv, Deliver
<1> DEFINE m == Head(down)
<1>1. IInv'
  BY JobStays
<1>2. UNCHANGED <<vars, size, printed, buf, room, link, page, fetch, seeded, told, bound, drops, moves>>
  BY DEF serverVars, bounds
<1>3. /\ down \in Seq(Message) /\ m \in Message /\ m = down[1] /\ Len(down) \in Nat \ {0}
      /\ down' \in Seq(Message) /\ Len(down') = Len(down) - 1
      /\ \A n \in 1..Len(down') : down'[n] = down[n + 1]
  <2>1. down \in Seq(Message) /\ down # <<>> /\ down' = Tail(down)
    BY DEF StreamTypeOK, Message
  <2> HIDE DEF StreamInv, Deliver
  <2> QED
    BY <2>1, TailIs
<1> HIDE DEF m
<1>4. (Subscribed' => Subscribed) /\ up' \in Seq({"subscribe", "unsubscribe"})
  BY <1>2, EffectSubscribes DEF ShownInv, StreamTypeOK
<1>5. logs' = (IF Listening /\ m.kind # "status" THEN Show(m) ELSE logs) /\ logs' \in Lines
  <2>1. logs' = IF Listening /\ m.kind # "status" THEN Show(m) ELSE logs
    BY DEF m
  <2>2. logs \in Lines /\ m.lines \in Lines /\ Show(m) \in Lines
    BY <1>3 DEF StreamTypeOK, Message, Show, Lines
  <2> QED
    BY <2>1, <2>2
<1>6. \/ detail' = detail /\ polled' = polled
      \/ detail' = [detail EXCEPT !.status = m.status] /\ polled' = FALSE
  BY DEF SetStatus, m
<1>7. StreamTypeOK'
  <2>1. detail' \in [status : MaybeStatus, log : Lines] /\ polled' \in BOOLEAN
    BY <1>3, <1>6 DEF StreamTypeOK, Message
  <2> QED
    BY <1>2, <1>3, <1>4, <1>5, <2>1 DEF StreamTypeOK, Message
<1>8. ShownInv'
  <2>1. ASSUME Subscribed PROVE Shows'
    <3>1. Shows /\ Listening
      BY <2>1 DEF Subscribed, ShownInv
    <3>2. logs' = IF Head(down).kind # "status" THEN Show(Head(down)) ELSE logs
      BY <1>5, <3>1 DEF m
    <3> QED
      BY <1>2, <3>1, <3>2, ShowsArrival
  <2> QED
    BY <1>2, <1>4, <2>1 DEF ShownInv
<1>9. ToldInv'
  <2>1. ASSUME NEW i \in 1..Len(down') PROVE EndTrue(down'[i].status)
    <3>1. i + 1 \in 1..Len(down) /\ down'[i] = down[i + 1]
      BY <1>3
    <3> QED
      BY <3>1 DEF ToldInv
  <2>2. EndTrue(m.status)
    <3>1. 1 \in 1..Len(down)
      BY <1>3
    <3> QED
      BY <1>3, <3>1 DEF ToldInv
  <2>3. EndTrue(detail'.status) /\ (polled' => Whole(detail'.status, detail'.log))
    BY <1>3, <1>6, <2>2 DEF ToldInv, StreamTypeOK
  <2> QED
    BY <1>2, <2>1, <2>3, ToldStays DEF ToldInv
<1> QED
  BY <1>1, <1>2, <1>7, <1>8, <1>9, BufferStays

-----------------------------------------------------------------------------
(* A step of JobsService *)

LEMMA ServiceStepInv == ASSUME StreamInv, ServiceStep PROVE StreamInv'
<1> USE DEF StreamInv, ServiceStep
<1>1. IInv'
  BY NextIInv
<1>2. UNCHANGED <<size, page, logs, detail, polled, seeded, told, bound, drops, moves>>
  BY DEF bounds
<1>3. ASSUME NEW s, EndTrue(s) PROVE EndTrue(s)'
  BY <1>3, EndStays
<1>4. \A k \in Kill : kjob'[k] = Watched => EndTrue(ksaid[k])'
  BY AnswersTrue DEF ToldInv
<1>5. CASE api' = "down" /\ api = "up"
  <2>1. /\ buf' = <<>> /\ room' = FALSE /\ down' = <<>> /\ printed' = printed
        /\ link' \in {link, "down"} /\ up' \in {up, <<>>} /\ fetch' \in {fetch, NoFetch}
    BY <1>5 DEF StreamDies
  <2>2. StreamTypeOK'
    <3>1. buf' \in Lines /\ down' \in Seq(Message) /\ up' \in Seq({"subscribe", "unsubscribe"})
      BY <2>1, EmptySeq DEF StreamTypeOK, Lines
    <3>2. fetch' \in [stage : {"idle", "row", "sent"}, status : MaybeStatus, log : Lines]
      <4>1. <<>> \in Lines /\ "none" \in MaybeStatus
        BY DEF Lines, MaybeStatus
      <4>2. NoFetch \in [stage : {"idle", "row", "sent"}, status : MaybeStatus, log : Lines]
        BY <4>1 DEF NoFetch
      <4>3. fetch \in [stage : {"idle", "row", "sent"}, status : MaybeStatus, log : Lines]
        BY DEF StreamTypeOK
      <4> QED
        BY <2>1, <4>2, <4>3
    <3> QED
      BY <1>2, <2>1, <3>1, <3>2 DEF StreamTypeOK, Message
  <2>3. BufferInv'
    <3>1. printed \in Nat /\ \E n \in bound.sizes : 0 <= n
      BY StreamAssumption DEF StreamTypeOK
    <3> QED
      BY <1>2, <2>1, <3>1 DEF BufferInv
  <2>4. ShownInv'
    BY <2>1 DEF ShownInv, Subscribed
  <2>5. ASSUME NEW s, NEW log, EndTrue(s), Whole(s, log) PROVE Whole(s, log)'
    BY <1>5, <2>5, WholeStays
  <2>6. EndTrue(NoFetch.status)' /\ NoFetch.stage # "sent"
    BY DEF EndTrue, NoFetch, Finished
  <2>7. ToldInv'
    BY <1>2, <1>3, <1>4, <2>1, <2>5, <2>6 DEF ToldInv
  <2> QED
    BY <1>1, <2>2, <2>3, <2>4, <2>7
<1>6. CASE ~(api' = "down" /\ api = "up")
  <2> DEFINE said == IF announced'[Watched] # announced[Watched]
                     THEN Broadcast(announced'[Watched]) ELSE <<>>
             line == IF room THEN <<LogLine(printed + 1)>> ELSE <<>>
             m == IF ErrorHandled THEN line \o said ELSE said
  <2>1. UNCHANGED <<room, link, up, fetch>> /\ down \in Seq(Message) /\ printed \in Nat
          /\ Len(down) \in Nat
    BY <1>6, LenProperties DEF StreamTypeOK, Message
  <2> DEFINE Ends(s) == s \in Finished => row'[Watched] = s \/ mem'[Watched] = s
                                                      \/ pc'[Watched] = "lost"
             e == StatusEvent(announced'[Watched])
  <2>2. /\ said \in Seq(Message) /\ Len(said) \in Nat
        /\ \A k \in 1..Len(said) : said[k].kind = "status" /\ Ends(said[k].status)
    <3>1. e \in Message
      BY <1>1, StreamAssumption, MessagesTyped DEF IInv, TypeOK
    <3>2. e.kind = "status" /\ e.status = announced'[Watched]
      BY DEF StatusEvent
    <3>3. Ends(e.status)
      BY <1>1, <3>2, AnnouncedTrue DEF EndTrue
    <3>4. said = <<>> \/ said = <<e>>
      BY DEF Broadcast
    <3> HIDE DEF said, e, Ends
    <3>5. CASE said = <<>>
      BY <3>5, EmptySeq
    <3>6. CASE said = <<e>>
      BY <3>1, <3>2, <3>3, <3>6
    <3> QED
      BY <3>4, <3>5, <3>6
  <2>3. line \in Seq(Message) /\ \A k \in 1..Len(line) : line[k] = LogLine(printed + 1)
    <3>1. LogLine(printed + 1) \in Message
      BY <2>1, MessagesTyped
    <3> QED
      BY <3>1
  <2>4. \/ ErrorHandled /\ printed' = printed + 1 /\ buf' = Push(buf, printed')
             /\ down' = (down \o line) \o said
        \/ ~ErrorHandled /\ UNCHANGED <<printed, buf>> /\ down' = down \o said
    BY <1>6 DEF Emit
  <2> HIDE DEF said, line
  <2>5. /\ m \in Seq(Message) /\ Len(m) \in Nat
        /\ \A k \in 1..Len(m) : m[k] = LogLine(printed + 1) \/ \E i \in 1..Len(said) : m[k] = said[i]
    <3>1. CASE ~ErrorHandled
      BY <2>2, <3>1
    <3>2. CASE ErrorHandled
      <4>1. /\ line \o said \in Seq(Message) /\ Len(line) \in Nat
            /\ Len(line \o said) = Len(line) + Len(said)
            /\ \A k \in 1..(Len(line) + Len(said)) :
                 (line \o said)[k] = IF k <= Len(line) THEN line[k] ELSE said[k - Len(line)]
        BY <2>2, <2>3, ConcatProperties, LenProperties
      <4>2. ASSUME NEW k \in 1..(Len(line) + Len(said))
            PROVE  k \in 1..Len(line) \/ (~(k <= Len(line)) /\ k - Len(line) \in 1..Len(said))
        BY <2>2, <4>1
      <4> QED
        BY <2>2, <2>3, <3>2, <4>1, <4>2
    <3> QED
      BY <3>1, <3>2
  <2>6. down' = down \o m
    <3>1. (down \o line) \o said = down \o (line \o said)
      <4>1. down \in Seq(Message) /\ line \in Seq(Message) /\ said \in Seq(Message)
        BY <2>1, <2>2, <2>3
      <4> QED
        BY <4>1, ConcatAssociative
    <3> QED
      BY <2>4, <3>1
  <2>7. ErrorHandled /\ room => Len(m) > 0 /\ m[1] = LogLine(printed + 1)
                                  /\ \A k \in 2..Len(m) : m[k].kind = "status"
    <3> SUFFICES ASSUME ErrorHandled, room
                 PROVE  Len(m) > 0 /\ m[1] = LogLine(printed + 1)
                          /\ \A k \in 2..Len(m) : m[k].kind = "status"
      OBVIOUS
    <3>1. Len(line) = 1 /\ line[1] = LogLine(printed + 1)
      BY DEF line
    <3>2. /\ Len(m) = Len(line) + Len(said)
          /\ \A k \in 1..(Len(line) + Len(said)) :
               m[k] = IF k <= Len(line) THEN line[k] ELSE said[k - Len(line)]
      BY <2>2, <2>3, ConcatProperties
    <3> HIDE DEF m
    <3>3. ASSUME NEW k \in 2..Len(m) PROVE m[k].kind = "status"
      <4>1. k - 1 \in 1..Len(said) /\ k \in 1..(1 + Len(said)) /\ ~(k <= 1)
        BY <2>2, <3>1, <3>2
      <4> QED
        BY <2>2, <3>1, <3>2, <4>1
    <3> QED
      BY <2>2, <3>1, <3>2, <3>3
  <2> HIDE DEF m
  <2>8. buf' \in Lines /\ BufferInv' /\ Len(buf) \in Nat /\ Len(buf') \in Nat
          /\ Len(buf') <= Len(buf) + 1 /\ printed' \in Nat
    <3>1. buf \in Lines /\ Len(buf) \in Nat
      BY LenProperties DEF StreamTypeOK, Lines
    <3>2. CASE ErrorHandled
      <4>1. buf' \in Lines /\ BufferInv' /\ Len(buf') <= Len(buf) + 1
        BY <1>2, <2>4, <3>2, PushIs
      <4> QED
        BY <2>1, <2>4, <3>1, <3>2, <4>1, LenProperties DEF Lines
    <3>3. CASE ~ErrorHandled
      BY <1>2, <2>1, <2>4, <3>1, <3>3, BufferStays
    <3> QED
      BY <3>2, <3>3
  <2>9. Len(down') = Len(down) + Len(m) /\ down' \in Seq(Message)
          /\ \A i \in 1..(Len(down) + Len(m)) :
               down'[i] = IF i <= Len(down) THEN down[i] ELSE m[i - Len(down)]
    BY <2>1, <2>5, <2>6, ConcatProperties
  <2>10. StreamTypeOK'
    BY <1>2, <2>1, <2>8, <2>9 DEF StreamTypeOK, Message
  <2>11. ShownInv'
    <3> SUFFICES ASSUME Subscribed PROVE Shows'
      BY <1>2, <2>1 DEF ShownInv, Subscribed, Listening
    <3>1. Shows /\ room
      BY DEF ShownInv, Subscribed
    <3>2. CASE ErrorHandled
      BY <1>2, <2>4, <2>5, <2>6, <2>7, <2>8, <3>1, <3>2, ShowsLine
    <3>3. CASE ~ErrorHandled
      BY <1>2, <2>2, <2>4, <3>1, <3>3, ShowsQuiet
    <3> QED
      BY <3>2, <3>3
  <2>12. ASSUME NEW s, NEW log, EndTrue(s), Whole(s, log) PROVE Whole(s, log)'
    BY <2>4, <2>12, WholeStays
  <2>13. ASSUME NEW i \in 1..Len(down') PROVE Ends(down'[i].status)
    <3>1. i \in 1..Len(down) \/ (~(i <= Len(down)) /\ i - Len(down) \in 1..Len(m))
      BY <2>1, <2>5, <2>9
    <3>2. CASE i \in 1..Len(down)
      <4>1. down'[i] = down[i] /\ EndTrue(down[i].status)
        BY <2>1, <2>5, <2>9, <3>2 DEF ToldInv
      <4> QED
        BY <1>3, <4>1 DEF EndTrue
    <3>3. CASE ~(i <= Len(down)) /\ i - Len(down) \in 1..Len(m)
      <4>1. down'[i] = m[i - Len(down)]
        BY <2>9, <3>3
      <4>2. CASE down'[i] = LogLine(printed + 1)
        BY <4>2 DEF LogLine, Finished
      <4> HIDE DEF Ends
      <4>3. CASE \E k \in 1..Len(said) : down'[i] = said[k]
        BY <2>2, <4>3
      <4> QED
        BY <2>5, <3>3, <4>1, <4>2, <4>3
    <3> QED
      BY <3>1, <3>2, <3>3
  <2>14. ToldInv'
    <3>1. \A i \in 1..Len(down') : EndTrue(down[i].status)'
      BY <2>13 DEF EndTrue
    <3> QED
      BY <1>2, <1>3, <1>4, <2>1, <2>12, <3>1 DEF ToldInv
  <2> QED
    BY <1>1, <2>8, <2>10, <2>11, <2>14
<1> QED
  BY <1>5, <1>6

-----------------------------------------------------------------------------
(* The query cache and the page *)

LEMMA ReadInv == ASSUME StreamInv, Poll \/ Refocus PROVE StreamInv'
<1> USE DEF StreamInv
<1>1. /\ UNCHANGED <<vars, serverVars, socketVars, page, logs, detail, polled, seeded, told, bounds>>
      /\ fetch' = [stage |-> "row", status |-> row[Watched], log |-> <<>>]
  BY DEF Poll, Refocus, ReadRow
<1>2. IInv' /\ row[Watched] \in MaybeStatus
  BY <1>1, JobStays, StreamAssumption DEF IInv, TypeOK
<1>3. StreamTypeOK'
  <2>1. <<>> \in Lines
    BY DEF Lines
  <2>2. fetch' \in [stage : {"idle", "row", "sent"}, status : MaybeStatus, log : Lines]
    BY <1>1, <1>2, <2>1
  <2> QED
    BY <1>1, <2>2 DEF StreamTypeOK, serverVars, socketVars, bounds
<1>4. ShownInv'
  BY <1>1, ShownStays DEF ShownInv, Subscribed, Listening, serverVars, socketVars
<1>5. ToldInv'
  <2>1. EndTrue(fetch'.status) /\ fetch'.stage # "sent"
    BY <1>1 DEF EndTrue
  <2> QED
    BY <1>1, <2>1, ToldStays DEF ToldInv, serverVars, socketVars
<1> QED
  BY <1>1, <1>2, <1>3, <1>4, <1>5, BufferStays DEF serverVars, bounds

LEMMA ReadLogInv == ASSUME StreamInv, ReadLog PROVE StreamInv'
<1> USE DEF StreamInv
<1>1. /\ UNCHANGED <<vars, serverVars, socketVars, page, logs, detail, polled, seeded, told, bounds>>
      /\ fetch' = [fetch EXCEPT !.stage = "sent", !.log = buf]
  BY DEF ReadLog
<1>2. /\ fetch \in [stage : {"idle", "row", "sent"}, status : MaybeStatus, log : Lines]
      /\ buf \in Lines
  BY DEF StreamTypeOK
<1>3. /\ fetch' \in [stage : {"idle", "row", "sent"}, status : MaybeStatus, log : Lines]
      /\ fetch'.status = fetch.status /\ fetch'.log = buf
  BY <1>1, <1>2
<1>4. StreamTypeOK'
  BY <1>1, <1>3 DEF StreamTypeOK, serverVars, socketVars, bounds
<1>5. ShownInv'
  BY <1>1, ShownStays DEF ShownInv, Subscribed, Listening, serverVars, socketVars
<1>6. ToldInv'
  <2>1. EndTrue(fetch'.status) /\ Whole(fetch'.status, fetch'.log)
    BY <1>3 DEF ToldInv, Whole
  <2> QED
    BY <1>1, <2>1, ToldStays DEF ToldInv, serverVars, socketVars
<1> QED
  BY <1>1, <1>4, <1>5, <1>6, JobStays, BufferStays DEF serverVars, bounds

LEMMA ReceiveInv == ASSUME StreamInv, Receive PROVE StreamInv'
<1> USE DEF StreamInv
<1>1. /\ UNCHANGED <<vars, serverVars, link, down, page, logs, seeded, told, bounds>>
      /\ fetch.stage = "sent" /\ detail' = [status |-> fetch.status, log |-> fetch.log]
      /\ polled' = TRUE /\ fetch' = NoFetch /\ Effect(up)
  BY DEF Receive
<1>2. (Subscribed' => Subscribed) /\ up' \in Seq({"subscribe", "unsubscribe"})
  BY <1>1, EffectSubscribes DEF ShownInv, StreamTypeOK, serverVars
<1>3. StreamTypeOK'
  <2>1. <<>> \in Lines /\ "none" \in MaybeStatus
    BY DEF Lines, MaybeStatus
  <2>2. fetch' \in [stage : {"idle", "row", "sent"}, status : MaybeStatus, log : Lines]
    BY <1>1, <2>1 DEF NoFetch
  <2>3. detail' \in [status : MaybeStatus, log : Lines]
    BY <1>1 DEF StreamTypeOK
  <2> QED
    BY <1>1, <1>2, <2>2, <2>3 DEF StreamTypeOK, serverVars, bounds
<1>4. ShownInv'
  BY <1>1, <1>2, ShownStays DEF ShownInv, serverVars
<1>5. ToldInv'
  <2>1. EndTrue(NoFetch.status) /\ NoFetch.stage # "sent"
    BY DEF NoFetch, EndTrue, Finished
  <2> QED
    BY <1>1, <2>1, ToldStays DEF ToldInv, serverVars
<1> QED
  BY <1>1, <1>3, <1>4, <1>5, JobStays, BufferStays DEF serverVars, bounds

LEMMA FetchFailsInv == ASSUME StreamInv, FetchFails PROVE StreamInv'
<1> USE DEF StreamInv
<1>1. /\ UNCHANGED <<vars, serverVars, socketVars, page, logs, detail, polled, seeded, told, bound, moves>>
      /\ drops < bound.drops /\ drops' = drops + 1 /\ fetch' = NoFetch
  BY DEF FetchFails
<1>2. StreamTypeOK'
  <2>1. <<>> \in Lines /\ "none" \in MaybeStatus
    BY DEF Lines, MaybeStatus
  <2>2. fetch' \in [stage : {"idle", "row", "sent"}, status : MaybeStatus, log : Lines]
    BY <1>1, <2>1 DEF NoFetch
  <2>3. drops' \in 0..bound.drops
    BY <1>1, BoundsTyped
  <2> QED
    BY <1>1, <2>2, <2>3 DEF StreamTypeOK, serverVars, socketVars
<1>3. ShownInv'
  BY <1>1, ShownStays DEF ShownInv, Subscribed, Listening, serverVars, socketVars
<1>4. ToldInv'
  <2>1. EndTrue(NoFetch.status) /\ NoFetch.stage # "sent"
    BY DEF NoFetch, EndTrue, Finished
  <2> QED
    BY <1>1, <2>1, ToldStays DEF ToldInv, serverVars, socketVars
<1> QED
  BY <1>1, <1>2, <1>3, <1>4, JobStays, BufferStays DEF serverVars

LEMMA KillAnsweredInv == ASSUME StreamInv, NEW k \in Kill, KillAnswered(k) PROVE StreamInv'
<1> USE DEF StreamInv
<1>1. /\ UNCHANGED <<vars, serverVars, link, down, page, logs, fetch, seeded, bounds>>
      /\ told' = told \cup {k} /\ SetStatus(ksaid[k]) /\ kjob[k] = Watched /\ Effect(up)
  BY DEF KillAnswered
<1>2. (Subscribed' => Subscribed) /\ up' \in Seq({"subscribe", "unsubscribe"})
  BY <1>1, EffectSubscribes DEF ShownInv, StreamTypeOK, serverVars
<1>3. \/ detail' = detail /\ polled' = polled
      \/ detail' = [detail EXCEPT !.status = ksaid[k]] /\ polled' = FALSE
  BY <1>1 DEF SetStatus
<1>4. ksaid[k] \in MaybeStatus /\ detail \in [status : MaybeStatus, log : Lines]
        /\ EndTrue(ksaid[k]) /\ EndTrue(detail.status)
  BY <1>1 DEF IInv, TypeOK, StreamTypeOK, ToldInv
<1>5. StreamTypeOK'
  <2>1. detail' \in [status : MaybeStatus, log : Lines] /\ polled' \in BOOLEAN
    BY <1>3, <1>4 DEF StreamTypeOK
  <2> QED
    BY <1>1, <1>2, <2>1 DEF StreamTypeOK, serverVars, bounds
<1>6. ShownInv'
  BY <1>1, <1>2, ShownStays DEF ShownInv, serverVars
<1>7. ToldInv'
  <2>1. EndTrue(detail'.status)
    BY <1>3, <1>4
  <2>2. polled' => detail' = detail /\ polled
    BY <1>3
  <2> QED
    BY <1>1, <2>1, <2>2, ToldStays DEF ToldInv, serverVars
<1> QED
  BY <1>1, <1>5, <1>6, <1>7, JobStays, BufferStays DEF serverVars, bounds

\* A page that is mounted has yet to be subscribed.
LEMMA MountShows ==
    ASSUME StreamTypeOK, ShownInv, ~Listening, Mount, UNCHANGED room
    PROVE  ShownInv' /\ page' \in {"new", "detail", "away"} /\ logs' \in Lines
             /\ link' \in {"down", "up", "off"} /\ up' \in Seq({"subscribe", "unsubscribe"})
<1> DEFINE sent == IF link = "up" THEN up ELSE <<>>
<1>1. /\ page' = "detail" /\ logs' = <<>> /\ link' = (IF link = "up" THEN "up" ELSE "down")
      /\ Effect(sent)
  BY DEF Mount
<1>2. sent \in Seq({"subscribe", "unsubscribe"}) /\ (room => link' = "up" /\ sent = up)
  BY <1>1, EmptySeq DEF StreamTypeOK, ShownInv
<1> HIDE DEF sent
<1>3. ~Subscribed' /\ up' \in Seq({"subscribe", "unsubscribe"})
  BY <1>1, <1>2, EffectSubscribes DEF Subscribed
<1>4. <<>> \in Lines
  BY DEF Lines
<1> QED
  BY <1>1, <1>2, <1>3, <1>4 DEF ShownInv

LEMMA OpenInv == ASSUME StreamInv, Open PROVE StreamInv'
<1> USE DEF StreamInv
<1>1. /\ UNCHANGED <<vars, serverVars, down, detail, polled, fetch, seeded, told, bound, drops>>
      /\ page = "away" /\ moves < bound.moves /\ moves' = moves + 1 /\ Mount
  BY DEF Open
<1>2. ShownInv' /\ page' \in {"new", "detail", "away"} /\ logs' \in Lines
        /\ link' \in {"down", "up", "off"} /\ up' \in Seq({"subscribe", "unsubscribe"})
  BY <1>1, MountShows DEF Listening, ListensWith, serverVars
<1>3. StreamTypeOK'
  <2>1. moves' \in 0..bound.moves
    BY <1>1, BoundsTyped
  <2> QED
    BY <1>1, <1>2, <2>1 DEF StreamTypeOK, serverVars
<1>4. ToldInv'
  BY <1>1, ToldStays DEF ToldInv, serverVars
<1> QED
  BY <1>1, <1>2, <1>3, <1>4, JobStays, BufferStays DEF serverVars

LEMMA LeaveInv == ASSUME StreamInv, Leave PROVE StreamInv'
<1> USE DEF StreamInv
<1>1. /\ UNCHANGED <<vars, serverVars, link, down, detail, polled, fetch, seeded, told, bound, drops>>
      /\ moves < bound.moves /\ moves' = moves + 1 /\ page' = "away" /\ logs' = <<>> /\ Effect(up)
  BY DEF Leave
<1>2. up' \in Seq({"subscribe", "unsubscribe"})
  BY <1>1, EffectSubscribes DEF ShownInv, StreamTypeOK, serverVars
<1>3. StreamTypeOK'
  <2>1. moves' \in 0..bound.moves /\ <<>> \in Lines
    BY <1>1, BoundsTyped DEF Lines
  <2> QED
    BY <1>1, <1>2, <2>1 DEF StreamTypeOK, serverVars
<1>4. ShownInv'
  BY <1>1 DEF ShownInv, Subscribed, Listening, ListensWith, serverVars
<1>5. ToldInv'
  BY <1>1, ToldStays DEF ToldInv, serverVars
<1> QED
  BY <1>1, <1>3, <1>4, <1>5, JobStays, BufferStays DEF serverVars

LEMMA CreateAnsweredInv == ASSUME StreamInv, CreateAnswered PROVE StreamInv'
<1> USE DEF StreamInv
<1>1. /\ UNCHANGED <<vars, serverVars, down, fetch, told, bounds>>
      /\ seeded' = TRUE /\ polled' = FALSE /\ detail' = [status |-> "running", log |-> <<>>]
      /\ IF page = "new" THEN Mount ELSE UNCHANGED <<page, logs, link>> /\ Effect(up)
  BY DEF CreateAnswered
<1>2. ShownInv' /\ page' \in {"new", "detail", "away"} /\ logs' \in Lines
        /\ link' \in {"down", "up", "off"} /\ up' \in Seq({"subscribe", "unsubscribe"})
  <2>1. CASE page = "new"
    BY <1>1, <2>1, MountShows DEF Listening, ListensWith, serverVars
  <2>2. CASE page # "new"
    <3>1. UNCHANGED <<page, logs, link>> /\ Effect(up)
      BY <1>1, <2>2
    <3>2. (Subscribed' => Subscribed) /\ up' \in Seq({"subscribe", "unsubscribe"})
      BY <1>1, <3>1, EffectSubscribes DEF ShownInv, StreamTypeOK, serverVars
    <3> QED
      BY <1>1, <3>1, <3>2, ShownStays DEF ShownInv, StreamTypeOK, serverVars
  <2> QED
    BY <2>1, <2>2
<1>3. StreamTypeOK'
  <2>1. <<>> \in Lines /\ "running" \in MaybeStatus
    BY DEF Lines, MaybeStatus, JobStatus, Unfinished
  <2>2. detail' \in [status : MaybeStatus, log : Lines]
    BY <1>1, <2>1
  <2> QED
    BY <1>1, <1>2, <2>2 DEF StreamTypeOK, serverVars, bounds
<1>4. ToldInv'
  <2>1. EndTrue(detail'.status) /\ ~polled'
    BY <1>1 DEF EndTrue, Finished
  <2> QED
    BY <1>1, <2>1, ToldStays DEF ToldInv, serverVars
<1> QED
  BY <1>1, <1>2, <1>3, <1>4, JobStays, BufferStays DEF serverVars, bounds

-----------------------------------------------------------------------------
(* Every behaviour *)

\* The invariant holds of every step.
LEMMA StreamNextInv == ASSUME StreamInv, [StreamNext]_all PROVE StreamInv'
<1>1. CASE UNCHANGED all
  <2>1. UNCHANGED <<vars, size, printed, buf, room, link, up, down, page, logs, detail, polled,
                    fetch, seeded, told, bound, drops, moves>>
    BY <1>1 DEF all, streamVars, serverVars, socketVars, tabVars, bounds
  <2> USE DEF StreamInv
  <2>2. StreamTypeOK'
    BY <2>1 DEF StreamTypeOK
  <2>3. ShownInv'
    BY <2>1, ShownStays DEF ShownInv, Subscribed, Listening
  <2>4. ToldInv'
    BY <2>1, ToldStays DEF ToldInv
  <2> QED
    BY <2>1, <2>2, <2>3, <2>4, JobStays, BufferStays
<1>2. CASE GatewayStep
  BY <1>2, HandleOutputInv, SetSizeInv, HandleSubscribeInv, HandleUnsubscribeInv DEF GatewayStep
<1>3. CASE SocketStep
  BY <1>3, ConnectInv, DropInv, DeliverInv DEF SocketStep
<1>4. CASE FetchStep
  BY <1>4, ReadInv, ReadLogInv, ReceiveInv, FetchFailsInv DEF FetchStep
<1>5. CASE PageStep
  BY <1>5, CreateAnsweredInv, OpenInv, LeaveInv, KillAnsweredInv DEF PageStep
<1> QED
  BY <1>1, <1>2, <1>3, <1>4, <1>5, ServiceStepInv DEF StreamNext

\* The buffer, what is on its way to the page and what the page has been told
\* fit together in every reachable state.
THEOREM StreamInvariance == StreamSpec => []StreamInv
<1>1. StreamInit => StreamInv
  BY StreamInitInv
<1>2. StreamInv /\ [StreamNext]_all => StreamInv'
  BY StreamNextInv
<1> QED
  BY <1>1, <1>2, PTL DEF StreamSpec

\* Every variable of the stream keeps its type.
THEOREM StreamTyped == StreamSpec => []StreamTypeOK
<1>1. StreamInv => StreamTypeOK
  BY DEF StreamInv
<1> QED
  BY <1>1, StreamInvariance, PTL

\* A listening page shows each line once, in order and up to the last, whatever
\* the socket loses and however often it subscribes; and the buffer it starts
\* from has the last lines, whatever is done to the size of it.
THEOREM LogHasNoGap == StreamSpec => []LogWithoutGap
<1>1. ASSUME StreamInv PROVE LogWithoutGap
  <2>1. printed \in Nat /\ Len(buf) \in Nat /\ buf \in Seq(Nat)
    BY <1>1, LenProperties DEF StreamInv, StreamTypeOK, Lines
  <2>2. BufferInv
    BY <1>1 DEF StreamInv
  <2>3. Consecutive(buf)
    <3> SUFFICES ASSUME NEW i \in 1..(Len(buf) - 1) PROVE buf[i + 1] = buf[i] + 1
      BY DEF Consecutive
    <3> DEFINE L == Len(buf)
    <3> HIDE DEF L
    <3>1. L \in Nat /\ i \in 1..L /\ i + 1 \in 1..L
      BY <2>1 DEF L
    <3>2. buf[i] = printed - L + i /\ buf[i + 1] = printed - L + (i + 1)
      BY <2>2, <3>1 DEF BufferInv, L
    <3> QED
      BY <2>1, <3>1, <3>2
  <2>4. buf # <<>> => Last(buf) = printed
    <3> SUFFICES ASSUME buf # <<>> PROVE buf[Len(buf)] = printed
      BY DEF Last
    <3>1. Len(buf) \in 1..Len(buf)
      BY <2>1, EmptySeq
    <3>2. buf[Len(buf)] = printed - Len(buf) + Len(buf)
      BY <2>2, <3>1 DEF BufferInv
    <3> QED
      BY <2>1, <3>2
  <2>5. \E n \in bound.sizes : Len(buf) <= n
    BY <2>2 DEF BufferInv
  <2>6. Subscribed => Shows
    BY <1>1 DEF StreamInv, ShownInv
  <2> QED
    BY <2>3, <2>4, <2>5, <2>6 DEF LogWithoutGap, Subscribed, Shows
<1> QED
  BY <1>1, StreamInvariance, PTL

\* A page that shows Done or Failed shows how the job ended, and an answer of
\* the API that says so has the whole log.
THEOREM ShownEnd == StreamSpec => []ShownEndIsTrue
<1>1. ASSUME StreamInv PROVE ShownEndIsTrue
  <2> SUFFICES ASSUME detail.status \in Finished
               PROVE  /\ EndTrue(detail.status)
                      /\ polled /\ pc[Watched] = "attached" => Displayed = buf
    BY DEF ShownEndIsTrue, EndTrue
  <2>1. EndTrue(detail.status) /\ (polled => Whole(detail.status, detail.log))
    BY <1>1 DEF StreamInv, ToldInv
  <2>2. Displayed = detail.log
    BY DEF Displayed, Terminal
  <2> QED
    BY <2>1, <2>2 DEF Whole
<1> QED
  BY <1>1, StreamInvariance, PTL


-----------------------------------------------------------------------------
(***************************************************************************)
(* Why the outputs of the job stay where the user looks at them, for any   *)
(* checkpoints, prompts and choices.  The page remembers positions only;   *)
(* as long as checkpoints are saved in their order and none is removed,    *)
(* the list that is displayed, the one on its way and the one the API      *)
(* would answer with begin alike, so that a position keeps its checkpoint. *)
(***************************************************************************)

Maybe(S) == {<<>>} \cup {<<x>> : x \in S}
Shot == Number \X (1..Len(Pair))
Checkpoint == [file : Number, previews : 0..Len(Pair)]
Lightbox == [picture : Shot, dimensions : Maybe(Shot), imgError : Maybe(Shot),
             compareOpen : Maybe(Shot)]

SightTyped ==
    /\ file \in [Number -> {"none", "there", "gone"}]
    /\ shots \in [Number -> 0..Len(Pair)]
    /\ outs \in Maybe(Seq(Checkpoint)) /\ outsFetch \in Maybe(Seq(Checkpoint))
    /\ selectedIndex \in Nat \ {0} /\ lightboxIndex \in 0..Len(Pair)
    /\ modal \in Maybe(Lightbox) /\ thrown \in BOOLEAN
    /\ pulls \in Seq(Number) /\ downloadingId \in Number \cup {0} /\ crossed \in BOOLEAN
    /\ misses \in 0..MaxMisses /\ choices \in 0..MaxChosen
    /\ chosen \in Number \cup {0} /\ looking \in Maybe(Shot) /\ moved \in BOOLEAN

\* What the lightbox keeps of a picture is of the one it displays.
OwnOnly(m) ==
    \A seen \in {m.dimensions, m.imgError, m.compareOpen} : seen \in {<<>>, <<m.picture>>}

\* The lightbox is open on the picture at its position, and not on a page that
\* has failed.
ModalTrue ==
    /\ thrown => modal = <<>>
    /\ modal # <<>> =>
        /\ lightboxIndex \in 1..Previews(outs, selectedIndex)
        /\ modal[1].picture = <<Listed(outs)[selectedIndex].file, lightboxIndex>>
        /\ OwnOnly(modal[1])

\* M has what L has, at the same places, and perhaps more.
Grows(L, M) ==
    /\ Len(L) <= Len(M)
    /\ \A n \in 1..Len(L) : L[n].file = M[n].file /\ L[n].previews <= M[n].previews

\* Checkpoints so far came in their order: the lists begin alike, and what the
\* user chose is where the page remembers it.
SightTrue ==
    ~moved =>
        /\ Grows(Listed(outs), ListNow)
        /\ outsFetch # <<>> => Grows(outsFetch[1], ListNow) /\ Grows(Listed(outs), outsFetch[1])
        /\ ~thrown
        /\ lightboxIndex # 0 => modal # <<>>
        /\ chosen # 0 => /\ selectedIndex \in DOMAIN Listed(outs)
                         /\ Listed(outs)[selectedIndex].file = chosen
        /\ looking # <<>> => modal # <<>> /\ modal[1].picture = looking[1]

\* A button waits for a download in flight; one download has its button.
PullsTrue ==
    /\ downloadingId # 0 => \E n \in DOMAIN pulls : downloadingId = pulls[n]
    /\ ~crossed => Len(pulls) <= 1 /\ \A n \in DOMAIN pulls : downloadingId = pulls[n]

SightInv == SightTyped /\ ModalTrue /\ SightTrue /\ PullsTrue

RankIn(S, k) == Cardinality({m \in S : m <= k})

\* The place of a number is in the set, and a greater number has a later place.
LEMMA RankIs ==
  ASSUME NEW S \in SUBSET Nat, IsFiniteSet(S), NEW k \in S
  PROVE  /\ RankIn(S, k) \in 1..Cardinality(S)
         /\ \A h \in S : h < k => RankIn(S, h) # RankIn(S, k)
<1> DEFINE low(h) == {m \in S : m <= h}
<1>1. Cardinality(S) \in Nat
  BY FS_CardinalityType
<1>2. k \in low(k) /\ IsFiniteSet(low(k)) /\ Cardinality(low(k)) <= Cardinality(S)
  BY FS_Subset
<1>3. Cardinality(low(k)) \in Nat /\ Cardinality(low(k)) # 0
  BY <1>2, FS_CardinalityType, FS_EmptySet
<1>4. ASSUME NEW h \in S, h < k PROVE Cardinality(low(h)) # Cardinality(low(k))
  <2>1. h \in Nat /\ k \in Nat /\ S \subseteq Nat
    OBVIOUS
  <2>2. k \notin low(h)
    BY <1>4, <2>1
  <2>3. \A m \in S : m <= h => m <= k
    BY <1>4, <2>1
  <2>4. low(h) \subseteq low(k)
    BY <2>3
  <2> QED
    BY <1>2, <2>2, <2>4, FS_Subset
<1> QED
  BY <1>1, <1>2, <1>3, <1>4 DEF RankIn

\* Every place of the set is one number's.
LEMMA NthIs ==
  ASSUME NEW S \in SUBSET Nat, IsFiniteSet(S), NEW n \in 1..Cardinality(S)
  PROVE  Nth(S, n) \in S /\ RankIn(S, Nth(S, n)) = n
<1> DEFINE N == Cardinality(S)
           rank == [k \in S |-> RankIn(S, k)]
<1>1. N \in Nat
  BY FS_CardinalityType
<1>2. rank \in [S -> 1..N]
  BY RankIs
<1>3. \A h, k \in S : h < k => rank[h] # rank[k]
  BY RankIs
<1>4. \A h, k \in S : rank[h] = rank[k] => h = k
  BY <1>3
<1>5. IsFiniteSet(1..N) /\ Cardinality(1..N) = N
  BY <1>1, FS_Interval
<1> HIDE DEF rank
<1>6. rank \in Injection(S, 1..N)
  BY <1>2, <1>4 DEF Injection, IsInjective
<1>7. rank \in Surjection(S, 1..N)
  BY <1>5, <1>6, FS_Injection
<1>8. PICK k \in S : rank[k] = n
  BY <1>7 DEF Surjection
<1>9. \E m \in S : Cardinality({x \in S : x <= m}) = n
  BY <1>8 DEF rank, RankIn
<1> QED
  BY <1>9 DEF Nth, RankIn

\* A number is the one at its place.
LEMMA NthOf ==
  ASSUME NEW S \in SUBSET Nat, IsFiniteSet(S), NEW k \in S
  PROVE  Nth(S, RankIn(S, k)) = k
<1>1. PICK n : n = RankIn(S, k)
  OBVIOUS
<1>2. n \in 1..Cardinality(S)
  BY <1>1, RankIs
<1>3. PICK h : h = Nth(S, n)
  OBVIOUS
<1>4. h \in S /\ RankIn(S, h) = RankIn(S, k)
  BY <1>1, <1>2, <1>3, NthIs
<1>5. ~(h < k) /\ ~(k < h)
  BY <1>4, RankIs
<1> QED
  BY <1>1, <1>3, <1>4, <1>5

\* A number greater than all of a set takes the next place and no other.
LEMMA NthGrows ==
  ASSUME NEW S \in SUBSET Nat, IsFiniteSet(S), NEW x \in Nat, \A m \in S : m < x
  PROVE  /\ Cardinality(S \cup {x}) = Cardinality(S) + 1
         /\ \A n \in 1..Cardinality(S) : Nth(S \cup {x}, n) = Nth(S, n)
<1> DEFINE T == S \cup {x}
<1>1. IsFiniteSet(T) /\ Cardinality(T) = Cardinality(S) + 1
  <2>1. x \notin S
    OBVIOUS
  <2> QED
    BY <2>1, FS_AddElement
<1>2. ASSUME NEW n \in 1..Cardinality(S) PROVE Nth(T, n) = Nth(S, n)
  <2>1. PICK k : k = Nth(S, n)
    OBVIOUS
  <2>2. k \in S /\ RankIn(S, k) = n
    BY <2>1, NthIs
  <2>3. {m \in T : m <= k} = {m \in S : m <= k}
    BY <2>2
  <2>4. RankIn(T, k) = n
    BY <2>2, <2>3 DEF RankIn
  <2>5. k \in T /\ T \in SUBSET Nat
    BY <2>2
  <2> QED
    BY <1>1, <2>1, <2>4, <2>5, NthOf
<1> QED
  BY <1>1, <1>2


There == {k \in Number : file[k] = "there"}

\* Numbers in their order, with as many previews as they have, are a list.
LEMMA ListTyped ==
  ASSUME NEW S \in SUBSET Number, NEW many \in [Number -> 0..Len(Pair)]
  PROVE  [n \in 1..Cardinality(S) |-> [file |-> Nth(S, n), previews |-> many[Nth(S, n)]]]
            \in Seq(Checkpoint)
<1>1. S \in SUBSET Nat /\ IsFiniteSet(S)
  BY OutputsPageAssumption, FS_Subset
<1>2. Cardinality(S) \in Nat
  BY <1>1, FS_CardinalityType
<1>3. ASSUME NEW n \in 1..Cardinality(S)
      PROVE  [file |-> Nth(S, n), previews |-> many[Nth(S, n)]] \in Checkpoint
  <2>1. Nth(S, n) \in Number
    BY <1>1, NthIs
  <2> QED
    BY <2>1 DEF Checkpoint
<1>4. [n \in 1..Cardinality(S) |-> [file |-> Nth(S, n), previews |-> many[Nth(S, n)]]]
         \in [1..Cardinality(S) -> Checkpoint]
  BY <1>3
<1> QED
  BY <1>2, <1>4

\* The API answers with a list of checkpoints.
LEMMA NowIs ==
  ASSUME SightTyped
  PROVE  /\ There \in SUBSET Nat /\ IsFiniteSet(There) /\ Cardinality(There) \in Nat
         /\ ListNow \in Seq(Checkpoint) /\ Len(ListNow) = Cardinality(There)
         /\ \A n \in 1..Cardinality(There) :
               ListNow[n] = [file |-> Nth(There, n), previews |-> shots[Nth(There, n)]]
<1>1. There \in SUBSET Nat /\ IsFiniteSet(There)
  BY OutputsPageAssumption, FS_Subset DEF There
<1>2. Cardinality(There) \in Nat
  BY <1>1, FS_CardinalityType
<1>3. ListNow = [n \in 1..Cardinality(There) |->
                    [file |-> Nth(There, n), previews |-> shots[Nth(There, n)]]]
  BY DEF ListNow, There
<1>4. ListNow \in Seq(Checkpoint)
  BY <1>3, ListTyped DEF There, SightTyped
<1> QED
  BY <1>1, <1>2, <1>3, <1>4

\* What begins alike.
LEMMA GrowsOn ==
  ASSUME NEW L \in Seq(Checkpoint), NEW M \in Seq(Checkpoint), NEW N \in Seq(Checkpoint)
  PROVE  /\ Grows(L, L) /\ Grows(<<>>, L)
         /\ Grows(L, M) /\ Grows(M, N) => Grows(L, N)
<1>1. Len(<<>>) = 0
  OBVIOUS
<1>2. \A c \in Checkpoint : c.previews \in Nat
  BY OutputsPageAssumption DEF Checkpoint
<1>3. \A n \in 1..Len(L) : L[n] \in Checkpoint
  OBVIOUS
<1>4. /\ \A n \in 1..Len(M) : M[n] \in Checkpoint
      /\ \A n \in 1..Len(N) : N[n] \in Checkpoint
  OBVIOUS
<1>5. Len(L) \in Nat /\ Len(M) \in Nat /\ Len(N) \in Nat
  OBVIOUS
<1>6. Grows(L, L)
  BY <1>2, <1>3, <1>5 DEF Grows
<1>7. Grows(<<>>, L)
  BY <1>1, <1>5 DEF Grows
<1>8. ASSUME Grows(L, M), Grows(M, N) PROVE Grows(L, N)
  <2>1. Len(L) <= Len(N)
    BY <1>5, <1>8 DEF Grows
  <2>2. ASSUME NEW n \in 1..Len(L) PROVE L[n].file = N[n].file /\ L[n].previews <= N[n].previews
    <3>1. n \in 1..Len(M) /\ n \in 1..Len(N)
      BY <1>5, <1>8, <2>1 DEF Grows
    <3>2. /\ L[n].file = M[n].file /\ L[n].previews <= M[n].previews
          /\ M[n].file = N[n].file /\ M[n].previews <= N[n].previews
      BY <1>8, <3>1 DEF Grows
    <3> QED
      BY <1>2, <1>3, <1>4, <3>1, <3>2
  <2> QED
    BY <2>1, <2>2 DEF Grows
<1> QED
  BY <1>6, <1>7, <1>8

\* A checkpoint saved after all others goes to the end of the list.
LEMMA SavedLast ==
  ASSUME SightTyped, NEW k \in Number, SaveNumber(k), ~moved', SightTyped'
  PROVE  Grows(ListNow, ListNow')
<1>1. /\ file[k] = "none" /\ file' = [file EXCEPT ![k] = "there"] /\ shots' = shots
      /\ \A n \in Number : ~(file[n] = "there" /\ n > k)
  BY DEF SaveNumber
<1>2. PICK S : S = There
  OBVIOUS
<1>3. PICK T : T = There'
  OBVIOUS
<1>4. T = S \cup {k} /\ k \notin S /\ S \subseteq Number
  BY <1>1, <1>2, <1>3 DEF There, SightTyped
<1>5. /\ S \in SUBSET Nat /\ IsFiniteSet(S) /\ Cardinality(S) \in Nat
      /\ Len(ListNow) = Cardinality(S)
      /\ \A n \in 1..Cardinality(S) : ListNow[n] = [file |-> Nth(S, n), previews |-> shots[Nth(S, n)]]
  BY <1>2, NowIs
<1>6. ListNow' = [n \in 1..Cardinality(T) |->
                    [file |-> Nth(T, n), previews |-> shots'[Nth(T, n)]]]
  BY <1>3 DEF ListNow, There
<1>7. k \in Nat /\ \A m \in S : m < k
  BY <1>1, <1>2, <1>4, <1>5, OutputsPageAssumption DEF There
<1>8. Cardinality(T) = Cardinality(S) + 1 /\ \A n \in 1..Cardinality(S) : Nth(T, n) = Nth(S, n)
  BY <1>4, <1>5, <1>7, NthGrows
<1>9. Len(ListNow') = Cardinality(T)
  BY <1>5, <1>6, <1>8
<1>10. \A n \in 1..Cardinality(S) : ListNow'[n] = ListNow[n]
  <2> SUFFICES ASSUME NEW n \in 1..Cardinality(S) PROVE ListNow'[n] = ListNow[n]
    OBVIOUS
  <2>1. n \in 1..Cardinality(T)
    BY <1>5, <1>8
  <2>2. ListNow'[n] = [file |-> Nth(T, n), previews |-> shots'[Nth(T, n)]]
    BY <1>6, <2>1
  <2> QED
    BY <1>1, <1>5, <1>8, <2>2
<1>11. \A n \in 1..Cardinality(S) : ListNow[n].previews \in Nat
  BY <1>5, NowIs, OutputsPageAssumption DEF Checkpoint
<1> HIDE DEF ListNow
<1> QED
  BY <1>5, <1>8, <1>9, <1>10, <1>11 DEF Grows

\* A further preview leaves the list otherwise as it is.
LEMMA SampledMore ==
  ASSUME SightTyped, NEW k \in Number, SampleNumber(k)
  PROVE  Grows(ListNow, ListNow')
<1>1. file' = file /\ shots' = [shots EXCEPT ![k] = shots[k] + 1]
  BY DEF SampleNumber
<1>2. PICK S : S = There
  OBVIOUS
<1>3. /\ S \in SUBSET Nat /\ IsFiniteSet(S) /\ Cardinality(S) \in Nat
      /\ Len(ListNow) = Cardinality(S)
      /\ \A n \in 1..Cardinality(S) : ListNow[n] = [file |-> Nth(S, n), previews |-> shots[Nth(S, n)]]
  BY <1>2, NowIs
<1>4. ListNow' = [n \in 1..Cardinality(S) |->
                    [file |-> Nth(S, n), previews |-> shots'[Nth(S, n)]]]
  BY <1>1, <1>2 DEF ListNow, There
<1>5. Len(ListNow') = Cardinality(S)
  BY <1>3, <1>4
<1>6. ASSUME NEW n \in 1..Cardinality(S)
      PROVE  ListNow[n].file = ListNow'[n].file /\ ListNow[n].previews <= ListNow'[n].previews
  <2>1. PICK h : h = Nth(S, n)
    OBVIOUS
  <2>2. h \in Number
    BY <1>2, <1>3, <2>1, NthIs DEF There
  <2>3. shots[h] \in Nat /\ shots[h] <= shots'[h]
    BY <1>1, <2>2, OutputsPageAssumption DEF SightTyped
  <2> QED
    BY <1>3, <1>4, <2>1, <2>3
<1> QED
  BY <1>3, <1>5, <1>6 DEF Grows

\* The trainer saves, removes or samples.
LEMMA TrainerSight ==
  ASSUME SightInv, NEW k \in Number, SaveNumber(k) \/ RemoveNumber(k) \/ SampleNumber(k)
  PROVE  SightInv'
<1>1. SightTyped /\ ModalTrue /\ SightTrue /\ PullsTrue
  BY DEF SightInv
<1>2. UNCHANGED <<outs, outsFetch, selectedIndex, lightboxIndex, modal, thrown, pulls,
                  downloadingId, crossed, misses, choices, chosen, looking>>
  BY DEF SaveNumber, RemoveNumber, SampleNumber, outsVars, pullVars, sightVars
<1>3. /\ file' \in [Number -> {"none", "there", "gone"}]
      /\ shots' \in [Number -> 0..Len(Pair)]
      /\ moved' \in BOOLEAN /\ (moved => moved')
  <2>1. CASE SaveNumber(k)
    BY <1>1, <2>1 DEF SaveNumber, SightTyped
  <2>2. CASE RemoveNumber(k)
    BY <1>1, <2>2 DEF RemoveNumber, SightTyped
  <2>3. CASE SampleNumber(k)
    <3>1. Len(Pair) \in Nat /\ shots[k] \in 0..Len(Pair) /\ shots[k] < Len(Pair)
      BY <1>1, <2>3, OutputsPageAssumption DEF SampleNumber, SightTyped
    <3>2. shots[k] + 1 \in 0..Len(Pair)
      BY <3>1
    <3>3. shots' = [shots EXCEPT ![k] = shots[k] + 1] /\ file' = file /\ moved' = moved
      BY <2>3 DEF SampleNumber
    <3> QED
      BY <1>1, <3>2, <3>3 DEF SightTyped
  <2> QED
    BY <2>1, <2>2, <2>3
<1>4. SightTyped'
  BY <1>1, <1>2, <1>3 DEF SightTyped
<1>5. ModalTrue' /\ PullsTrue'
  BY <1>1, <1>2 DEF ModalTrue, PullsTrue, Previews, Listed
<1>6. ~moved' => Grows(ListNow, ListNow')
  BY <1>1, <1>4, SavedLast, SampledMore DEF RemoveNumber
<1>7. SightTrue'
  <2> SUFFICES ASSUME ~moved' PROVE SightTrue'
    BY DEF SightTrue
  <2>1. PICK now, later : now = ListNow /\ later = ListNow'
    OBVIOUS
  <2>2. now \in Seq(Checkpoint) /\ Grows(now, later)
    BY <1>1, <1>6, <2>1, NowIs
  <2>3. later \in Seq(Checkpoint)
    <3>1. PICK T, many : T = There' /\ many = shots'
      OBVIOUS
    <3>2. T \in SUBSET Number /\ many \in [Number -> 0..Len(Pair)]
      BY <1>3, <3>1 DEF There
    <3>3. later = [n \in 1..Cardinality(T) |-> [file |-> Nth(T, n), previews |-> many[Nth(T, n)]]]
      BY <2>1, <3>1 DEF ListNow, There
    <3> QED
      BY <3>2, <3>3, ListTyped
  <2>4. Listed(outs) \in Seq(Checkpoint) /\ (outsFetch # <<>> => outsFetch[1] \in Seq(Checkpoint))
    BY <1>1 DEF SightTyped, Maybe, Listed
  <2>5. Grows(Listed(outs), now) => Grows(Listed(outs), later)
    BY <2>2, <2>3, <2>4, GrowsOn
  <2>6. outsFetch # <<>> /\ Grows(outsFetch[1], now) => Grows(outsFetch[1], later)
    BY <2>2, <2>3, <2>4, GrowsOn
  <2>7. UNCHANGED Listed(outs)
    BY <1>2 DEF Listed
  <2> QED
    BY <1>1, <1>2, <1>3, <2>1, <2>5, <2>6, <2>7 DEF SightTrue
<1> QED
  BY <1>4, <1>5, <1>7 DEF SightInv


\* The page opens with no list.
LEMMA SightInit == OutputsInit => SightInv
<1> SUFFICES ASSUME OutputsInit PROVE SightInv
  OBVIOUS
<1>1. /\ outs = <<>> /\ outsFetch = <<>> /\ modal = <<>> /\ thrown = FALSE /\ lightboxIndex = 0
      /\ pulls = <<>> /\ downloadingId = 0 /\ chosen = 0 /\ looking = <<>> /\ selectedIndex = 1
      /\ misses = 0 /\ choices = 0 /\ moved = FALSE /\ crossed = FALSE
      /\ file = [k \in Number |-> "none"] /\ shots = [k \in Number |-> 0]
  BY DEF OutputsInit
<1>2. pulls \in Seq(Number) /\ Len(pulls) = 0 /\ DOMAIN pulls = {}
  BY <1>1
<1>3. Len(Pair) \in Nat
  BY OutputsPageAssumption
<1>4. SightTyped
  <2>1. file \in [Number -> {"none", "there", "gone"}] /\ shots \in [Number -> 0..Len(Pair)]
    BY <1>1, <1>3
  <2>2. selectedIndex \in Nat \ {0} /\ lightboxIndex \in 0..Len(Pair)
        /\ misses \in 0..MaxMisses /\ choices \in 0..MaxChosen
    BY <1>1, <1>3, OutputsPageAssumption
  <2> QED
    BY <1>1, <1>2, <2>1, <2>2 DEF SightTyped, Maybe
<1>5. ModalTrue /\ PullsTrue
  BY <1>1, <1>2 DEF ModalTrue, PullsTrue
<1>6. Listed(outs) = <<>>
  BY <1>1 DEF Listed
<1>7. Grows(<<>>, ListNow)
  BY <1>4, NowIs, GrowsOn
<1>8. SightTrue
  BY <1>1, <1>6, <1>7 DEF SightTrue
<1> QED
  BY <1>4, <1>5, <1>8 DEF SightInv

\* What is rendered: a lightbox on the picture at its position, none if there is
\* no position.
LEMMA RenderIs ==
  ASSUME SightInv, NEW answer \in Maybe(Seq(Checkpoint)), NEW s \in Nat \ {0},
         NEW l \in 0..Len(Pair), Render(answer, s, l)
  PROVE  /\ outs' = answer /\ selectedIndex' = s /\ lightboxIndex' = l
         /\ modal' \in Maybe(Lightbox) /\ thrown' \in BOOLEAN /\ ModalTrue'
         /\ l = 0 => modal' = <<>> /\ ~thrown'
         /\ l \in 1..Previews(answer, s) =>
               /\ ~thrown' /\ modal' # <<>>
               /\ modal'[1].picture = <<Listed(answer)[s].file, l>>
               /\ s \in DOMAIN Listed(answer)
<1> DEFINE n == Previews(answer, s)
<1>1. /\ outs' = answer /\ selectedIndex' = s /\ lightboxIndex' = l
      /\ \/ (l = 0 \/ n = 0) /\ modal' = <<>> /\ thrown' = FALSE
         \/ l \in 1..n /\ modal' = <<Reset(<<Listed(answer)[s].file, l>>)>> /\ thrown' = FALSE
         \/ n > 0 /\ l > n /\ modal' = <<>> /\ thrown' = TRUE
  BY DEF Render
<1>2. Len(Pair) \in Nat
  BY OutputsPageAssumption
<1>3. Listed(answer) \in Seq(Checkpoint)
  BY DEF Maybe, Listed
<1>4. s \in DOMAIN Listed(answer) => Listed(answer)[s] \in Checkpoint
  BY <1>3
<1>5. n \in 0..Len(Pair)
  BY <1>2, <1>4 DEF Previews, Checkpoint
<1>6. ASSUME l \in 1..n
      PROVE  s \in DOMAIN Listed(answer) /\ <<Listed(answer)[s].file, l>> \in Shot
  <2>1. s \in DOMAIN Listed(answer)
    BY <1>6 DEF Previews
  <2>2. l \in 1..Len(Pair)
    BY <1>2, <1>5, <1>6
  <2> QED
    BY <1>4, <2>1, <2>2 DEF Checkpoint, Shot
<1>7. ASSUME NEW p \in Shot
      PROVE  Reset(p) \in Lightbox /\ Reset(p).picture = p /\ OwnOnly(Reset(p))
  <2>1. CASE modal # <<>> /\ modal[1].picture = p
    <3>1. Reset(p) = modal[1]
      BY <2>1 DEF Reset
    <3>2. modal[1] \in Lightbox
      BY <2>1 DEF SightInv, SightTyped, Maybe
    <3> QED
      BY <2>1, <3>1, <3>2 DEF SightInv, ModalTrue
  <2>2. CASE ~(modal # <<>> /\ modal[1].picture = p)
    <3>1. Reset(p) = [picture |-> p, dimensions |-> <<>>, imgError |-> <<>>, compareOpen |-> <<>>]
      BY <2>2 DEF Reset
    <3> QED
      BY <3>1 DEF Lightbox, Maybe, OwnOnly
  <2> QED
    BY <2>1, <2>2
<1>8. Previews(outs, selectedIndex)' = n /\ Listed(outs)' = Listed(answer)
  BY <1>1 DEF Previews, Listed
<1>9. CASE (l = 0 \/ n = 0) /\ modal' = <<>> /\ thrown' = FALSE
  <2>1. ~(l \in 1..n)
    BY <1>2, <1>5, <1>9
  <2> HIDE DEF n
  <2> QED
    BY <1>1, <1>9, <2>1 DEF ModalTrue, Maybe, n
<1>10. CASE l \in 1..n /\ modal' = <<Reset(<<Listed(answer)[s].file, l>>)>> /\ thrown' = FALSE
  <2>1. PICK p : p = <<Listed(answer)[s].file, l>>
    OBVIOUS
  <2>2. p \in Shot /\ s \in DOMAIN Listed(answer)
    BY <1>6, <1>10, <2>1
  <2>3. PICK m : m = Reset(p)
    OBVIOUS
  <2>4. m \in Lightbox /\ m.picture = p /\ OwnOnly(m)
    BY <1>7, <2>2, <2>3
  <2>5. modal' = <<m>>
    BY <1>10, <2>1, <2>3
  <2>6. modal' # <<>> /\ modal'[1] = m
    BY <2>5
  <2>7. modal' \in Maybe(Lightbox)
    BY <2>4, <2>5 DEF Maybe
  <2>8. l \in 1..n /\ l # 0
    BY <1>10, <1>5
  <2> HIDE DEF n
  <2>9. ModalTrue'
    BY <1>1, <1>8, <2>1, <2>4, <2>6, <2>8 DEF ModalTrue, OwnOnly
  <2> QED
    BY <1>1, <1>10, <2>1, <2>2, <2>4, <2>6, <2>7, <2>8, <2>9
<1>11. CASE n > 0 /\ l > n /\ modal' = <<>> /\ thrown' = TRUE
  <2>1. ~(l \in 1..n) /\ l # 0
    BY <1>2, <1>5, <1>11
  <2> HIDE DEF n
  <2> QED
    BY <1>1, <1>11, <2>1 DEF ModalTrue, Maybe, n
<1> QED
  BY <1>1, <1>9, <1>10, <1>11


\* The list is asked for, arrives or fails.
LEMMA QuerySight ==
  ASSUME SightInv, FetchOutputs \/ OutputsArrive \/ OutputsFail
  PROVE  SightInv'
<1>1. SightTyped /\ ModalTrue /\ SightTrue /\ PullsTrue
  BY DEF SightInv
<1>2. PICK now : now = ListNow
  OBVIOUS
<1>3. now \in Seq(Checkpoint)
  BY <1>1, <1>2, NowIs
<1>4. Listed(outs) \in Seq(Checkpoint) /\ (outsFetch # <<>> => outsFetch[1] \in Seq(Checkpoint))
  BY <1>1 DEF SightTyped, Maybe, Listed
<1>5. UNCHANGED <<file, shots, pulls, downloadingId, crossed, choices, chosen, looking, moved>>
  BY DEF FetchOutputs, OutputsArrive, OutputsFail, pullVars, sightVars
<1>6. PullsTrue'
  BY <1>1, <1>5 DEF PullsTrue
<1>7. ListNow' = now
  BY <1>2, <1>5 DEF ListNow
<1>8. CASE FetchOutputs
  <2>1. /\ outsFetch' = <<now>>
        /\ UNCHANGED <<outs, selectedIndex, lightboxIndex, modal, thrown, misses>>
    BY <1>2, <1>8 DEF FetchOutputs
  <2>2. SightTyped'
    BY <1>1, <1>3, <1>5, <2>1 DEF SightTyped, Maybe
  <2>3. ModalTrue'
    BY <1>1, <2>1 DEF ModalTrue, Previews, Listed
  <2>4. outsFetch'[1] = now /\ Listed(outs)' = Listed(outs)
    BY <2>1 DEF Listed
  <2>5. Grows(now, now)
    BY <1>3, GrowsOn
  <2>6. SightTrue'
    BY <1>1, <1>2, <1>5, <1>7, <2>1, <2>4, <2>5 DEF SightTrue
  <2> QED
    BY <1>6, <2>2, <2>3, <2>6 DEF SightInv
<1>9. CASE OutputsFail
  <2>1. /\ outsFetch' = <<>> /\ misses < MaxMisses /\ misses' = misses + 1
        /\ UNCHANGED <<outs, selectedIndex, lightboxIndex, modal, thrown>>
    BY <1>9 DEF OutputsFail, Miss
  <2>2. misses' \in 0..MaxMisses
    BY <1>1, <2>1, OutputsPageAssumption DEF SightTyped
  <2>3. SightTyped'
    BY <1>1, <1>5, <2>1, <2>2 DEF SightTyped, Maybe
  <2>4. ModalTrue'
    BY <1>1, <2>1 DEF ModalTrue, Previews, Listed
  <2>5. Listed(outs)' = Listed(outs)
    BY <2>1 DEF Listed
  <2>6. SightTrue'
    BY <1>1, <1>2, <1>5, <1>7, <2>1, <2>5 DEF SightTrue
  <2> QED
    BY <1>6, <2>3, <2>4, <2>6 DEF SightInv
<1>10. CASE OutputsArrive /\ thrown
  <2>1. /\ outsFetch' = <<>> /\ outs' = outsFetch
        /\ UNCHANGED <<selectedIndex, lightboxIndex, modal, thrown, misses>>
    BY <1>10 DEF OutputsArrive
  <2>2. SightTyped'
    BY <1>1, <1>5, <2>1 DEF SightTyped, Maybe
  <2>3. moved
    BY <1>1, <1>10 DEF SightTrue
  <2>4. modal = <<>>
    BY <1>1, <1>10 DEF ModalTrue
  <2> QED
    BY <1>5, <1>6, <2>1, <2>2, <2>3, <2>4 DEF SightInv, SightTrue, ModalTrue
<1>11. CASE OutputsArrive /\ ~thrown
  <2>1. PICK answer : answer = outsFetch
    OBVIOUS
  <2>2. /\ outsFetch # <<>> /\ outsFetch' = <<>> /\ misses' = misses
        /\ Render(answer, selectedIndex, lightboxIndex)
    BY <1>11, <2>1 DEF OutputsArrive
  <2>3. answer \in Maybe(Seq(Checkpoint)) /\ selectedIndex \in Nat \ {0}
        /\ lightboxIndex \in 0..Len(Pair)
    BY <1>1, <2>1 DEF SightTyped
  <2>4. /\ outs' = answer /\ selectedIndex' = selectedIndex /\ lightboxIndex' = lightboxIndex
        /\ modal' \in Maybe(Lightbox) /\ thrown' \in BOOLEAN /\ ModalTrue'
        /\ lightboxIndex = 0 => modal' = <<>> /\ ~thrown'
        /\ lightboxIndex \in 1..Previews(answer, selectedIndex) =>
              /\ ~thrown' /\ modal' # <<>>
              /\ modal'[1].picture = <<Listed(answer)[selectedIndex].file, lightboxIndex>>
    BY <2>2, <2>3, RenderIs
  <2>5. SightTyped'
    BY <1>1, <1>5, <2>2, <2>3, <2>4 DEF SightTyped, Maybe
  <2>6. SightTrue'
    <3> SUFFICES ASSUME ~moved PROVE SightTrue'
      BY <1>5 DEF SightTrue
    <3>1. PICK old, new : old = Listed(outs) /\ new = Listed(answer)
      OBVIOUS
    <3>2. new = answer[1] /\ Listed(outs)' = new
      BY <2>1, <2>2, <2>4, <3>1 DEF Listed
    <3>3. Grows(new, now) /\ Grows(old, new) /\ ~thrown /\ (lightboxIndex # 0 => modal # <<>>)
      BY <1>1, <1>2, <2>1, <2>2, <3>1, <3>2 DEF SightTrue
    <3>4. old \in Seq(Checkpoint) /\ new \in Seq(Checkpoint)
      BY <1>4, <2>1, <2>2, <3>1, <3>2
    <3>5. ASSUME NEW k \in DOMAIN old
          PROVE  /\ k \in DOMAIN new /\ new[k].file = old[k].file
                 /\ old[k].previews <= new[k].previews
                 /\ old[k].previews \in Nat /\ new[k].previews \in Nat
      <4>1. k \in 1..Len(old) /\ k \in 1..Len(new)
        BY <3>3, <3>4 DEF Grows
      <4>2. old[k] \in Checkpoint /\ new[k] \in Checkpoint
        BY <3>4, <4>1
      <4>3. old[k].previews \in Nat /\ new[k].previews \in Nat
        BY <4>2, OutputsPageAssumption DEF Checkpoint
      <4>4. new[k].file = old[k].file /\ old[k].previews <= new[k].previews
        BY <3>3, <4>1 DEF Grows
      <4>5. k \in DOMAIN new
        BY <3>4, <4>1
      <4> QED
        BY <4>3, <4>4, <4>5
    <3>6. ASSUME lightboxIndex # 0
          PROVE  /\ lightboxIndex \in 1..Previews(answer, selectedIndex)
                 /\ new[selectedIndex].file = old[selectedIndex].file
      <4>1. lightboxIndex \in 1..Previews(outs, selectedIndex)
        BY <1>1, <3>3, <3>6 DEF ModalTrue
      <4>2. selectedIndex \in DOMAIN old /\ Previews(outs, selectedIndex) = old[selectedIndex].previews
        BY <3>1, <4>1 DEF Previews
      <4>3. selectedIndex \in DOMAIN new /\ Previews(answer, selectedIndex) = new[selectedIndex].previews
        BY <3>1, <3>5, <4>2 DEF Previews
      <4>4. old[selectedIndex].previews <= new[selectedIndex].previews
            /\ old[selectedIndex].previews \in Nat /\ new[selectedIndex].previews \in Nat
            /\ new[selectedIndex].file = old[selectedIndex].file
        BY <3>5, <4>2
      <4> QED
        BY <2>3, <4>1, <4>2, <4>3, <4>4
    <3>7. lightboxIndex = 0 => modal = <<>>
      BY <1>1, <2>3 DEF ModalTrue
    <3>8. ~thrown' /\ (lightboxIndex' # 0 => modal' # <<>>)
      BY <2>4, <3>6
    <3>9. chosen' # 0 => selectedIndex' \in DOMAIN Listed(outs)'
                         /\ Listed(outs)'[selectedIndex'].file = chosen'
      <4> SUFFICES ASSUME chosen # 0
                   PROVE  selectedIndex \in DOMAIN new /\ new[selectedIndex].file = chosen
        BY <1>5, <2>4, <3>2
      <4>1. selectedIndex \in DOMAIN old /\ old[selectedIndex].file = chosen
        BY <1>1, <3>1 DEF SightTrue
      <4> QED
        BY <3>5, <4>1
    <3>10. looking' # <<>> => modal' # <<>> /\ modal'[1].picture = looking'[1]
      <4> SUFFICES ASSUME looking # <<>>
                   PROVE  modal' # <<>> /\ modal'[1].picture = looking[1]
        BY <1>5
      <4>1. modal # <<>> /\ modal[1].picture = looking[1]
        BY <1>1 DEF SightTrue
      <4>2. lightboxIndex # 0 /\ modal[1].picture = <<old[selectedIndex].file, lightboxIndex>>
        BY <1>1, <3>1, <3>7, <4>1 DEF ModalTrue
      <4> QED
        BY <2>4, <3>1, <3>6, <4>1, <4>2
    <3> QED
      BY <1>5, <1>7, <2>2, <3>2, <3>3, <3>8, <3>9, <3>10 DEF SightTrue
  <2> QED
    BY <1>6, <2>4, <2>5, <2>6 DEF SightInv
<1> QED
  BY <1>8, <1>9, <1>10, <1>11


\* A new position in the list on display: what the user chose is there.
LEMMA ChoiceSight ==
  ASSUME SightInv, NEW s \in Nat \ {0}, NEW l \in 0..Len(Pair), Render(outs, s, l),
         l # 0 => l \in 1..Previews(outs, s),
         UNCHANGED <<file, shots, outsFetch, misses, moved>>,
         choices' \in 0..MaxChosen, chosen' \in Number \cup {0}, looking' \in Maybe(Shot),
         pulls' \in Seq(Number), downloadingId' \in Number \cup {0}, crossed' \in BOOLEAN,
         PullsTrue',
         ~moved /\ chosen' # 0 => s \in DOMAIN Listed(outs) /\ Listed(outs)[s].file = chosen',
         looking' # <<>> => l # 0 /\ looking'[1] = <<Listed(outs)[s].file, l>>
  PROVE  SightInv'
<1>1. SightTyped /\ ModalTrue /\ SightTrue /\ PullsTrue
  BY DEF SightInv
<1>2. outs \in Maybe(Seq(Checkpoint))
  BY <1>1 DEF SightTyped
<1>3. /\ outs' = outs /\ selectedIndex' = s /\ lightboxIndex' = l
      /\ modal' \in Maybe(Lightbox) /\ thrown' \in BOOLEAN /\ ModalTrue'
      /\ l = 0 => modal' = <<>> /\ ~thrown'
      /\ l \in 1..Previews(outs, s) =>
            /\ ~thrown' /\ modal' # <<>>
            /\ modal'[1].picture = <<Listed(outs)[s].file, l>>
  BY <1>2, RenderIs
<1>4. SightTyped'
  BY <1>1, <1>3 DEF SightTyped
<1>5. ListNow' = ListNow /\ Listed(outs)' = Listed(outs)
  BY <1>3 DEF ListNow, Listed
<1>6. SightTrue'
  BY <1>1, <1>3, <1>5 DEF SightTrue
<1> QED
  BY <1>3, <1>4, <1>6 DEF SightInv

\* The user selects, opens, goes on, closes or leaves.
LEMMA UserSight ==
  ASSUME SightInv,
         \/ \E n \in Number : SelectCheckpoint(n)
         \/ \E l \in Prompts : OpenLightbox(l)
         \/ \E step \in {"left", "right"} : Navigate(step)
         \/ CloseLightbox \/ LeaveOutputs
  PROVE  SightInv'
<1>1. SightTyped /\ ModalTrue /\ SightTrue /\ PullsTrue
  BY DEF SightInv
<1>2. Len(Pair) \in Nat
  BY OutputsPageAssumption
<1>3. Listed(outs) \in Seq(Checkpoint)
  BY <1>1 DEF SightTyped, Maybe, Listed
<1>4. \A s \in DOMAIN Listed(outs) : /\ Listed(outs)[s] \in Checkpoint
                                     /\ Listed(outs)[s].file \in Number /\ Listed(outs)[s].file # 0
                                     /\ Listed(outs)[s].previews \in 0..Len(Pair)
                                     /\ s \in Nat \ {0}
  <2> SUFFICES ASSUME NEW s \in DOMAIN Listed(outs)
               PROVE  /\ Listed(outs)[s] \in Checkpoint
                      /\ Listed(outs)[s].file \in Number /\ Listed(outs)[s].file # 0
                      /\ Listed(outs)[s].previews \in 0..Len(Pair)
                      /\ s \in Nat \ {0}
    OBVIOUS
  <2>1. Listed(outs)[s] \in Checkpoint /\ s \in Nat \ {0}
    BY <1>3
  <2>2. Listed(outs)[s].file \in Number /\ Listed(outs)[s].previews \in 0..Len(Pair)
    BY <2>1 DEF Checkpoint
  <2> QED
    BY <2>1, <2>2, OutputsPageAssumption
<1>5. ASSUME NEW s \in Nat, NEW l \in 1..Previews(outs, s)
      PROVE  /\ s \in DOMAIN Listed(outs) /\ l \in 0..Len(Pair) /\ l # 0
             /\ <<Listed(outs)[s].file, l>> \in Shot
             /\ <<<<Listed(outs)[s].file, l>>>> \in Maybe(Shot)
  <2>1. s \in DOMAIN Listed(outs)
    BY DEF Previews
  <2>2. l \in 1..Len(Pair)
    BY <1>2, <1>4, <2>1 DEF Previews
  <2>3. <<Listed(outs)[s].file, l>> \in Shot
    BY <1>4, <2>1, <2>2 DEF Shot
  <2> QED
    BY <1>2, <2>1, <2>2, <2>3 DEF Maybe
<1>6. /\ selectedIndex \in Nat \ {0} /\ chosen \in Number \cup {0} /\ choices \in 0..MaxChosen
      /\ pulls \in Seq(Number) /\ downloadingId \in Number \cup {0} /\ crossed \in BOOLEAN
  BY <1>1 DEF SightTyped
<1>7. Choose => choices' \in 0..MaxChosen
  BY <1>6, OutputsPageAssumption DEF Choose
<1>8. UNCHANGED pullVars => /\ PullsTrue' /\ pulls' \in Seq(Number)
                            /\ downloadingId' \in Number \cup {0} /\ crossed' \in BOOLEAN
  BY <1>1, <1>6 DEF pullVars, PullsTrue
<1>9. ~moved /\ chosen # 0 => selectedIndex \in DOMAIN Listed(outs)
                              /\ Listed(outs)[selectedIndex].file = chosen
  BY <1>1 DEF SightTrue
<1>10. 0 \in 0..Len(Pair) /\ <<>> \in Maybe(Shot)
  BY <1>2 DEF Maybe
<1>11. ASSUME NEW s \in Number, SelectCheckpoint(s) PROVE SightInv'
  <2>1. /\ Choose /\ s \in DOMAIN Listed(outs) /\ Render(outs, s, 0)
        /\ chosen' = Listed(outs)[s].file /\ looking' = <<>>
        /\ UNCHANGED <<file, shots, outsFetch, misses, moved>> /\ UNCHANGED pullVars
    BY <1>11 DEF SelectCheckpoint
  <2> QED
    BY <1>4, <1>7, <1>8, <1>10, <2>1, ChoiceSight
<1>12. ASSUME NEW l \in Prompts, OpenLightbox(l) PROVE SightInv'
  <2>1. /\ Choose /\ l \in 1..Previews(outs, selectedIndex) /\ Render(outs, selectedIndex, l)
        /\ looking' = <<<<Listed(outs)[selectedIndex].file, l>>>>
        /\ UNCHANGED <<file, shots, outsFetch, misses, chosen, moved>> /\ UNCHANGED pullVars
    BY <1>12 DEF OpenLightbox
  <2>2. l \in 0..Len(Pair) /\ l # 0 /\ looking' \in Maybe(Shot)
    BY <1>5, <1>6, <2>1
  <2>3. looking'[1] = <<Listed(outs)[selectedIndex].file, l>>
    BY <2>1
  <2> QED
    BY <1>6, <1>7, <1>8, <1>9, <2>1, <2>2, <2>3, ChoiceSight
<1>13. ASSUME NEW step \in {"left", "right"}, Navigate(step) PROVE SightInv'
  <2>1. PICK n : n = Previews(outs, selectedIndex)
    OBVIOUS
  <2>2. PICK l : l = IF step = "right" THEN (IF lightboxIndex < n THEN lightboxIndex + 1 ELSE n)
                     ELSE IF lightboxIndex > 1 THEN lightboxIndex - 1 ELSE 1
    OBVIOUS
  <2>3. /\ modal # <<>> /\ Choose /\ Render(outs, selectedIndex, l)
        /\ looking' = <<<<Listed(outs)[selectedIndex].file, l>>>>
        /\ UNCHANGED <<file, shots, outsFetch, misses, chosen, moved>> /\ UNCHANGED pullVars
    BY <1>13, <2>1, <2>2 DEF Navigate
  <2>4. lightboxIndex \in 1..n
    BY <1>1, <2>1, <2>3 DEF ModalTrue
  <2>5. n \in Nat
    <3>1. n \in 0..Len(Pair)
      BY <1>2, <1>4, <2>1 DEF Previews
    <3> QED
      BY <1>2, <3>1
  <2>6. l \in 1..n
    BY <2>2, <2>4, <2>5
  <2>7. l \in 0..Len(Pair) /\ l # 0 /\ looking' \in Maybe(Shot)
    BY <1>5, <1>6, <2>1, <2>3, <2>6
  <2>8. looking'[1] = <<Listed(outs)[selectedIndex].file, l>>
    BY <2>3
  <2> QED
    BY <1>6, <1>7, <1>8, <1>9, <2>1, <2>3, <2>6, <2>7, <2>8, ChoiceSight
<1>14. CASE CloseLightbox
  <2>1. /\ Render(outs, selectedIndex, 0) /\ looking' = <<>>
        /\ UNCHANGED <<file, shots, outsFetch, misses, choices, chosen, moved>> /\ UNCHANGED pullVars
    BY <1>14 DEF CloseLightbox
  <2> QED
    BY <1>6, <1>8, <1>9, <1>10, <2>1, ChoiceSight
<1>15. CASE LeaveOutputs
  <2>1. /\ Choose /\ Render(outs, 1, 0)
        /\ pulls' = <<>> /\ downloadingId' = 0 /\ crossed' = FALSE
        /\ chosen' = 0 /\ looking' = <<>>
        /\ UNCHANGED <<file, shots, outsFetch, misses, moved>>
    BY <1>15 DEF LeaveOutputs
  <2>2. pulls' \in Seq(Number) /\ Len(pulls') = 0 /\ DOMAIN pulls' = {}
    BY <2>1
  <2>3. PullsTrue'
    BY <2>1, <2>2 DEF PullsTrue
  <2>4. /\ choices' \in 0..MaxChosen /\ chosen' \in Number \cup {0} /\ looking' \in Maybe(Shot)
        /\ downloadingId' \in Number \cup {0} /\ crossed' \in BOOLEAN
        /\ chosen' = 0 /\ looking' = <<>>
    BY <1>7, <1>10, <2>1
  <2>5. 1 \in Nat \ {0}
    OBVIOUS
  <2> QED
    BY <1>10, <2>1, <2>2, <2>3, <2>4, <2>5, ChoiceSight
<1> QED
  BY <1>11, <1>12, <1>13, <1>14, <1>15


\* The picture loads or fails to, or is compared: what the lightbox keeps is of
\* the picture it displays.
LEMMA ModalSight ==
  ASSUME SightInv, NEW m \in Lightbox, modal # <<>>, m.picture = modal[1].picture, OwnOnly(m),
         modal' = <<m>>, misses' \in 0..MaxMisses, choices' \in 0..MaxChosen,
         UNCHANGED <<file, shots, outs, outsFetch, selectedIndex, lightboxIndex, thrown, pullVars,
                     sightVars, moved>>
  PROVE  SightInv'
<1>1. SightTyped /\ ModalTrue /\ SightTrue /\ PullsTrue
  BY DEF SightInv
<1>2. UNCHANGED <<pulls, downloadingId, crossed, chosen, looking>>
  BY DEF pullVars, sightVars
<1>3. modal' # <<>> /\ modal'[1] = m /\ modal' \in Maybe(Lightbox)
  BY DEF Maybe
<1>4. SightTyped'
  BY <1>1, <1>2, <1>3 DEF SightTyped
<1>5. ModalTrue'
  BY <1>1, <1>3 DEF ModalTrue, Previews, Listed, OwnOnly
<1>6. ListNow' = ListNow /\ Listed(outs)' = Listed(outs)
  BY DEF ListNow, Listed
<1>7. SightTrue'
  BY <1>1, <1>2, <1>3, <1>6 DEF SightTrue
<1>8. PullsTrue'
  BY <1>1, <1>2 DEF PullsTrue
<1> QED
  BY <1>4, <1>5, <1>7, <1>8 DEF SightInv

LEMMA PictureSight ==
  ASSUME SightInv, PictureLoads \/ Compare
  PROVE  SightInv'
<1>1. modal # <<>> /\ misses \in 0..MaxMisses /\ choices \in 0..MaxChosen
  BY DEF SightInv, SightTyped, PictureLoads, Compare
<1>2. PICK m : m = modal[1]
  OBVIOUS
<1>3. m \in Lightbox /\ OwnOnly(m)
  BY <1>1, <1>2 DEF SightInv, SightTyped, ModalTrue, Maybe
<1>4. m.picture \in Shot /\ <<m.picture>> \in Maybe(Shot) /\ <<>> \in Maybe(Shot)
  BY <1>3 DEF Lightbox, Maybe
<1>5. ASSUME NEW seen \in {<<>>, <<m.picture>>}
      PROVE  /\ [m EXCEPT !.dimensions = seen] \in Lightbox
             /\ [m EXCEPT !.dimensions = seen].picture = m.picture
             /\ OwnOnly([m EXCEPT !.dimensions = seen])
             /\ [m EXCEPT !.imgError = seen] \in Lightbox
             /\ [m EXCEPT !.imgError = seen].picture = m.picture
             /\ OwnOnly([m EXCEPT !.imgError = seen])
             /\ [m EXCEPT !.compareOpen = seen] \in Lightbox
             /\ [m EXCEPT !.compareOpen = seen].picture = m.picture
             /\ OwnOnly([m EXCEPT !.compareOpen = seen])
  BY <1>3, <1>4 DEF Lightbox, OwnOnly
<1>6. Miss => misses' \in 0..MaxMisses
  BY <1>1, OutputsPageAssumption DEF Miss
<1>7. Choose => choices' \in 0..MaxChosen
  BY <1>1, OutputsPageAssumption DEF Choose
<1>8. CASE PictureLoads
  <2>1. /\ UNCHANGED <<file, shots, outs, outsFetch, selectedIndex, lightboxIndex, thrown, pullVars,
                       sightVars, moved>>
        /\ choices' = choices
        /\ \/ modal' = <<[m EXCEPT !.dimensions = <<m.picture>>]>> /\ misses' = misses
           \/ modal' = <<[m EXCEPT !.imgError = <<m.picture>>]>> /\ Miss
    BY <1>2, <1>8 DEF PictureLoads
  <2> QED
    BY <1>1, <1>2, <1>5, <1>6, <2>1, ModalSight
<1>9. CASE Compare
  <2>1. /\ UNCHANGED <<file, shots, outs, outsFetch, selectedIndex, lightboxIndex, thrown, pullVars,
                       sightVars, moved>>
        /\ misses' = misses
        /\ \/ modal' = <<[m EXCEPT !.compareOpen = <<m.picture>>]>> /\ Choose
           \/ modal' = <<[m EXCEPT !.compareOpen = <<>>]>> /\ choices' = choices
    BY <1>2, <1>9 DEF Compare
  <2> QED
    BY <1>1, <1>2, <1>5, <1>7, <2>1, ModalSight
<1> QED
  BY <1>8, <1>9

\* A download begins or ends.
LEMMA PullSight ==
  ASSUME SightInv,
         (\E s \in Number : StartPull(s)) \/ (\E n \in DOMAIN pulls : PullEnds(n))
  PROVE  SightInv'
<1>1. SightTyped /\ ModalTrue /\ SightTrue /\ PullsTrue
  BY DEF SightInv
<1>2. pulls \in Seq(Number) /\ crossed \in BOOLEAN /\ downloadingId \in Number \cup {0}
  BY <1>1 DEF SightTyped
<1>3. UNCHANGED <<file, shots, outsVars, misses, choices, sightVars, moved>>
  BY DEF StartPull, PullEnds
<1>4. UNCHANGED <<file, shots, outs, outsFetch, selectedIndex, lightboxIndex, modal, thrown,
                  misses, choices, chosen, looking, moved>>
  BY <1>3 DEF outsVars, sightVars
<1>5. /\ pulls' \in Seq(Number) /\ downloadingId' \in Number \cup {0} /\ crossed' \in BOOLEAN
      /\ PullsTrue'
  <2>1. ASSUME NEW s \in Number, StartPull(s)
        PROVE  /\ pulls' \in Seq(Number) /\ downloadingId' \in Number \cup {0} /\ crossed' \in BOOLEAN
               /\ PullsTrue'
    <3>1. PICK k : k = Listed(outs)[s].file
      OBVIOUS
    <3>2. /\ downloadingId' = k /\ pulls' = Append(pulls, k)
          /\ crossed' = (crossed \/ pulls # <<>>) /\ s \in DOMAIN Listed(outs)
      BY <2>1, <3>1 DEF StartPull
    <3>3. Listed(outs) \in Seq(Checkpoint)
      BY <1>1 DEF SightTyped, Maybe, Listed
    <3>4. Listed(outs)[s] \in Checkpoint
      BY <3>2, <3>3
    <3>5. k \in Number
      BY <3>1, <3>4 DEF Checkpoint
    <3>6. /\ pulls' \in Seq(Number) /\ Len(pulls') = Len(pulls) + 1
          /\ pulls'[Len(pulls) + 1] = k /\ Len(pulls) + 1 \in DOMAIN pulls'
      BY <1>2, <3>2, <3>5
    <3>7. ASSUME ~crossed' PROVE Len(pulls') = 1
      <4>1. pulls = <<>>
        BY <3>2, <3>7
      <4>2. Len(pulls) = 0
        BY <4>1
      <4> QED
        BY <3>6, <4>2
    <3>8. PullsTrue'
      <4>1. \E n \in DOMAIN pulls' : downloadingId' = pulls'[n]
        BY <3>2, <3>6
      <4>2. ASSUME ~crossed' PROVE Len(pulls') <= 1 /\ \A n \in DOMAIN pulls' : downloadingId' = pulls'[n]
        <5>1. Len(pulls') = 1 /\ Len(pulls) = 0
          BY <1>2, <3>6, <3>7, <4>2
        <5>2. \A n \in DOMAIN pulls' : n = 1
          BY <3>6, <5>1
        <5> QED
          BY <3>2, <3>6, <5>1, <5>2
      <4> QED
        BY <4>1, <4>2 DEF PullsTrue
    <3> QED
      BY <1>2, <3>2, <3>5, <3>6, <3>8
  <2>2. ASSUME NEW n \in DOMAIN pulls, PullEnds(n)
        PROVE  /\ pulls' \in Seq(Number) /\ downloadingId' \in Number \cup {0} /\ crossed' \in BOOLEAN
               /\ PullsTrue'
    <3>1. /\ downloadingId' = 0 /\ crossed' = crossed
          /\ pulls' = SubSeq(pulls, 1, n - 1) \o SubSeq(pulls, n + 1, Len(pulls))
      BY <2>2 DEF PullEnds
    <3>2. n \in 1..Len(pulls) /\ Len(pulls) \in Nat
      BY <1>2
    <3>3. /\ SubSeq(pulls, 1, n - 1) \in Seq(Number) /\ Len(SubSeq(pulls, 1, n - 1)) = n - 1
          /\ SubSeq(pulls, n + 1, Len(pulls)) \in Seq(Number)
          /\ Len(SubSeq(pulls, n + 1, Len(pulls))) = Len(pulls) - n
      BY <1>2, <3>2
    <3>4. pulls' \in Seq(Number) /\ Len(pulls') = Len(pulls) - 1
      <4>1. PICK a, b : a = SubSeq(pulls, 1, n - 1) /\ b = SubSeq(pulls, n + 1, Len(pulls))
        OBVIOUS
      <4>2. a \in Seq(Number) /\ b \in Seq(Number)
            /\ Len(a) = n - 1 /\ Len(b) = Len(pulls) - n
        BY <3>3, <4>1
      <4>3. a \o b \in Seq(Number) /\ Len(a \o b) = Len(a) + Len(b)
        BY <4>2
      <4>4. (n - 1) + (Len(pulls) - n) = Len(pulls) - 1
        BY <3>2
      <4> QED
        BY <3>1, <4>1, <4>2, <4>3, <4>4
    <3>5. ASSUME ~crossed PROVE Len(pulls') = 0
      BY <1>1, <3>2, <3>4, <3>5 DEF PullsTrue
    <3>6. ~crossed => Len(pulls') <= 1 /\ DOMAIN pulls' = {}
      <4>1. DOMAIN pulls' = 1..Len(pulls')
        BY <3>4
      <4> QED
        BY <3>5, <4>1
    <3>7. PullsTrue'
      BY <3>1, <3>6 DEF PullsTrue
    <3> QED
      BY <1>2, <3>1, <3>4, <3>7
  <2> QED
    BY <2>1, <2>2
<1>6. SightTyped'
  BY <1>1, <1>4, <1>5 DEF SightTyped
<1>7. ListNow' = ListNow /\ Listed(outs)' = Listed(outs)
  BY <1>4 DEF ListNow, Listed
<1>8. ModalTrue' /\ SightTrue'
  BY <1>1, <1>4, <1>7 DEF ModalTrue, SightTrue, Previews, Listed
<1> QED
  BY <1>5, <1>6, <1>8 DEF SightInv

\* One step of the page, its user and the trainer.
LEMMA SightNext ==
  ASSUME SightInv, [OutputsPageNext]_outputsVars
  PROVE  SightInv'
<1>1. CASE FetchOutputs \/ OutputsArrive \/ OutputsFail
  BY <1>1, QuerySight
<1>2. CASE PictureLoads \/ Compare
  BY <1>2, PictureSight
<1>3. ASSUME NEW k \in Number, SaveNumber(k) \/ RemoveNumber(k) \/ SampleNumber(k) PROVE SightInv'
  BY <1>3, TrainerSight
<1>4. CASE \/ \E n \in Number : SelectCheckpoint(n)
           \/ \E l \in Prompts : OpenLightbox(l)
           \/ \E step \in {"left", "right"} : Navigate(step)
           \/ CloseLightbox \/ LeaveOutputs
  BY <1>4, UserSight
<1>5. CASE (\E s \in Number : StartPull(s)) \/ (\E n \in DOMAIN pulls : PullEnds(n))
  BY <1>5, PullSight
<1>6. CASE UNCHANGED outputsVars
  <2>1. UNCHANGED <<file, shots, outs, outsFetch, selectedIndex, lightboxIndex, modal, thrown,
                    pulls, downloadingId, crossed, misses, choices, chosen, looking, moved>>
    BY <1>6 DEF outputsVars, outsVars, pullVars, sightVars
  <2>2. SightTyped /\ ModalTrue /\ SightTrue /\ PullsTrue
    BY DEF SightInv
  <2>3. SightTyped'
    BY <2>1, <2>2 DEF SightTyped
  <2>4. ListNow' = ListNow /\ Listed(outs)' = Listed(outs)
    BY <2>1 DEF ListNow, Listed
  <2>5. ModalTrue' /\ SightTrue' /\ PullsTrue'
    BY <2>1, <2>2, <2>4 DEF ModalTrue, SightTrue, PullsTrue, Previews, Listed
  <2> QED
    BY <2>3, <2>5 DEF SightInv
<1> QED
  BY <1>1, <1>2, <1>3, <1>4, <1>5, <1>6 DEF OutputsPageNext

\* What the page remembers of the outputs, for any checkpoints, prompts, choices
\* and failures.
THEOREM SightInvariance == OutputsPageSpec => []SightInv
<1>1. OutputsInit => SightInv
  BY SightInit
<1>2. SightInv /\ [OutputsPageNext]_outputsVars => SightInv'
  BY SightNext
<1> QED
  BY <1>1, <1>2, PTL DEF OutputsPageSpec

\* The lightbox displays what is of its picture; while checkpoints come in their
\* order and none goes, selection and lightbox stay where the user put them and
\* the page does not fail; and a button waits for a download in flight.
THEOREM LightboxIsTrue == OutputsPageSpec => []LightboxTells
<1>1. ASSUME SightInv PROVE LightboxTells
  <2>1. modal # <<>> =>
          \A seen \in {modal[1].dimensions, modal[1].imgError, modal[1].compareOpen} :
              seen \in {<<>>, <<modal[1].picture>>}
    BY <1>1 DEF SightInv, ModalTrue, OwnOnly
  <2>2. ~moved => /\ ~thrown
                  /\ chosen # 0 => Listed(outs)[selectedIndex].file = chosen
                  /\ looking # <<>> => modal # <<>> /\ modal[1].picture = looking[1]
    BY <1>1 DEF SightInv, SightTrue
  <2>3. /\ downloadingId # 0 => downloadingId \in {pulls[n] : n \in DOMAIN pulls}
        /\ ~crossed => \A n \in DOMAIN pulls : downloadingId = pulls[n]
    BY <1>1 DEF SightInv, PullsTrue
  <2> QED
    BY <2>1, <2>2, <2>3 DEF LightboxTells
<1> QED
  BY <1>1, SightInvariance, PTL
=============================================================================
