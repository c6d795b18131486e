------------------------------ MODULE JobStream ------------------------------
(***************************************************************************)
(* How a job reaches the page that shows it: the log buffer of JobsService,*)
(* the Socket.IO gateway and its rooms, and the detail page of the UI with *)
(* its query cache and its list of log lines.                              *)
(*                                                                         *)
(* One browser tab and the job it watches; the job itself is the module    *)
(* Jobs, extended by what its steps send.  The socket is ordered and loses *)
(* everything in flight when it drops; HTTP answers overtake it freely.    *)
(***************************************************************************)
EXTENDS Jobs, Sequences, SequencesExt

CONSTANTS
    Watched,    \* the job the tab looks at
    Bounds      \* the bounds of a behaviour, one record of which is chosen:
                \* the values of the setting logBufferSize, and how many lines,
                \* network failures, page changes, kills and crashes there are

ASSUME StreamAssumption ==
    /\ Watched \in Job
    /\ Bounds \subseteq [sizes : SUBSET (Nat \ {0}), lines : Nat, drops : Nat,
                        moves : Nat, kills : Nat, crashes : 0..MaxCrashes]

VARIABLES
    size,       \* the setting logBufferSize
    printed,    \* lines of the job handled so far; line n is the number n
    buf,        \* liveLogs.get(Watched)
    link,       \* the socket of the tab: "up", "down" and trying to connect, or
                \* "off" when there is none that tries
    room,       \* the tab's socket is in the room of the job
    up,         \* what the tab has emitted: on the wire or, down, buffered
    down,       \* what the gateway has emitted to the tab
    page,       \* "new" (the form), "detail" or "away"
    logs,       \* the log lines the page has collected from the socket
    detail,     \* the query cache of GET /jobs/:id; status "none" without data
    polled,     \* history: that cache is an answer of GET, as it came
    fetch,      \* a GET /jobs/:id in flight
    seeded,     \* the answer of POST /jobs has arrived, or went to another tab
    told,       \* kill requests whose answer has arrived
    bound,      \* the bounds of this behaviour
    drops, moves

serverVars == <<size, printed, buf, room>>
socketVars == <<link, up, down>>
tabVars    == <<page, logs, detail, polled, fetch, seeded, told>>
bounds     == <<bound, drops, moves>>
streamVars == <<serverVars, socketVars, tabVars, bounds>>
all == <<vars, streamVars>>

Terminal == Finished \cup {"killed"}

NoFetch == [stage |-> "idle", status |-> "none", log |-> <<>>]

\* The messages of the gateway, all in one shape.
History(lines) == [kind |-> "history", lines |-> lines, status |-> "none"]
LogLine(n)     == [kind |-> "log", lines |-> <<n>>, status |-> "none"]
StatusEvent(s) == [kind |-> "status", lines |-> <<>>, status |-> s]

Lines == Seq(Nat)

StreamTypeOK ==
    /\ size \in bound.sizes
    /\ printed \in Nat
    /\ buf \in Lines /\ logs \in Lines
    /\ link \in {"down", "up", "off"}
    /\ room \in BOOLEAN
    /\ up \in Seq({"subscribe", "unsubscribe"})
    /\ down \in Seq([kind : {"history", "log", "status"},
                     lines : Lines, status : MaybeStatus])
    /\ page \in {"new", "detail", "away"}
    /\ detail \in [status : MaybeStatus, log : Lines]
    /\ polled \in BOOLEAN
    /\ fetch \in [stage : {"idle", "row", "sent"}, status : MaybeStatus,
                  log : Lines]
    /\ seeded \in BOOLEAN
    /\ told \subseteq Kill
    /\ bound \in Bounds
    /\ drops \in 0..bound.drops
    /\ moves \in 0..bound.moves

StreamInit ==
    /\ Init
    /\ bound \in Bounds
    /\ size \in bound.sizes
    /\ printed = 0 /\ buf = <<>>
    /\ link = "off"
    /\ room = FALSE
    /\ up = <<>> /\ down = <<>>
    /\ seeded \in BOOLEAN
    /\ page = IF seeded THEN "away" ELSE "new"
    /\ logs = <<>>
    /\ detail = [status |-> "none", log |-> <<>>]
    /\ polled = FALSE
    /\ fetch = NoFetch
    /\ told = {}
    /\ drops = 0 /\ moves = 0

-----------------------------------------------------------------------------
(* JobsService and the gateway *)

\* appendLog: push, and one shift when the buffer is longer than the setting.
Push(b, line) ==
    LET longer == Append(b, line)
    IN  IF Len(longer) > size THEN Tail(longer) ELSE longer

\* The next line is handled, and the room hears of it, before the messages
\* `then` of the same step.
Emit(then) ==
    /\ printed' = printed + 1
    /\ buf' = Push(buf, printed')
    /\ down' = down \o (IF room THEN <<LogLine(printed')>> ELSE <<>>) \o then

\* handleOutput: a line of the process, while launch() listens and the close
\* has not come.
HandleOutput ==
    /\ api = "up"
    /\ handle[Watched] = "wired" /\ mem[Watched] = "running"
    /\ os[Watched] # "absent"
    /\ printed < bound.lines
    /\ Emit(<<>>)
    /\ UNCHANGED <<vars, size, room, link, up, tabVars, bounds>>

\* A status event goes to the room and then to every connected socket.  The two
\* copies a subscriber gets follow each other in one turn and write the same
\* status, so they are one message here.
Broadcast(s) == IF link = "up" THEN <<StatusEvent(s)>> ELSE <<>>

\* The API has died: its buffers and its sockets are gone, and so is a request
\* it was working on; an answer already sent may still arrive.
StreamDies ==
    /\ buf' = <<>>
    /\ room' = FALSE
    /\ link' = IF link = "up" THEN "down" ELSE link
    /\ up' = IF link = "up" THEN <<>> ELSE up
    /\ down' = <<>>
    /\ fetch' = IF fetch.stage = "row" THEN NoFetch ELSE fetch
    /\ UNCHANGED printed

\* The error handler also puts a line into the log.
ErrorHandled == \E j \in {Watched} : <<j, "error">> \in flush' \ flush

\* A step of JobsService with what it sends to the tab.
ServiceStep ==
    /\ Next
    /\ Cardinality({k \in Kill : kpc'[k] # "idle"}) <= bound.kills
    /\ crashes' <= bound.crashes
    /\ IF api' = "down" /\ api = "up"
       THEN StreamDies
       ELSE /\ LET said == IF announced'[Watched] # announced[Watched]
                           THEN Broadcast(announced'[Watched]) ELSE <<>>
               IN  IF ErrorHandled
                   THEN Emit(said)
                   ELSE /\ down' = down \o said
                        /\ UNCHANGED <<printed, buf>>
            /\ UNCHANGED <<room, link, up, fetch>>
    /\ UNCHANGED <<size, page, logs, detail, polled, seeded, told, bounds>>

\* SettingsService: the size of the buffer is changed for the next line.
SetSize ==
    /\ api = "up"
    /\ \E n \in bound.sizes \ {size} : size' = n
    /\ UNCHANGED <<vars, printed, buf, room, socketVars, tabVars, bounds>>

\* handleSubscribe, in one turn: join the room and replay the buffer.  A job
\* nobody knows has an empty buffer, not none, and is joined like any other.
HandleSubscribe ==
    /\ api = "up" /\ link = "up"
    /\ up # <<>> /\ Head(up) = "subscribe"
    /\ up' = Tail(up)
    /\ room' = TRUE
    /\ down' = Append(down, History(buf))
    /\ UNCHANGED <<vars, size, printed, buf, link, tabVars, bounds>>

HandleUnsubscribe ==
    /\ api = "up" /\ link = "up"
    /\ up # <<>> /\ Head(up) = "unsubscribe"
    /\ up' = Tail(up)
    /\ room' = FALSE
    /\ UNCHANGED <<vars, size, printed, buf, link, down, tabVars, bounds>>

-----------------------------------------------------------------------------
(* useJobSocket and the socket under it *)

\* The hook listens while the page is open and its job is not over.
ListensWith(p, status) == p = "detail" /\ status \notin Terminal
Listening == ListensWith(page, detail.status)

\* The effect of the hook after page or status have changed: unsubscribe when
\* it stops to listen, subscribe when it starts on a connected socket.  An
\* emit on a socket that is down is kept and sent first when it connects.
Effect(sent) ==
    LET will == ListensWith(page', detail'.status)
    IN  up' = CASE Listening /\ ~will                 -> Append(sent, "unsubscribe")
                [] ~Listening /\ will /\ link' = "up" -> Append(sent, "subscribe")
                [] OTHER                              -> sent

\* onConnect: what was kept is sent, then the page subscribes (again).
Connect ==
    /\ api = "up"
    /\ link = "down"
    /\ link' = "up"
    /\ up' = IF Listening THEN Append(up, "subscribe") ELSE up
    /\ UNCHANGED <<vars, serverVars, down, tabVars, bounds>>

\* The connection drops with everything on it; the client will try again.
Drop ==
    /\ link = "up"
    /\ drops < bound.drops
    /\ drops' = drops + 1
    /\ link' = "down"
    /\ room' = FALSE
    /\ up' = <<>> /\ down' = <<>>
    /\ UNCHANGED <<vars, size, printed, buf, tabVars, bound, moves>>

\* Ten attempts have failed: this socket does not connect any more.
GiveUp ==
    /\ link = "down"
    /\ drops < bound.drops
    /\ drops' = drops + 1
    /\ link' = "off"
    /\ UNCHANGED <<vars, serverVars, up, down, tabVars, bound, moves>>

\* The status of the cached job is replaced, if there is a cached job.
SetStatus(s) ==
    IF detail.status = "none" THEN UNCHANGED <<detail, polled>>
    ELSE /\ detail' = [detail EXCEPT !.status = s]
         /\ polled' = FALSE

\* Mutant: the history is added to the lines there are.
ShowAppended(m) == logs \o m.lines

\* onHistory replaces the lines, handleLog adds one.
Show(m) == IF m.kind = "history" THEN m.lines ELSE logs \o m.lines

\* A message arrives; without a listener it goes nowhere.
Deliver ==
    /\ down # <<>>
    /\ down' = Tail(down)
    /\ LET m == Head(down)
       IN  IF m.kind = "status" /\ Listening
           THEN SetStatus(m.status) /\ UNCHANGED logs
           ELSE /\ logs' = IF Listening /\ m.kind # "status" THEN Show(m) ELSE logs
                /\ UNCHANGED <<detail, polled>>
    /\ UNCHANGED <<vars, serverVars, link, page, fetch, seeded, told, bounds>>
    /\ Effect(up)

-----------------------------------------------------------------------------
(* The query cache and the page *)

\* getById up to its await: the row is read.
ReadRow ==
    /\ api = "up" /\ row[Watched] # "none"
    /\ fetch.stage = "idle" /\ page = "detail"
    /\ fetch' = [stage |-> "row", status |-> row[Watched], log |-> <<>>]

\* Mutant: polling goes by whether the socket has given up.
PollsOnlyConnected == link # "off" /\ detail.status \notin Terminal

\* refetchInterval: every three seconds until the cached status is terminal.
Polls == detail.status \notin Terminal

Poll ==
    /\ Polls
    /\ ReadRow
    /\ UNCHANGED <<vars, serverVars, socketVars, page, logs, detail, polled,
                   seeded, told, bounds>>

\* A stale query is also fetched on mount and on focus, terminal or not.
Refocus ==
    /\ detail.status \in Terminal
    /\ ReadRow
    /\ UNCHANGED <<vars, serverVars, socketVars, page, logs, detail, polled,
                   seeded, told, bounds>>

\* getById after its await: the buffer as it is now goes with the row.
ReadLog ==
    /\ api = "up" /\ fetch.stage = "row"
    /\ fetch' = [fetch EXCEPT !.stage = "sent", !.log = buf]
    /\ UNCHANGED <<vars, serverVars, socketVars, page, logs, detail, polled,
                   seeded, told, bounds>>

\* The answer arrives and replaces the cached job, whatever came meanwhile.
Receive ==
    /\ fetch.stage = "sent"
    /\ detail' = [status |-> fetch.status, log |-> fetch.log]
    /\ polled' = TRUE
    /\ fetch' = NoFetch
    /\ UNCHANGED <<vars, serverVars, link, down, page, logs, seeded, told, bounds>>
    /\ Effect(up)

\* The request fails on its way; the cache keeps what it has.
FetchFails ==
    /\ fetch.stage # "idle"
    /\ drops < bound.drops
    /\ drops' = drops + 1
    /\ fetch' = NoFetch
    /\ UNCHANGED <<vars, serverVars, socketVars, page, logs, detail, polled,
                   seeded, told, bound, moves>>

\* The answer of DELETE /jobs/:id: its status goes into the cache.
KillAnswered(k) ==
    /\ kjob[k] = Watched /\ kpc[k] = "done" /\ k \notin told
    /\ told' = told \cup {k}
    /\ SetStatus(ksaid[k])
    /\ UNCHANGED <<vars, serverVars, link, down, page, logs, fetch, seeded, bounds>>
    /\ Effect(up)

\* The page is mounted: no lines yet, and a new socket unless one is connected.
Mount ==
    /\ page' = "detail"
    /\ logs' = <<>>
    /\ link' = IF link = "up" THEN "up" ELSE "down"
    /\ Effect(IF link = "up" THEN up ELSE <<>>)

Open ==
    /\ page = "away" /\ row[Watched] # "none"
    /\ moves < bound.moves
    /\ moves' = moves + 1
    /\ UNCHANGED <<vars, serverVars, down, detail, polled, fetch, seeded, told,
                   bound, drops>>
    /\ Mount

\* The answer of POST /jobs: launch() has run up to its first await, so it
\* reads Running.  It seeds the cache, and the form goes on to the page.
CreateAnswered ==
    /\ ~seeded /\ os[Watched] # "none"
    /\ seeded' = TRUE
    /\ detail' = [status |-> "running", log |-> <<>>]
    /\ polled' = FALSE
    /\ UNCHANGED <<vars, serverVars, down, fetch, told, bounds>>
    /\ IF page = "new" THEN Mount
       ELSE UNCHANGED <<page, logs, link>> /\ Effect(up)

\* The page is left, its component unmounted.
Leave ==
    /\ page # "away"
    /\ moves < bound.moves
    /\ moves' = moves + 1
    /\ page' = "away"
    /\ logs' = <<>>
    /\ UNCHANGED <<vars, serverVars, link, down, detail, polled, fetch, seeded,
                   told, bound, drops>>
    /\ Effect(up)

-----------------------------------------------------------------------------
GatewayStep == HandleOutput \/ SetSize \/ HandleSubscribe \/ HandleUnsubscribe
SocketStep  == Connect \/ Drop \/ GiveUp \/ Deliver
FetchStep   == Poll \/ Refocus \/ ReadLog \/ Receive \/ FetchFails
PageStep    == \/ CreateAnswered \/ Open \/ Leave
               \/ \E k \in Kill : KillAnswered(k)

StreamNext == ServiceStep \/ GatewayStep \/ SocketStep \/ FetchStep \/ PageStep

StreamSpec == StreamInit /\ [][StreamNext]_all

\* The page polls, requests are answered, and the service owes what it owed.
\* Nothing makes the socket connect or deliver.
StreamFairness ==
    /\ Fairness
    /\ WF_all(Poll) /\ WF_all(ReadLog) /\ WF_all(Receive)

FairStreamSpec == StreamSpec /\ StreamFairness

-----------------------------------------------------------------------------
(* Properties *)

Consecutive(s) == \A i \in 1..(Len(s) - 1) : s[i + 1] = s[i] + 1

\* The last replay on the wire is the message at i; there is none, and i is 0.
Replayed(i) ==
    /\ i # 0 => down[i].kind = "history"
    /\ \A k \in (i + 1)..Len(down) : down[k].kind # "history"

\* The lines the page has once that replay has arrived, and those behind it.
Start(i) == IF i = 0 THEN logs ELSE down[i].lines
After(i) == {k \in (i + 1)..Len(down) : down[k].kind = "log"}

\* Start(i) and what comes after it are all lines behind the line `base`, each
\* of them once and in their order, those of the buffer among them.
ShowsFrom(base, i) ==
    LET seen == base + Len(Start(i))
    IN  /\ seen <= printed
        /\ base + Len(buf) <= printed
        /\ \A n \in 1..Len(Start(i)) : Start(i)[n] = base + n
        /\ \A n \in (seen + 1)..printed : \E k \in After(i) : down[k] = LogLine(n)
        /\ \A k \in After(i) : \E n \in (seen + 1)..printed : down[k] = LogLine(n)
        /\ \A k, l \in After(i) : k < l => down[k].lines[1] < down[l].lines[1]

\* Once its subscription is handled, a listening page shows each line once, in
\* order, without a gap and up to the last: no reconnect, no change of status
\* and no second subscription loses or repeats one.  The buffer it starts from
\* has the last lines without a gap, and never more than the largest size that
\* was set, also when the setting shrinks while lines arrive.
LogWithoutGap ==
    /\ Consecutive(buf)
    /\ buf # <<>> => Last(buf) = printed
    /\ \E n \in bound.sizes : Len(buf) <= n
    /\ Listening /\ room /\ "subscribe" \notin ToSet(up) =>
         \A i \in 0..Len(down) : Replayed(i) => \E base \in 0..printed : ShowsFrom(base, i)

\* The lines the page displays: when the job is over those of the cached job.
Displayed == IF detail.status \in Terminal THEN detail.log ELSE logs

\* A page that shows Done or Failed shows what the row says, or will say once
\* the final save is through, unless the API died before that save.  And an
\* answer of the API that reads Done or Failed carries the whole buffer, which the
\* page displays from then on: the row is read first, and no line comes after the
\* end.  This is what the code does and the page displays; the API's own
\* documents say otherwise, that the buffer is "Present only while job is Running"
\* (job-detail.dto.ts) and that "finished jobs have an empty array"
\* (jobs.controller.ts), and that clause is a statement of the code against them.
ShownEndIsTrue ==
    detail.status \in Finished =>
        /\ \/ row[Watched] = detail.status
           \/ mem[Watched] = detail.status
           \/ pc[Watched] = "lost"
        /\ polled /\ pc[Watched] = "attached" => Displayed = buf

\* A page that stays open shows the end of its job at last, with or without a
\* socket, whatever stale answer came in between.
PageSettles ==
    page = "detail" /\ row[Watched] \in Finished
        ~> page # "detail" \/ detail.status \in Terminal
=============================================================================
