------------------------------ MODULE JobsTable ------------------------------
(***************************************************************************)
(* The table of jobs in one browser tab.  It displays the list of jobs     *)
(* from a query cache that polls every three seconds while the table is on *)
(* display, and that the answers to the creation and to the kill of a job  *)
(* write into as well, and so do the events of the job whose page is on    *)
(* display instead.  The API is Jobs with what its rows say.               *)
(***************************************************************************)
EXTENDS Naturals, Sequences

CONSTANTS
    Train,          \* the jobs there may be
    MaxOrders,      \* bounds: requests of the user,
    MaxUpsets       \* requests and fetches that fail, and events that are early or late

VARIABLES
    rows,       \* the rows of the API, the newest first
    tableOn,    \* the table is on display
    list,       \* the cached list, <<>> before the first, and
    listFetch,  \* its fetch: <<>>, <<"asked">> or <<"read", rows>>
    asking,     \* the row whose kill is to be confirmed
    orders,     \* the requests
    upsets,
    \* history:
    hidden,     \* the rows have changed since they were read last, and no answer says so
    overtaken   \* an answer was written beside a fetch that had read another state

tableVars == <<rows, tableOn, list, listFetch, asking, orders, upsets, hidden, overtaken>>
pageVars  == <<tableOn, asking>>

Active == {"pending", "running"}

TableInit ==
    /\ rows \in {<<>>} \cup {<<[job |-> j, status |-> s]>> : j \in Train, s \in {"running", "ended"}}
    /\ tableOn = FALSE /\ list = <<>> /\ listFetch = <<>> /\ asking = <<>>
    /\ orders = <<>> /\ upsets = 0
    /\ hidden = FALSE /\ overtaken = FALSE

RowOf(j) == {rows[n] : n \in {k \in DOMAIN rows : rows[k].job = j}}

WithStatus(rs, j, s) ==
    [n \in DOMAIN rs |-> IF rs[n].job = j THEN [job |-> j, status |-> s] ELSE rs[n]]

Upset == upsets < MaxUpsets /\ upsets' = upsets + 1

-----------------------------------------------------------------------------
(* The query *)

\* The dialog outlives the table, unless it is closed.
ShowTable ==
    /\ tableOn' = ~tableOn
    /\ asking' \in {asking, <<>>}
    /\ UNCHANGED <<rows, list, listFetch, orders, upsets, hidden, overtaken>>

FetchList ==
    /\ tableOn /\ listFetch = <<>>
    /\ listFetch' = <<"asked">>
    /\ UNCHANGED <<rows, pageVars, list, orders, upsets, hidden, overtaken>>

\* GET /jobs.  A request that has changed the rows and is not answered yet will
\* write over what is read here.
ReadList ==
    /\ listFetch = <<"asked">>
    /\ listFetch' = <<"read", rows>>
    /\ hidden' = FALSE /\ overtaken' = FALSE
    /\ orders' = [n \in DOMAIN orders |->
                    IF orders[n].state \in {"begun", "handled"} THEN [orders[n] EXCEPT !.crossed = TRUE] ELSE orders[n]]
    /\ UNCHANGED <<rows, pageVars, list, upsets>>

ListArrives ==
    /\ Len(listFetch) = 2
    /\ list' = <<listFetch[2]>> /\ listFetch' = <<>>
    /\ UNCHANGED <<rows, pageVars, orders, upsets, hidden, overtaken>>

\* jobsApi.list makes an empty list of an error, which is cached as any other.
ListFails ==
    /\ Upset
    /\ listFetch # <<>>
    /\ list' = <<<<>>>> /\ listFetch' = <<>>
    /\ hidden' = TRUE
    /\ UNCHANGED <<rows, pageVars, orders, overtaken>>

-----------------------------------------------------------------------------
(* What the user asks for *)

Order(kind, j) ==
    /\ Len(orders) < MaxOrders
    /\ orders' = Append(orders, [kind |-> kind, job |-> j, state |-> "sent", answer |-> "none", crossed |-> FALSE])
    /\ UNCHANGED <<rows, tableOn, list, listFetch, upsets, hidden, overtaken>>

\* The form on another page, whose button waits for the answer.
OrderCreate(j) ==
    /\ RowOf(j) = {}
    /\ \A n \in DOMAIN orders : orders[n].kind = "create" => orders[n].state = "done"
    /\ Order("create", j)
    /\ UNCHANGED asking

\* The page of a job may be on display instead of the table: of one that was
\* listed, or that is not being created.
OnJobPage(j) ==
    /\ ~tableOn /\ RowOf(j) # {}
    /\ \/ list # <<>> /\ \E n \in DOMAIN list[1] : list[1][n].job = j
       \/ \A n \in DOMAIN orders :
             orders[n].kind = "create" /\ orders[n].job = j => orders[n].state = "done"

\* confirmKill(): the button of a row displayed as active; or openKill(), that of
\* the job's own page.
AskKill(j) ==
    /\ \/ /\ tableOn /\ list # <<>>
          /\ \E n \in DOMAIN list[1] : list[1][n].job = j /\ list[1][n].status \in Active
       \/ OnJobPage(j)
    /\ asking = <<>>
    /\ asking' = <<j>>
    /\ UNCHANGED <<rows, tableOn, list, listFetch, orders, upsets, hidden, overtaken>>

\* onConfirm, whatever has become of the row since; or the dialog is closed.
ConfirmKill ==
    /\ asking # <<>> /\ asking' = <<>>
    /\ Order("kill", asking[1])

-----------------------------------------------------------------------------
(* The API *)

\* A fetch that has read the rows before will arrive without this change.
Touch(n, state, answer) ==
    orders' = [orders EXCEPT ![n].state = state, ![n].answer = answer,
                             ![n].crossed = @ \/ Len(listFetch) = 2]

\* create(): the row is there, and then its process.
CreateRow(n) ==
    /\ orders[n].kind = "create"
    /\ \/ /\ orders[n].state = "sent"
          /\ rows' = <<[job |-> orders[n].job, status |-> "pending"]>> \o rows
          /\ Touch(n, "begun", "none")
       \/ /\ orders[n].state = "begun"
          /\ RowOf(orders[n].job) = {[job |-> orders[n].job, status |-> "pending"]}
          /\ rows' = WithStatus(rows, orders[n].job, "running")
          /\ Touch(n, "handled", "running")
    /\ UNCHANGED <<pageVars, list, listFetch, upsets, hidden, overtaken>>

\* kill(): a job that runs is marked; after five seconds, or at once for any
\* other, the answer says what its row says by then.
KillRow(n) ==
    /\ orders[n].kind = "kill"
    /\ LET j == orders[n].job
           s == (CHOOSE r \in RowOf(j) : TRUE).status
       IN  \/ /\ orders[n].state = "sent" /\ s = "running"
              /\ rows' = WithStatus(rows, j, "killed")
              /\ Touch(n, "begun", "none")
           \/ /\ orders[n].state = "begun" \/ (orders[n].state = "sent" /\ s # "running")
              /\ orders' = [orders EXCEPT ![n].state = "handled", ![n].answer = s]
              /\ UNCHANGED rows
    /\ UNCHANGED <<pageVars, list, listFetch, upsets, hidden, overtaken>>

\* A process ends, and the close handler says how: "ended" is done or failed.
TrainEnds(j) ==
    /\ \E r \in RowOf(j) : r.status \in {"running", "killed"}
    /\ rows' = WithStatus(rows, j, "ended")
    /\ hidden' = TRUE
    /\ UNCHANGED <<pageVars, list, listFetch, asking, orders, upsets, overtaken>>

\* The limit, the validation, or the network.
OrderRefused(n) ==
    /\ orders[n].state = "sent"
    /\ Upset
    /\ orders' = [orders EXCEPT ![n].state = "done"]
    /\ UNCHANGED <<rows, pageVars, list, listFetch, hidden, overtaken>>

-----------------------------------------------------------------------------
(* The answers *)

\* useCreateJob, onSuccess: the new row goes before what is cached, if anything.
Created(n) ==
    /\ orders[n].kind = "create"
    /\ list' = <<(<<[job |-> orders[n].job, status |-> orders[n].answer]>>
                   \o IF list = <<>> THEN <<>> ELSE list[1])>>
    /\ hidden' = (hidden \/ list = <<>>)

\* Mutant: the status of the answer is not looked at.
KilledAnyhow(n) ==
    /\ orders[n].kind = "kill"
    /\ list' = IF list = <<>> THEN <<<<>>>> ELSE <<WithStatus(list[1], orders[n].job, "killed")>>
    /\ hidden' = (hidden \/ list = <<>>)

\* useKillJob, onSuccess: the row says what the answer says.
Killed(n) ==
    /\ orders[n].kind = "kill"
    /\ list' = IF list = <<>> THEN <<<<>>>> ELSE <<WithStatus(list[1], orders[n].job, orders[n].answer)>>
    /\ hidden' = (hidden \/ list = <<>>)

\* What the answer said is in the list now.
OrderAnswered(n) ==
    /\ orders[n].state = "handled"
    /\ Created(n) \/ Killed(n)
    /\ orders' = [orders EXCEPT ![n] = [@ EXCEPT !.state = "done", !.answer = "none", !.crossed = FALSE]]
    /\ overtaken' = (overtaken \/ orders[n].crossed)
    /\ UNCHANGED <<rows, pageVars, listFetch, upsets>>

\* handleStatus, while the page of the job is on display.  Most events are sent
\* before the row is saved, and one may arrive after the next change: it then
\* says another status than the row.  A list that was read before loses it.
StatusArrives(j, s) ==
    /\ OnJobPage(j)
    /\ list' = IF list = <<>> THEN <<<<>>>> ELSE <<WithStatus(list[1], j, s)>>
    /\ \/ RowOf(j) = {[job |-> j, status |-> s]} /\ hidden' = (hidden \/ list = <<>>) /\ UNCHANGED upsets
       \/ RowOf(j) # {[job |-> j, status |-> s]} /\ hidden' = TRUE /\ Upset
    /\ overtaken' = (overtaken \/ Len(listFetch) = 2)
    /\ UNCHANGED <<rows, pageVars, listFetch, orders>>

TableNext ==
    \/ ShowTable \/ FetchList \/ ReadList \/ ListArrives \/ ListFails \/ ConfirmKill
    \/ \E j \in Train : OrderCreate(j) \/ AskKill(j) \/ TrainEnds(j)
    \/ \E j \in Train, s \in {"running", "killed", "ended"} : StatusArrives(j, s)
    \/ \E n \in DOMAIN orders : CreateRow(n) \/ KillRow(n) \/ OrderRefused(n) \/ OrderAnswered(n)

TableSpec == TableInit /\ [][TableNext]_tableVars

-----------------------------------------------------------------------------
\* When every request is answered and no poll is under way, the table lists each
\* job of the API once and with its status: the row that a creation put there,
\* the status that a kill was answered with or an event told, whichever came
\* first and however the process ended meanwhile.  Except after a poll that
\* failed, which empties the table, or an answer or event that found no list to
\* write into; what changed since the last poll with no answer to say so, or an
\* event that was early or late; and an answer or event that crossed a poll on
\* its way, which lists a new job twice or a killed one as running: each until
\* the next poll.  Even then no row is of a job that the API does not have.
TableTells ==
    /\ list # <<>> => \A n \in DOMAIN list[1] : RowOf(list[1][n].job) # {}
    /\ (\A n \in DOMAIN orders : orders[n].state = "done") /\ listFetch = <<>> /\ list # <<>> /\ ~hidden /\ ~overtaken =>
           /\ Len(list[1]) = Len(rows)
           /\ \A n \in DOMAIN rows : \E k \in DOMAIN list[1] : list[1][k] = rows[n]
=============================================================================
