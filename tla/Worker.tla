------------------------------- MODULE Worker -------------------------------
(***************************************************************************)
(* The network worker thread of tui/worker.rs, with the part of the NNTP   *)
(* client and server it can observe.                                       *)
(*                                                                         *)
(* A job is a sequence of commands; each ends in an event, in a refusal (a *)
(* status the client maps to a non-fatal error), in a broken connection (a *)
(* fatal error) or, if its reply is a data block, in a cancellation.  The  *)
(* cancel flag is looked at before every line of a block: BeginBlock is    *)
(* the first look, and a block being read may still be cut short or may    *)
(* finish with the flag raised too late.  Sends, the reset of the flag and *)
(* the next receive are separate steps, so the interface can act between   *)
(* any two of them.                                                        *)
(***************************************************************************)
EXTENDS Protocol

CONSTANTS
    ChunkSize,        \* ui.overview_chunk
    Batches,          \* LIST commands a narrowed scope is split into
    InitMarks,        \* the server's watermarks of each group at start
    MaxHigh,          \* bound: no article numbered above this arrives
    MaxLow,           \* bound: expiry raises no low watermark above this
    Faults,           \* which failures the network and the server produce
    MaxFaults         \* bound: how many of them

FaultKinds == {"connect", "refuse", "break", "lost"}

Marks == [low : Nat, high : Nat]

ASSUME ChunkSizeAssumption == ChunkSize \in Nat \ {0}
ASSUME BatchesAssumption == Batches \in Nat \ {0}
ASSUME InitMarksAssumption == InitMarks \in [Group -> Marks]
ASSUME MaxMarksAssumption == MaxHigh \in Nat /\ MaxLow \in Nat
ASSUME FaultsAssumption == Faults \subseteq FaultKinds /\ MaxFaults \in Nat

NoJob == [type |-> "Shutdown"]

VARIABLES
    phase,            \* where in handle/dispatch the worker is
    job,              \* the request being served
    cmd,              \* the command it will send or is reading the reply of
    left,             \* LIST commands still to send for this job
    todo,             \* overview numbers still to fetch
    client,           \* "none", "open", or "broken" after a fatal error
    selected,         \* the group selected on this connection
    marks,            \* server: watermarks of each group
    accepted,         \* server: drafts it has accepted
    faults            \* failures so far, for MaxFaults

serverVars == <<marks, accepted>>
jobVars == <<job, cmd, left, todo>>
workerVars == <<phase, jobVars, client, selected, serverVars, faults>>

Phases == {"idle", "ready", "reading", "complete", "drop", "reset", "stopped"}
Commands == {"list", "listall", "descriptions", "select", "over", "article", "post"}

\* Commands whose reply is a data block, which the cancel flag can cut short.
Streaming == {"list", "listall", "descriptions", "over", "article"}

WorkerTypeOK ==
    /\ phase \in Phases
    /\ job \in Request
    /\ cmd \in Commands
    /\ left \in Nat
    /\ todo \in [low : Nat, high : Nat]
    /\ client \in {"none", "open", "broken"}
    /\ selected \in Group \cup {NoGroup}
    /\ marks \in [Group -> Marks]
    /\ accepted \subseteq Draft
    /\ faults \in Nat

WorkerInit ==
    /\ phase = "idle"
    /\ job = NoJob
    /\ cmd = "list"
    /\ left = 0
    /\ todo = [low |-> 1, high |-> 0]
    /\ client = "none"
    /\ selected = NoGroup
    /\ marks = InitMarks
    /\ accepted = {}
    /\ faults = 0

-----------------------------------------------------------------------------
(* Helpers *)

Send(event) == events' = Append(events, event)

Empty(m) == m.high = 0 \/ m.low > m.high

FirstCommand(request) ==
    CASE request.type = "LoadGroups" -> "list"
      [] request.type = "Post" -> "post"
      [] OTHER -> "select"

ListCommands(scope) == IF IsNarrowed(scope) THEN Batches ELSE 1

\* Mutant: off by one, the newest chunk starts past its own end.
NewestChunkPast(low, high) == high - ((high - low) % ChunkSize) + 1

\* Range::chunks walked backwards: the first number of the newest chunk of low..high.
NewestChunk(low, high) == high - ((high - low) % ChunkSize)

\* The worker has a connection and is about to send this command.
Ready(command) == phase = "ready" /\ cmd = command /\ client = "open"

\* The reply of this command is complete.
Reading(command) == phase = "reading" /\ cmd = command

Fault(kind) ==
    /\ kind \in Faults
    /\ faults < MaxFaults
    /\ faults' = faults + 1

-----------------------------------------------------------------------------
(* Taking a request *)

Take ==
    /\ phase = "idle"
    /\ requests # <<>>
    /\ Head(requests).type # "Shutdown"
    /\ requests' = Tail(requests)
    /\ job' = Head(requests)
    /\ cmd' = FirstCommand(Head(requests))
    /\ left' = IF Head(requests).type = "LoadGroups" THEN ListCommands(Head(requests).scope) ELSE 0
    /\ phase' = "ready"
    /\ UNCHANGED <<events, cancel, todo, client, selected, serverVars, faults>>

Stop ==
    /\ phase = "idle"
    /\ requests # <<>>
    /\ Head(requests).type = "Shutdown"
    /\ requests' = Tail(requests)
    /\ Send([type |-> "Stopped"])
    /\ client' = "none"
    /\ selected' = NoGroup
    /\ phase' = "stopped"
    /\ UNCHANGED <<cancel, jobVars, serverVars, faults>>

\* handle(), after dispatch: the flag is lowered whatever became of the request.
Reset ==
    /\ phase = "reset"
    /\ cancel' = FALSE
    /\ phase' = "idle"
    /\ UNCHANGED <<requests, events, jobVars, client, selected, serverVars, faults>>

-----------------------------------------------------------------------------
(* Failures (the error half of dispatch) *)

\* client(): no connection, so make one.  The connection is not cancellable yet.
Connect ==
    /\ phase = "ready"
    /\ client = "none"
    /\ Send([type |-> "Connected"])
    /\ client' = "open"
    /\ selected' = NoGroup
    /\ UNCHANGED <<requests, cancel, phase, jobVars, serverVars, faults>>

ConnectFails ==
    /\ phase = "ready"
    /\ client = "none"
    /\ Fault("connect")
    /\ Send([type |-> "Failed"])
    /\ phase' = "drop"
    /\ UNCHANGED <<requests, cancel, jobVars, client, selected, serverVars>>

\* A refusal ends the job, the connection stays; except that a refused LIST pattern
\* falls back to the whole list and refused descriptions are done without.
Refuse ==
    /\ phase = "ready"
    /\ client = "open"
    /\ ~(cmd = "list" /\ IsNarrowed(job.scope))
    /\ cmd # "descriptions"
    /\ Fault("refuse")
    /\ Send([type |-> "Failed"])
    /\ phase' = "reset"
    /\ UNCHANGED <<requests, cancel, jobVars, client, selected, serverVars>>

\* 423: nothing of what is asked for is on the server any more (it has expired).
InMarks(g, n) == marks[g].low <= n /\ n <= marks[g].high

NotThere ==
    /\ phase = "ready"
    /\ client = "open"
    /\ \/ /\ cmd = "over"
          /\ \A n \in NewestChunk(todo.low, todo.high)..todo.high : ~InMarks(selected, n)
       \/ /\ cmd = "article"
          /\ ~InMarks(selected, job.number)
    /\ Send([type |-> "Failed"])
    /\ phase' = "reset"
    /\ UNCHANGED <<requests, cancel, jobVars, client, selected, serverVars, faults>>

\* A fatal error at any point of a command.
Break ==
    /\ phase \in {"ready", "reading"}
    /\ client = "open"
    /\ Fault("break")
    /\ client' = "broken"
    /\ Send([type |-> "Failed"])
    /\ phase' = "drop"
    /\ UNCHANGED <<requests, cancel, jobVars, selected, serverVars>>

Drop ==
    /\ phase = "drop"
    /\ client' = "none"
    /\ selected' = NoGroup
    /\ Send([type |-> "Disconnected"])
    /\ phase' = "reset"
    /\ UNCHANGED <<requests, cancel, jobVars, serverVars, faults>>

\* The flag is seen while a block is read, or before its first line.
Abort ==
    /\ \/ /\ phase = "ready"
          /\ client = "open"
          /\ cmd \in Streaming
          /\ cmd = "article" => InMarks(selected, job.number)
       \/ phase = "reading"
    /\ cancel
    /\ client' = "none"
    /\ selected' = NoGroup
    /\ Send([type |-> "Cancelled"])
    /\ phase' = "reset"
    /\ UNCHANGED <<requests, cancel, jobVars, serverVars, faults>>
-----------------------------------------------------------------------------
(* Commands *)

\* The status line announced a block and the flag was down at its first line.  For an
\* empty overview range some servers announce an empty block and others refuse (NotThere).
BeginBlock ==
    /\ phase = "ready"
    /\ client = "open"
    /\ cmd \in Streaming
    /\ cmd = "article" => InMarks(selected, job.number)
    /\ ~cancel
    /\ phase' = "reading"
    /\ UNCHANGED <<channelVars, jobVars, client, selected, serverVars, faults>>

\* One LIST of a batch of patterns, or of everything.
List ==
    /\ Reading("list")
    /\ \/ left > 1 /\ left' = left - 1 /\ UNCHANGED cmd
       \/ left <= 1 /\ left' = ListCommands(job.scope) /\ cmd' = "descriptions"
    /\ phase' = "ready"
    /\ UNCHANGED <<channelVars, job, todo, client, selected, serverVars, faults>>

PatternRefused ==
    /\ Ready("list")
    /\ IsNarrowed(job.scope)
    /\ Fault("refuse")
    /\ cmd' = "listall"
    /\ UNCHANGED <<channelVars, phase, job, left, todo, client, selected, serverVars>>

\* list_all_and_filter; the descriptions are then asked for without a pattern too.
ListAll ==
    /\ Reading("listall")
    /\ cmd' = "descriptions"
    /\ left' = 1
    /\ phase' = "ready"
    /\ UNCHANGED <<channelVars, job, todo, client, selected, serverVars, faults>>

\* The rows of the scope, as the server's watermarks have them.
RowsOf(scope) == {[name |-> g, empty |-> Empty(marks[g])] : g \in scope}

\* One LIST NEWSGROUPS is done; after the last the group list is sent.
AfterDescriptions ==
    \/ /\ left > 1
       /\ left' = left - 1
       /\ phase' = "ready"
       /\ UNCHANGED events
    \/ /\ left <= 1
       /\ left' = 0
       /\ phase' = "reset"
       /\ Send([type |-> "Groups", rows |-> RowsOf(job.scope), scope |-> job.scope])

Descriptions ==
    /\ Reading("descriptions")
    /\ AfterDescriptions
    /\ UNCHANGED <<requests, cancel, job, cmd, todo, client, selected, serverVars, faults>>

\* Mutant: every error of LIST NEWSGROUPS is swallowed, a broken connection included.
DescriptionsSwallowed ==
    /\ Ready("descriptions")
    /\ Fault("break")
    /\ AfterDescriptions
    /\ client' = "broken"
    /\ UNCHANGED <<requests, cancel, job, cmd, todo, selected, serverVars>>

DescriptionsRefused ==
    /\ Ready("descriptions")
    /\ Fault("refuse")
    /\ AfterDescriptions
    /\ UNCHANGED <<requests, cancel, job, cmd, todo, client, selected, serverVars>>

\* open_group: GROUP, the summary to the interface, then the newest `count` records;
\* an empty group is complete at once.
OpenGroupSelect ==
    /\ Ready("select")
    /\ job.type = "OpenGroup"
    /\ selected' = job.group
    /\ LET m == marks[job.group]
       IN  /\ Send([type |-> "GroupOpened", group |-> job.group, token |-> job.token,
                    low |-> m.low, high |-> m.high])
           /\ IF Empty(m)
              THEN phase' = "complete" /\ UNCHANGED <<cmd, todo>>
              ELSE /\ phase' = "ready"
                   /\ cmd' = "over"
                   /\ todo' = [low |-> NewestFrom(m.low, m.high, job.count), high |-> m.high]
    /\ UNCHANGED <<requests, cancel, job, left, client, serverVars, faults>>

\* Mutant: a selected group is taken to be the right one.
NeedsAnyGroup == selected = NoGroup

\* load_overview and load_article select the group only if this connection has not.
NeedsGroup == selected # job.group

Reselect ==
    /\ Ready("select")
    /\ job.type \in {"LoadOverview", "LoadArticle"}
    /\ selected' = IF NeedsGroup THEN job.group ELSE selected
    /\ IF job.type = "LoadOverview"
       THEN cmd' = "over" /\ todo' = [low |-> job.low, high |-> job.high]
       ELSE cmd' = "article" /\ UNCHANGED todo
    /\ UNCHANGED <<channelVars, phase, job, left, client, serverVars, faults>>

\* One chunk of fetch_overview, newest first.  The server answers from the group this
\* connection has selected, with what is still there.  LIST OVERVIEW.FMT, asked once per
\* connection (and done without if refused), is counted to the first chunk's command.
Over ==
    /\ Reading("over")
    /\ LET first == NewestChunk(todo.low, todo.high)
       IN  /\ Send([type |-> "OverviewChunk", group |-> job.group, token |-> job.token,
                    records |-> {<<selected, n>> : n \in {k \in first..todo.high :
                                                            InMarks(selected, k)}}])
           /\ IF first > todo.low
              THEN phase' = "ready" /\ todo' = [todo EXCEPT !.high = first - 1]
              ELSE phase' = "complete" /\ UNCHANGED todo
    /\ UNCHANGED <<requests, cancel, job, cmd, left, client, selected, serverVars, faults>>

Complete ==
    /\ phase = "complete"
    /\ Send([type |-> "OverviewComplete", group |-> job.group, token |-> job.token])
    /\ phase' = "reset"
    /\ UNCHANGED <<requests, cancel, jobVars, client, selected, serverVars, faults>>

Article ==
    /\ Reading("article")
    /\ Send([type |-> "Article", group |-> selected, number |-> job.number])
    /\ phase' = "reset"
    /\ UNCHANGED <<requests, cancel, jobVars, client, selected, serverVars, faults>>

Post ==
    /\ Ready("post")
    /\ accepted' = accepted \cup {job.draft}
    /\ Send([type |-> "Posted"])
    /\ phase' = "reset"
    /\ UNCHANGED <<requests, cancel, jobVars, client, selected, marks, faults>>

\* The server took the article and the connection broke before its 240 arrived.
PostLost ==
    /\ Ready("post")
    /\ Fault("lost")
    /\ accepted' = accepted \cup {job.draft}
    /\ client' = "broken"
    /\ Send([type |-> "Failed"])
    /\ phase' = "drop"
    /\ UNCHANGED <<requests, cancel, jobVars, selected, marks>>

\* The server on its own: an article arrives, or the oldest one expires.
Arrive(g) ==
    /\ marks[g].high < MaxHigh
    /\ marks' = [marks EXCEPT ![g].high = @ + 1]
    /\ UNCHANGED <<channelVars, phase, jobVars, client, selected, accepted, faults>>

Expire(g) ==
    /\ marks[g].low < MaxLow
    /\ ~Empty(marks[g])
    /\ marks' = [marks EXCEPT ![g].low = @ + 1]
    /\ UNCHANGED <<channelVars, phase, jobVars, client, selected, accepted, faults>>

\* What the worker thread does next, the network permitting.
WorkerStep ==
    \/ Take \/ Stop \/ Reset
    \/ Connect \/ ConnectFails \/ Refuse \/ NotThere \/ Break \/ Drop \/ Abort
    \/ BeginBlock \/ List \/ PatternRefused \/ ListAll \/ Descriptions \/ DescriptionsRefused
    \/ OpenGroupSelect \/ Reselect \/ Over \/ Complete
    \/ Article \/ Post \/ PostLost

ServerStep == \E g \in Group : Arrive(g) \/ Expire(g)
=============================================================================
