------------------------------- MODULE Reader -------------------------------
(***************************************************************************)
(* The terminal reader: interface thread and network worker, joined by the *)
(* request channel, the event channel and the cancel flag, against a       *)
(* server that may refuse, disconnect, receive and expire articles.        *)
(***************************************************************************)
EXTENDS App, Worker, FiniteSets

vars == <<channelVars, appVars, workerVars>>

Init == AppInit /\ WorkerInit

\* The process is gone once the interface has exited, worker thread included.
WorkerRuns == WorkerStep /\ ui # "exited" /\ UNCHANGED appVars
ServerRuns == ServerStep /\ ui # "exited" /\ UNCHANGED appVars
HandleEvent == OnEvent(phase = "stopped") /\ UNCHANGED workerVars
HandleKey == OnKey /\ UNCHANGED workerVars
Leave == (LastDrain \/ Close \/ Exit) /\ UNCHANGED workerVars

\* Nothing is in flight: both threads wait, one for a request, one for a key.
Quiet == ui = "running" /\ requests = <<>> /\ events = <<>> /\ phase = "idle"

\* The only states in which the program may stand still: no other deadlock is allowed.
Wait == (Quiet \/ ui = "exited") /\ UNCHANGED vars

Next == WorkerRuns \/ ServerRuns \/ HandleEvent \/ HandleKey \/ Leave \/ Wait

Spec == Init /\ [][Next]_vars

\* Both threads keep running: every network call returns or times out (the client sets
\* read and write timeouts on every socket), the render loop comes round every TICK.
\* Nothing is assumed of the user or of the server.
Fairness == WF_vars(WorkerRuns) /\ WF_vars(HandleEvent) /\ WF_vars(Leave)

FairSpec == Spec /\ Fairness

-----------------------------------------------------------------------------
(* Invariants *)

\* Every variable keeps its type; in particular a message is one of protocol.rs.
TypeOK ==
    /\ requests \in Seq(Request)
    /\ events \in Seq(Event)
    /\ cancel \in BOOLEAN
    /\ AppTypeOK
    /\ WorkerTypeOK

\* The article list only ever holds articles of the group shown as selected: a late
\* reply is "discarded rather than displayed under the wrong heading" (protocol.rs,
\* OverviewChunk), whatever is in flight for other groups, and even if the worker has
\* since been on another connection, or had another group selected.
ListMatchesGroup == \A article \in articles : article[1] = group.name

-----------------------------------------------------------------------------
(* What is pending, in the order the worker and the interface will come to it: *)
(* the events, then the job being served, then the requests.                  *)

IsFetch(request) == request.type \in {"OpenGroup", "LoadOverview"}
IsFetchEvent(event) == event.type \in {"GroupOpened", "OverviewChunk", "OverviewComplete"}

\* The worker still owes the interface an answer to its job.
Busy == phase \in {"ready", "reading", "complete"}
FetchJob == Busy /\ IsFetch(job)

\* The worker has yet to select the group and announce it.
OpenJob == Busy /\ cmd = "select" /\ job.type = "OpenGroup"
ArticleJob == Busy /\ job.type = "LoadArticle"

\* overview_token: "None means no fetch is outstanding" - not on the channel, not in
\* the worker, not among the events.
NoTokenNoFetch ==
    overview_token = 0 =>
        /\ ~FetchJob
        /\ \A i \in DOMAIN requests : ~IsFetch(requests[i])
        /\ \A i \in DOMAIN events : ~IsFetchEvent(events[i])

\* Requests whose terminal event the interface has not seen.
Asked == Cardinality({i \in DOMAIN requests : requests[i].type # "Shutdown"})
Answered == Cardinality({i \in DOMAIN events : Terminal(events[i])})
Outstanding == Asked + (IF Busy THEN 1 ELSE 0) + Answered

\* inflight never counts a request that is already answered: a spinner over an idle
\* worker would turn for ever, and Esc would raise a flag nobody lowers.
InflightBound == inflight <= Outstanding

\* A connection that failed is not kept for the next request (the swallowed errors of
\* load_groups are the dangerous ones).
NoBrokenClientKept == phase \in {"idle", "reset", "stopped"} => client # "broken"

\* A draft file is deleted only once the server has accepted that article (compose.rs).
DraftKept == \A d \in Draft : drafts[d] = "discarded" => d \in accepted

\* handle(): a flag raised for a finished request "must not leak into whatever runs
\* next": with nothing to do and nothing queued, the worker finds the flag down.
CancelNotLeaked == phase = "idle" /\ requests = <<>> => ~cancel

\* Records of "a group the user has left" (accepts_overview) are not listed: what is
\* listed belongs to the row activated last.
LeftGroupStaysLeft == \A article \in articles : article[1] = wanted

-----------------------------------------------------------------------------
(* The inductive invariant behind ListMatchesGroup, MarksRightGroup and       *)
(* NoTokenNoFetch.                                                            *)

\* The command in hand fits the job, and overview records and articles are read from
\* the job's own group.
WorkerConsistent ==
    /\ phase = "complete" => IsFetch(job)
    /\ phase = "reading" => cmd \in Streaming
    /\ phase \in {"ready", "reading"} =>
          /\ cmd \in {"list", "listall", "descriptions"} <=> job.type = "LoadGroups"
          /\ cmd = "post" <=> job.type = "Post"
          /\ cmd = "over" => IsFetch(job) /\ todo.low <= todo.high
          /\ cmd = "article" => job.type = "LoadArticle"
          /\ cmd \in {"over", "article"} => client = "open" /\ selected = job.group
          /\ cmd = "select" => IsFetch(job) \/ job.type = "LoadArticle"
    /\ \A i \in DOMAIN requests : requests[i].type = "LoadOverview" =>
          requests[i].low <= requests[i].high
    /\ FetchJob /\ job.type = "LoadOverview" => job.low <= job.high

\* Every token in flight has been issued, and only the newest can be current.
TokensIssued ==
    /\ overview_token \in {0, next_token}
    /\ \A i \in DOMAIN requests : IsFetch(requests[i]) => requests[i].token \in 1..next_token
    /\ FetchJob => job.token \in 1..next_token
    /\ \A i \in DOMAIN events : IsFetchEvent(events[i]) => events[i].token \in 1..next_token

\* Fetches are served and reported in the order they were asked for, and
\* OverviewComplete is the last word of a fetch.
RequestsInOrder ==
    \A i, j \in DOMAIN requests :
        i < j /\ IsFetch(requests[i]) /\ IsFetch(requests[j]) =>
            requests[i].token < requests[j].token
JobBeforeRequests ==
    \A j \in DOMAIN requests :
        FetchJob /\ IsFetch(requests[j]) => job.token < requests[j].token
EventsBeforeRequests ==
    \A i \in DOMAIN events : \A j \in DOMAIN requests :
        IsFetchEvent(events[i]) /\ IsFetch(requests[j]) => events[i].token < requests[j].token
EventsBeforeJob ==
    \A i \in DOMAIN events :
        FetchJob /\ IsFetchEvent(events[i]) =>
            /\ events[i].token <= job.token
            /\ events[i].type = "OverviewComplete" => events[i].token < job.token
EventsInOrder ==
    \A i, j \in DOMAIN events :
        i < j /\ IsFetchEvent(events[i]) /\ IsFetchEvent(events[j]) =>
            /\ events[i].token <= events[j].token
            /\ events[i].type = "OverviewComplete" => events[i].token < events[j].token

TokensOrdered ==
    /\ RequestsInOrder
    /\ JobBeforeRequests
    /\ EventsBeforeRequests
    /\ EventsBeforeJob
    /\ EventsInOrder

\* One fetch, one group: what carries the same token names the same group, and a chunk
\* holds records of the group it names.
FetchesConsistent ==
    /\ \A i, j \in DOMAIN events :
          IsFetchEvent(events[i]) /\ IsFetchEvent(events[j]) /\ events[i].token = events[j].token
              => events[i].group = events[j].group
    /\ \A i \in DOMAIN events :
          FetchJob /\ IsFetchEvent(events[i]) /\ events[i].token = job.token =>
              events[i].group = job.group
    /\ \A i \in DOMAIN events : events[i].type = "OverviewChunk" =>
          \A article \in events[i].records : article[1] = events[i].group

\* While anything is listed, no other group is about to be opened.
OpensMatchList ==
    articles # {} =>
        /\ \A i \in DOMAIN requests : requests[i].type = "OpenGroup" =>
              requests[i].group = group.name
        /\ OpenJob => job.group = group.name
        /\ \A i \in DOMAIN events : events[i].type = "GroupOpened" =>
              events[i].group = group.name

\* An article on its way belongs to the selected group, and nothing ahead of it on its
\* way will select another one.
OpenedStays(n) ==
    \A j \in 1..n : events[j].type = "GroupOpened" => events[j].group = group.name
ArticleRequestsMatch ==
    \A i \in DOMAIN requests : requests[i].type = "LoadArticle" =>
        /\ requests[i].group = group.name
        /\ \A j \in 1..(i - 1) : requests[j].type = "OpenGroup" =>
              requests[j].group = group.name
        /\ OpenJob => job.group = group.name
        /\ OpenedStays(Len(events))
ArticleJobMatches ==
    ArticleJob => job.group = group.name /\ OpenedStays(Len(events))
ArticleEventsMatch ==
    \A i \in DOMAIN events : events[i].type = "Article" =>
        events[i].group = group.name /\ OpenedStays(i - 1)

ArticlesMatchGroup == ArticleRequestsMatch /\ ArticleJobMatches /\ ArticleEventsMatch

\* The strengthening of ListMatchesGroup that every step preserves: it is the FIFO order
\* of both channels, and one worker serving one request at a time, that makes the
\* interface's two checks (token and group name) sufficient.
IInv ==
    /\ WorkerConsistent
    /\ TokensIssued
    /\ TokensOrdered
    /\ FetchesConsistent
    /\ NoTokenNoFetch
    /\ OpensMatchList
    /\ ListMatchesGroup
    /\ ArticlesMatchGroup

-----------------------------------------------------------------------------
(* Action properties *)

\* An Article event marks read exactly the article the server sent: the event names no
\* group and its handler files the number under `self.group`, which must therefore still
\* be the group the article was fetched from.
MarksRightGroup ==
    [][events # <<>> /\ Head(events).type = "Article" /\ events' = Tail(events) =>
          read' \ read \subseteq {<<Head(events).group, Head(events).number>>}]_vars

-----------------------------------------------------------------------------
(* Liveness *)

FetchPending(t) ==
    \/ \E i \in DOMAIN requests : IsFetch(requests[i]) /\ requests[i].token = t
    \/ FetchJob /\ job.token = t

\* Every overview fetch the user starts comes to an end, however the connection fails.
FetchesEnd == \A t \in 1..MaxRequests : FetchPending(t) ~> (~FetchPending(t) \/ ui = "exited")

\* The spinner stops: whatever happens to the requests, inflight returns to 0.
SpinnerStops == []<>(inflight = 0 \/ ui = "exited")

\* Quitting always ends the process, and what was read this session is on disk by then.
QuitEnds == should_quit ~> (ui = "exited" /\ saved = read)
=============================================================================
