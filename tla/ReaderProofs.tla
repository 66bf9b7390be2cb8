---------------------------- MODULE ReaderProofs ----------------------------
(***************************************************************************)
(* Theorems about Reader, for every value of the constants.                *)
(*                                                                         *)
(* First type correctness, together with WorkerConsistent: what the worker *)
(* is doing fits the request it serves.  Neither is inductive alone: that  *)
(* Over asks for a non-empty range, and for the group the job names, is    *)
(* needed to type the event it sends.  Then the order of the two channels, *)
(* which carries ListMatchesGroup and MarksRightGroup; the count of what   *)
(* is outstanding; and the draft files.                                    *)
(***************************************************************************)
EXTENDS Reader, FiniteSetTheorems, TLAPS

\* The newest chunk starts inside the range: fetch_overview makes progress and never asks
\* for numbers it was not given (Range::chunks, spec.rs).
LEMMA ChunkBounds ==
    ASSUME NEW low \in Nat, NEW high \in Nat, low <= high
    PROVE  NewestChunk(low, high) \in low..high
  <1>1. (high - low) % ChunkSize \in 0..(high - low)
    BY ChunkSizeAssumption
  <1> QED BY <1>1, ChunkSizeAssumption DEF NewestChunk

\* The newest `count` numbers of a non-empty range start inside it (open_group, refresh).
LEMMA NewestFromBounds ==
    ASSUME NEW low \in Nat, NEW high \in Nat, NEW count \in Nat, low <= high
    PROVE  NewestFrom(low, high, count) \in low..high
  BY DEF NewestFrom

-----------------------------------------------------------------------------
(* Messages *)

\* The fields of each kind of request (protocol.rs, Request).
LEMMA RequestFields ==
    ASSUME NEW r \in Request
    PROVE  /\ r.type \in {"LoadGroups", "OpenGroup", "LoadOverview", "LoadArticle", "Post", "Shutdown"}
           /\ r.type = "LoadGroups" => r.scope \in SUBSET Group
           /\ r.type = "OpenGroup" => r.group \in Group /\ r.count \in Nat /\ r.token \in Nat
           /\ r.type = "LoadOverview" =>
                 r.group \in Group /\ r.token \in Nat /\ r.low \in Nat /\ r.high \in Nat
           /\ r.type = "LoadArticle" => r.group \in Group /\ r.number \in Nat
           /\ r.type = "Post" => r.draft \in Draft
  BY DEF Request, GroupScope, FetchToken

\* The fields of each kind of event (protocol.rs, Event).
LEMMA EventFields ==
    ASSUME NEW ev \in Event
    PROVE  /\ ev.type = "Groups" => ev.rows \in SUBSET GroupRow /\ ev.scope \in SUBSET Group
           /\ ev.type = "GroupOpened" =>
                 ev.group \in Group /\ ev.token \in Nat /\ ev.low \in Nat /\ ev.high \in Nat
           /\ ev.type = "OverviewChunk" =>
                 ev.group \in Group /\ ev.token \in Nat /\ ev.records \in SUBSET ArticleId
           /\ ev.type = "OverviewComplete" => ev.group \in Group /\ ev.token \in Nat
           /\ ev.type = "Article" => ev.group \in Group /\ ev.number \in Nat
  BY DEF Event, GroupScope, FetchToken

\* The events that carry nothing.
LEMMA PlainEvent ==
    ASSUME NEW t \in {"Connected", "Posted", "Cancelled", "Failed", "Disconnected", "Stopped"}
    PROVE  [type |-> t] \in Event
  BY DEF Event

\* The events that report on a fetch or carry an article.
LEMMA FetchEvents ==
    ASSUME NEW g \in Group, NEW t \in Nat
    PROVE  /\ \A low, high \in Nat : [type |-> "GroupOpened", group |-> g, token |-> t,
                                      low |-> low, high |-> high] \in Event
           /\ \A records \in SUBSET ArticleId :
                 [type |-> "OverviewChunk", group |-> g, token |-> t, records |-> records] \in Event
           /\ [type |-> "OverviewComplete", group |-> g, token |-> t] \in Event
           /\ [type |-> "Article", group |-> g, number |-> t] \in Event
  BY DEF Event, FetchToken

\* The group list load_groups sends.
LEMMA GroupsEvent ==
    ASSUME NEW scope \in SUBSET Group
    PROVE  [type |-> "Groups", rows |-> RowsOf(scope), scope |-> scope] \in Event
  <1>1. \A g \in Group : [name |-> g, empty |-> Empty(marks[g])] \in GroupRow
    BY DEF GroupRow, Empty
  <1>2. RowsOf(scope) \in SUBSET GroupRow
    BY <1>1 DEF RowsOf
  <1> QED BY <1>2 DEF Event, GroupScope

\* Sending and receiving keep a channel a sequence of its messages.
LEMMA QueueType ==
    ASSUME NEW S, NEW q \in Seq(S)
    PROVE  /\ \A x \in S : Append(q, x) \in Seq(S)
           /\ q # <<>> => Head(q) \in S /\ Tail(q) \in Seq(S)
  OBVIOUS

\* The inductive form of type correctness.
TypeInv == TypeOK /\ WorkerConsistent

\* The state App::new and worker::spawn start in is well typed.
LEMMA InitType == Init => TypeInv
  <1> SUFFICES ASSUME Init PROVE TypeInv
    OBVIOUS
  <1> USE DEF Init, AppInit, WorkerInit
  <1>1. requests \in Seq(Request) /\ events \in Seq(Event) /\ cancel \in BOOLEAN
    <2>1. [type |-> "LoadGroups", scope |-> Subscribed] \in Request
      BY SubscribedAssumption DEF Request, GroupScope
    <2>2. <<[type |-> "LoadGroups", scope |-> Subscribed]>> \in Seq(Request)
      BY <2>1
    <2>3. <<>> \in Seq(Event)
      OBVIOUS
    <2> QED BY <2>2, <2>3
  <1>2. AppTypeOK
    BY SubscribedAssumption, NoDraftAssumption
    DEF AppTypeOK, GroupScope, Summary, FetchToken, DraftState
  <1>3. WorkerTypeOK
    BY InitMarksAssumption DEF WorkerTypeOK, NoJob, Request, Phases, Commands
  <1>4. WorkerConsistent
    BY DEF WorkerConsistent, FetchJob, Busy
  <1> QED BY <1>1, <1>2, <1>3, <1>4 DEF TypeInv, TypeOK

ChannelTypeOK == requests \in Seq(Request) /\ events \in Seq(Event) /\ cancel \in BOOLEAN

\* Every step of the worker thread keeps the types (worker.rs, handle and dispatch).
LEMMA WorkerTypeStep ==
    TypeInv /\ WorkerStep => ChannelTypeOK' /\ WorkerTypeOK' /\ WorkerConsistent'
  <1> SUFFICES ASSUME TypeInv, WorkerStep
               PROVE  ChannelTypeOK' /\ WorkerTypeOK' /\ WorkerConsistent'
    OBVIOUS
  <1> USE DEF TypeInv, TypeOK, ChannelTypeOK, WorkerTypeOK, Phases, Commands, WorkerConsistent,
              FetchJob, Busy, IsFetch, jobVars, serverVars, channelVars
  <1>1. CASE Take
    <2>1. ChannelTypeOK'
      BY <1>1, QueueType DEF Take
    <2>2. WorkerTypeOK'
      BY <1>1, QueueType, BatchesAssumption DEF Take, FirstCommand, ListCommands
    <2>3. WorkerConsistent'
      BY <1>1, QueueType, RequestFields DEF Take, FirstCommand
    <2> QED BY <2>1, <2>2, <2>3
  <1>2. CASE Stop
    <2>1. ChannelTypeOK'
      BY <1>2, QueueType, PlainEvent DEF Stop, Send
    <2>2. WorkerTypeOK'
      BY <1>2 DEF Stop
    <2>3. WorkerConsistent'
      BY <1>2 DEF Stop
    <2> QED BY <2>1, <2>2, <2>3
  <1>3. CASE Reset
    <2>1. ChannelTypeOK'
      BY <1>3 DEF Reset
    <2>2. WorkerTypeOK'
      BY <1>3 DEF Reset
    <2>3. WorkerConsistent'
      BY <1>3 DEF Reset
    <2> QED BY <2>1, <2>2, <2>3
  <1>4. CASE Connect
    <2>1. ChannelTypeOK'
      BY <1>4, QueueType, PlainEvent DEF Connect, Send
    <2>2. WorkerTypeOK'
      BY <1>4 DEF Connect
    <2>3. WorkerConsistent'
      BY <1>4 DEF Connect
    <2> QED BY <2>1, <2>2, <2>3
  <1>5. CASE ConnectFails
    <2>1. ChannelTypeOK'
      BY <1>5, QueueType, PlainEvent DEF ConnectFails, Send
    <2>2. WorkerTypeOK'
      BY <1>5 DEF ConnectFails, Fault
    <2>3. WorkerConsistent'
      BY <1>5 DEF ConnectFails
    <2> QED BY <2>1, <2>2, <2>3
  <1>6. CASE Refuse
    <2>1. ChannelTypeOK'
      BY <1>6, QueueType, PlainEvent DEF Refuse, Send
    <2>2. WorkerTypeOK'
      BY <1>6 DEF Refuse, Fault
    <2>3. WorkerConsistent'
      BY <1>6 DEF Refuse
    <2> QED BY <2>1, <2>2, <2>3
  <1>6a. CASE NotThere
    <2>1. ChannelTypeOK'
      BY <1>6a, QueueType, PlainEvent DEF NotThere, Send
    <2>2. WorkerTypeOK'
      BY <1>6a DEF NotThere
    <2>3. WorkerConsistent'
      BY <1>6a DEF NotThere
    <2> QED BY <2>1, <2>2, <2>3
  <1>7. CASE Break
    <2>1. ChannelTypeOK'
      BY <1>7, QueueType, PlainEvent DEF Break, Send
    <2>2. WorkerTypeOK'
      BY <1>7 DEF Break, Fault
    <2>3. WorkerConsistent'
      BY <1>7 DEF Break
    <2> QED BY <2>1, <2>2, <2>3
  <1>8. CASE Drop
    <2>1. ChannelTypeOK'
      BY <1>8, QueueType, PlainEvent DEF Drop, Send
    <2>2. WorkerTypeOK'
      BY <1>8 DEF Drop
    <2>3. WorkerConsistent'
      BY <1>8 DEF Drop
    <2> QED BY <2>1, <2>2, <2>3
  <1>9. CASE Abort
    <2>1. ChannelTypeOK'
      BY <1>9, QueueType, PlainEvent DEF Abort, Send
    <2>2. WorkerTypeOK'
      BY <1>9 DEF Abort
    <2>3. WorkerConsistent'
      BY <1>9 DEF Abort
    <2> QED BY <2>1, <2>2, <2>3
  <1>10. CASE BeginBlock
    <2>1. ChannelTypeOK'
      BY <1>10 DEF BeginBlock
    <2>2. WorkerTypeOK'
      BY <1>10 DEF BeginBlock
    <2>3. WorkerConsistent'
      BY <1>10 DEF BeginBlock, Streaming
    <2> QED BY <2>1, <2>2, <2>3
  <1>11. CASE List
    <2>1. ChannelTypeOK'
      BY <1>11 DEF List
    <2>2. WorkerTypeOK'
      BY <1>11, BatchesAssumption DEF List, ListCommands
    <2>3. WorkerConsistent'
      BY <1>11 DEF List, Reading
    <2> QED BY <2>1, <2>2, <2>3
  <1>12. CASE PatternRefused
    <2>1. ChannelTypeOK'
      BY <1>12 DEF PatternRefused
    <2>2. WorkerTypeOK'
      BY <1>12 DEF PatternRefused, Fault
    <2>3. WorkerConsistent'
      BY <1>12 DEF PatternRefused, Ready
    <2> QED BY <2>1, <2>2, <2>3
  <1>13. CASE ListAll
    <2>1. ChannelTypeOK'
      BY <1>13 DEF ListAll
    <2>2. WorkerTypeOK'
      BY <1>13 DEF ListAll
    <2>3. WorkerConsistent'
      BY <1>13 DEF ListAll, Reading
    <2> QED BY <2>1, <2>2, <2>3
  <1>14. CASE Descriptions
    <2>1. job.scope \in SUBSET Group
      BY <1>14, RequestFields DEF Descriptions, Ready, Reading
    <2>2. ChannelTypeOK'
      <3> DEFINE ev == [type |-> "Groups", rows |-> RowsOf(job.scope), scope |-> job.scope]
      <3>1. ev \in Event
        BY <2>1, GroupsEvent
      <3>2. events' = events \/ events' = Append(events, ev)
        BY <1>14 DEF Descriptions, AfterDescriptions, Send
      <3>3. events \in Seq(Event)
        OBVIOUS
      <3> HIDE DEF ev
      <3>4. Append(events, ev) \in Seq(Event)
        BY <3>1, <3>3, QueueType
      <3>5. events' \in Seq(Event)
        BY <3>2, <3>3, <3>4
      <3> QED BY <1>14, <3>5 DEF Descriptions
    <2>3. WorkerTypeOK'
      BY <1>14 DEF Descriptions, AfterDescriptions, Fault
    <2>4. WorkerConsistent'
      BY <1>14 DEF Descriptions, AfterDescriptions, Ready, Reading
    <2> QED BY <2>2, <2>3, <2>4
  <1>15. CASE DescriptionsRefused
    <2>1. job.scope \in SUBSET Group
      BY <1>15, RequestFields DEF DescriptionsRefused, Ready, Reading
    <2>2. ChannelTypeOK'
      <3> DEFINE ev == [type |-> "Groups", rows |-> RowsOf(job.scope), scope |-> job.scope]
      <3>1. ev \in Event
        BY <2>1, GroupsEvent
      <3>2. events' = events \/ events' = Append(events, ev)
        BY <1>15 DEF DescriptionsRefused, AfterDescriptions, Send
      <3>3. events \in Seq(Event)
        OBVIOUS
      <3> HIDE DEF ev
      <3>4. Append(events, ev) \in Seq(Event)
        BY <3>1, <3>3, QueueType
      <3>5. events' \in Seq(Event)
        BY <3>2, <3>3, <3>4
      <3> QED BY <1>15, <3>5 DEF DescriptionsRefused
    <2>3. WorkerTypeOK'
      BY <1>15 DEF DescriptionsRefused, AfterDescriptions, Fault
    <2>4. WorkerConsistent'
      BY <1>15 DEF DescriptionsRefused, AfterDescriptions, Ready, Reading
    <2> QED BY <2>2, <2>3, <2>4
  <1>16. CASE OpenGroupSelect
    <2> DEFINE m == marks[job.group]
    <2>1. job.group \in Group /\ job.token \in Nat /\ job.count \in Nat
      BY <1>16, RequestFields DEF OpenGroupSelect
    <2>2. m.low \in Nat /\ m.high \in Nat
      BY <2>1 DEF Marks
    <2>3. ChannelTypeOK'
      BY <1>16, <2>1, <2>2, QueueType, FetchEvents DEF OpenGroupSelect, Send
    <2>4. ASSUME ~Empty(m) PROVE NewestFrom(m.low, m.high, job.count) \in m.low..m.high
      <3>1. m.low <= m.high
        BY <2>2, <2>4 DEF Empty
      <3> HIDE DEF m
      <3> QED BY <2>1, <2>2, <3>1, NewestFromBounds
    <2>5. WorkerTypeOK'
      BY <1>16, <2>1, <2>2, <2>4 DEF OpenGroupSelect
    <2>6. WorkerConsistent'
      BY <1>16, <2>1, <2>2, <2>4 DEF OpenGroupSelect, Ready
    <2> QED BY <2>3, <2>5, <2>6
  <1>17. CASE Reselect
    <2>1. ChannelTypeOK'
      BY <1>17 DEF Reselect, NeedsGroup
    <2>2. WorkerTypeOK'
      BY <1>17, RequestFields DEF Reselect, NeedsGroup
    <2>3. WorkerConsistent'
      BY <1>17, RequestFields DEF Reselect, NeedsGroup, Ready
    <2> QED BY <2>1, <2>2, <2>3
  <1>18. CASE Over
    <2> DEFINE first == NewestChunk(todo.low, todo.high)
               records == {<<selected, n>> : n \in {k \in first..todo.high :
                                                      InMarks(selected, k)}}
    <2>1. job.group \in Group /\ job.token \in Nat /\ selected = job.group
      BY <1>18, RequestFields DEF Over, Reading
    <2>2. first \in todo.low..todo.high /\ todo.low \in Nat /\ todo.high \in Nat
      BY <1>18, ChunkBounds DEF Over, Reading
    <2>3. records \in SUBSET ArticleId
      BY <2>1, <2>2 DEF ArticleId
    <2>4. ChannelTypeOK'
      BY <1>18, <2>1, <2>3, QueueType, FetchEvents DEF Over, Send
    <2>5. WorkerTypeOK'
      BY <1>18, <2>2 DEF Over
    <2>6. CASE first > todo.low
      <3>1. phase' = "ready" /\ todo' = [todo EXCEPT !.high = first - 1]
        BY <1>18, <2>6 DEF Over
      <3>2. todo'.low <= todo'.high
        BY <2>2, <2>6, <3>1
      <3> QED BY <1>18, <2>1, <3>1, <3>2, <2>4, <2>5 DEF Over, Reading
    <2>7. CASE ~(first > todo.low)
      BY <1>18, <2>1, <2>7, <2>4, <2>5 DEF Over, Reading
    <2> QED BY <2>6, <2>7
  <1>19. CASE Complete
    <2>1. job.group \in Group /\ job.token \in Nat
      BY <1>19, RequestFields DEF Complete
    <2>2. ChannelTypeOK'
      BY <1>19, <2>1, QueueType, FetchEvents DEF Complete, Send
    <2>3. WorkerTypeOK'
      BY <1>19 DEF Complete
    <2>4. WorkerConsistent'
      BY <1>19 DEF Complete
    <2> QED BY <2>2, <2>3, <2>4
  <1>20. CASE Article
    <2>1. job.group \in Group /\ job.number \in Nat /\ selected = job.group
      BY <1>20, RequestFields DEF Article, Reading
    <2>2. ChannelTypeOK'
      BY <1>20, <2>1, QueueType, FetchEvents DEF Article, Send
    <2>3. WorkerTypeOK'
      BY <1>20 DEF Article
    <2>4. WorkerConsistent'
      BY <1>20 DEF Article
    <2> QED BY <2>2, <2>3, <2>4
  <1>21. CASE Post
    <2>1. job.draft \in Draft
      BY <1>21, RequestFields DEF Post, Ready
    <2>2. ChannelTypeOK'
      BY <1>21, QueueType, PlainEvent DEF Post, Send
    <2>3. WorkerTypeOK'
      BY <1>21, <2>1 DEF Post, Fault
    <2>4. WorkerConsistent'
      BY <1>21 DEF Post
    <2> QED BY <2>2, <2>3, <2>4
  <1>22. CASE PostLost
    <2>1. job.draft \in Draft
      BY <1>22, RequestFields DEF PostLost, Ready
    <2>2. ChannelTypeOK'
      BY <1>22, QueueType, PlainEvent DEF PostLost, Send
    <2>3. WorkerTypeOK'
      BY <1>22, <2>1 DEF PostLost, Fault
    <2>4. WorkerConsistent'
      BY <1>22 DEF PostLost
    <2> QED BY <2>2, <2>3, <2>4
  <1> QED BY <1>1, <1>2, <1>3, <1>4, <1>5, <1>6, <1>6a, <1>7, <1>8, <1>9, <1>10, <1>11, <1>12, <1>13,
             <1>14, <1>15, <1>16, <1>17, <1>18, <1>19, <1>20, <1>21, <1>22 DEF WorkerStep

\* The requests the interface builds (protocol.rs, Request).
LEMMA RequestMessages ==
    /\ \A scope \in SUBSET Group : [type |-> "LoadGroups", scope |-> scope] \in Request
    /\ \A g \in Group : \A t, n \in Nat :
          [type |-> "OpenGroup", group |-> g, count |-> n, token |-> t] \in Request
    /\ \A g \in Group : \A t, low, high \in Nat :
          [type |-> "LoadOverview", group |-> g, token |-> t, low |-> low, high |-> high] \in Request
    /\ \A g \in Group : \A n \in Nat :
          [type |-> "LoadArticle", group |-> g, number |-> n] \in Request
    /\ \A d \in Draft : [type |-> "Post", draft |-> d] \in Request
    /\ [type |-> "Shutdown"] \in Request
  BY DEF Request, GroupScope, FetchToken

\* What every request-issuing step of the interface does to the channel.
LEMMA AppendRequest ==
    ASSUME TypeInv, UNCHANGED <<workerVars, events>>, cancel' \in BOOLEAN,
           NEW r \in Request, requests' = Append(requests, r),
           r.type = "LoadOverview" => r.low <= r.high
    PROVE  ChannelTypeOK' /\ WorkerConsistent'
  <1>1. requests \in Seq(Request) /\ events \in Seq(Event)
    BY DEF TypeInv, TypeOK
  <1>2. ChannelTypeOK'
    BY <1>1, QueueType DEF ChannelTypeOK
  <1>3. \A i \in DOMAIN requests' : requests'[i].type = "LoadOverview" =>
            requests'[i].low <= requests'[i].high
    <2> SUFFICES ASSUME NEW i \in DOMAIN requests', requests'[i].type = "LoadOverview"
                 PROVE  requests'[i].low <= requests'[i].high
      OBVIOUS
    <2>1. \/ i \in DOMAIN requests /\ requests'[i] = requests[i]
          \/ requests'[i] = r
      BY <1>1
    <2> QED BY <2>1 DEF TypeInv, WorkerConsistent
  <1>4. WorkerConsistent'
    BY <1>3 DEF TypeInv, WorkerConsistent, workerVars, jobVars, FetchJob, Busy, IsFetch
  <1> QED BY <1>2, <1>4

\* Every key handler keeps the types (app.rs, on_key and what it calls).
LEMMA KeyTypeStep ==
    TypeInv /\ HandleKey => ChannelTypeOK' /\ AppTypeOK' /\ WorkerConsistent'
  <1> SUFFICES ASSUME TypeInv, OnKey, UNCHANGED workerVars
               PROVE  ChannelTypeOK' /\ AppTypeOK' /\ WorkerConsistent'
    BY DEF HandleKey
  <1> USE DEF AppTypeOK, GroupScope, FetchToken, GroupRow, ArticleId, Summary, sessionVars,
              draftVars, readVars, loopVars, historyVars, appVars, channelVars
  <1>0. AppTypeOK /\ ChannelTypeOK /\ WorkerConsistent
    BY DEF TypeInv, TypeOK, ChannelTypeOK
  <1>1. CASE \E row \in rows : OpenGroup(row)
    <2>0. PICK row \in rows : OpenGroup(row)
      BY <1>1
    <2> DEFINE r == [type |-> "OpenGroup", group |-> row.name, count |-> InitialArticles,
                     token |-> next_token + 1]
    <2>2. r \in Request /\ r.type # "LoadOverview"
      BY <1>0, <2>0, RequestMessages, InitialArticlesAssumption DEF OpenGroup
    <2>3. requests' = Append(requests, r) /\ UNCHANGED events /\ cancel' \in BOOLEAN
      BY <1>0, <2>0 DEF OpenGroup, Issue, ChannelTypeOK
    <2>4. ChannelTypeOK' /\ WorkerConsistent'
      <3> HIDE DEF r
      <3> QED BY <2>2, <2>3, AppendRequest
    <2>5. AppTypeOK'
      BY <1>0, <2>0 DEF OpenGroup, Issue, BeginOverviewFetch
    <2> QED BY <2>4, <2>5
  <1>2. CASE \E row \in rows : OpenEmpty(row)
    <2>0. PICK row \in rows : OpenEmpty(row)
      BY <1>2
    <2>1. ChannelTypeOK' /\ WorkerConsistent'
      BY <1>0, <2>0 DEF OpenEmpty, ChannelTypeOK, WorkerConsistent, workerVars,
                          jobVars, FetchJob, Busy, IsFetch
    <2>2. AppTypeOK'
      BY <1>0, <2>0 DEF OpenEmpty
    <2> QED BY <2>1, <2>2
  <1>3. CASE \E article \in articles : LoadArticle(article)
    <2>0. PICK article \in articles : LoadArticle(article)
      BY <1>3
    <2> DEFINE r == [type |-> "LoadArticle", group |-> group.name, number |-> article[2]]
    <2>2. r \in Request /\ r.type # "LoadOverview"
      BY <1>0, <2>0, RequestMessages DEF LoadArticle
    <2>3. requests' = Append(requests, r) /\ UNCHANGED events /\ cancel' \in BOOLEAN
      BY <1>0, <2>0 DEF LoadArticle, Issue, ChannelTypeOK
    <2>4. ChannelTypeOK' /\ WorkerConsistent'
      <3> HIDE DEF r
      <3> QED BY <2>2, <2>3, AppendRequest
    <2>5. AppTypeOK'
      BY <1>0, <2>0 DEF LoadArticle, Issue
    <2> QED BY <2>4, <2>5
  <1>4. CASE \E article \in articles : ToggleRead(article)
    <2>0. PICK article \in articles : ToggleRead(article)
      BY <1>4
    <2>1. ChannelTypeOK' /\ WorkerConsistent'
      BY <1>0, <2>0 DEF ToggleRead, ChannelTypeOK, WorkerConsistent, workerVars,
                          jobVars, FetchJob, Busy, IsFetch
    <2>2. AppTypeOK'
      BY <1>0, <2>0 DEF ToggleRead
    <2> QED BY <2>1, <2>2
  <1>5. CASE Reload
    <2> DEFINE r == [type |-> "LoadOverview", group |-> group.name, token |-> next_token + 1,
                     low |-> NewestFrom(group.low, group.high, InitialArticles),
                     high |-> group.high]
    <2>1. NewestFrom(group.low, group.high, InitialArticles) \in group.low..group.high
      BY <1>0, <1>5, NewestFromBounds, InitialArticlesAssumption DEF Reload, HasRange
    <2>2. r \in Request /\ (r.type = "LoadOverview" => r.low <= r.high)
      BY <1>0, <1>5, <2>1, RequestMessages DEF Reload
    <2>3. requests' = Append(requests, r) /\ UNCHANGED events /\ cancel' \in BOOLEAN
      BY <1>0, <1>5 DEF Reload, Issue, ChannelTypeOK
    <2>4. ChannelTypeOK' /\ WorkerConsistent'
      <3> HIDE DEF r
      <3> QED BY <2>2, <2>3, AppendRequest
    <2>5. AppTypeOK'
      BY <1>0, <1>5 DEF Reload, Issue, BeginOverviewFetch
    <2> QED BY <2>4, <2>5
  <1>6. CASE ReloadGroups
    <2> DEFINE r == [type |-> "LoadGroups", scope |-> group_scope]
    <2>2. r \in Request /\ r.type # "LoadOverview"
      BY <1>0, <1>6, RequestMessages DEF ReloadGroups
    <2>3. requests' = Append(requests, r) /\ UNCHANGED events /\ cancel' \in BOOLEAN
      BY <1>0, <1>6 DEF ReloadGroups, Issue, ChannelTypeOK
    <2>4. ChannelTypeOK' /\ WorkerConsistent'
      <3> HIDE DEF r
      <3> QED BY <2>2, <2>3, AppendRequest
    <2>5. AppTypeOK'
      BY <1>0, <1>6 DEF ReloadGroups, Issue
    <2> QED BY <2>4, <2>5
  <1>7. CASE \E scope \in GroupScope : SearchGroups(scope)
    <2>0. PICK scope \in GroupScope : SearchGroups(scope)
      BY <1>7
    <2> DEFINE r == [type |-> "LoadGroups", scope |-> scope]
    <2>2. r \in Request /\ r.type # "LoadOverview"
      BY <1>0, <2>0, RequestMessages, SubscribedAssumption DEF SearchGroups
    <2>3. requests' = Append(requests, r) /\ UNCHANGED events /\ cancel' \in BOOLEAN
      BY <1>0, <2>0 DEF SearchGroups, Issue, ChannelTypeOK
    <2>4. ChannelTypeOK' /\ WorkerConsistent'
      <3> HIDE DEF r
      <3> QED BY <2>2, <2>3, AppendRequest
    <2>5. AppTypeOK'
      BY <1>0, <2>0, SubscribedAssumption DEF SearchGroups, Issue
    <2> QED BY <2>4, <2>5
  <1>8. CASE RequestCancellation
    <2>1. ChannelTypeOK' /\ WorkerConsistent'
      BY <1>0, <1>8 DEF RequestCancellation, ChannelTypeOK, WorkerConsistent, workerVars,
                          jobVars, FetchJob, Busy, IsFetch
    <2>2. AppTypeOK'
      BY <1>0, <1>8 DEF RequestCancellation
    <2> QED BY <2>1, <2>2
  <1>9. CASE CatchUp
    <2>1. ChannelTypeOK' /\ WorkerConsistent'
      BY <1>0, <1>9 DEF CatchUp, ChannelTypeOK, WorkerConsistent, workerVars,
                          jobVars, FetchJob, Busy, IsFetch
    <2>2. AppTypeOK'
      BY <1>0, <1>9 DEF CatchUp, Articles
    <2> QED BY <2>1, <2>2
  <1>10. CASE \E draft \in Draft : ComposeAbandoned(draft)
    <2>0. PICK draft \in Draft : ComposeAbandoned(draft)
      BY <1>10
    <2>1. ChannelTypeOK' /\ WorkerConsistent'
      BY <1>0, <2>0 DEF ComposeAbandoned, ChannelTypeOK, WorkerConsistent, workerVars,
                          jobVars, FetchJob, Busy, IsFetch
    <2>2. AppTypeOK'
      BY <1>0, <2>0 DEF ComposeAbandoned, DraftState
    <2> QED BY <2>1, <2>2
  <1>11. CASE \E draft \in Draft : ComposeKept(draft)
    <2>0. PICK draft \in Draft : ComposeKept(draft)
      BY <1>11
    <2>1. ChannelTypeOK' /\ WorkerConsistent'
      BY <1>0, <2>0 DEF ComposeKept, ChannelTypeOK, WorkerConsistent, workerVars,
                          jobVars, FetchJob, Busy, IsFetch
    <2>2. AppTypeOK'
      BY <1>0, <2>0 DEF ComposeKept, DraftState
    <2> QED BY <2>1, <2>2
  <1>12. CASE \E draft \in Draft, groups \in SUBSET Group : ComposeSent(draft, groups)
    <2>0. PICK draft \in Draft, groups \in SUBSET Group : ComposeSent(draft, groups)
      BY <1>12
    <2> DEFINE r == [type |-> "Post", draft |-> draft]
    <2>2. r \in Request /\ r.type # "LoadOverview"
      BY <1>0, <2>0, RequestMessages DEF ComposeSent
    <2>3. requests' = Append(requests, r) /\ UNCHANGED events /\ cancel' \in BOOLEAN
      BY <1>0, <2>0 DEF ComposeSent, Issue, ChannelTypeOK
    <2>4. ChannelTypeOK' /\ WorkerConsistent'
      <3> HIDE DEF r
      <3> QED BY <2>2, <2>3, AppendRequest
    <2>5. AppTypeOK'
      BY <1>0, <2>0 DEF ComposeSent, Issue, DraftState
    <2> QED BY <2>4, <2>5
  <1>13. CASE Quit
    <2> DEFINE r == [type |-> "Shutdown"]
    <2>2. r \in Request /\ r.type # "LoadOverview"
      BY <1>0, <1>13, RequestMessages DEF Quit
    <2>3. requests' = Append(requests, r) /\ UNCHANGED events /\ cancel' \in BOOLEAN
      BY <1>0, <1>13 DEF Quit, ChannelTypeOK
    <2>4. ChannelTypeOK' /\ WorkerConsistent'
      <3> HIDE DEF r
      <3> QED BY <2>2, <2>3, AppendRequest
    <2>5. AppTypeOK'
      BY <1>0, <1>13 DEF Quit
    <2> QED BY <2>4, <2>5
  <1> QED BY <1>1, <1>2, <1>3, <1>4, <1>5, <1>6, <1>7, <1>8, <1>9, <1>10, <1>11, <1>12, <1>13 DEF OnKey

\* Every event handler keeps the types (app.rs, on_event).
LEMMA EventTypeStep ==
    TypeInv /\ HandleEvent => ChannelTypeOK' /\ AppTypeOK' /\ WorkerConsistent'
  <1> SUFFICES ASSUME TypeInv, OnEvent(phase = "stopped"), UNCHANGED workerVars
               PROVE  ChannelTypeOK' /\ AppTypeOK' /\ WorkerConsistent'
    BY DEF HandleEvent
  <1> USE DEF AppTypeOK, GroupScope, FetchToken, ArticleId, Summary, sessionVars, draftVars,
              readVars, loopVars, historyVars
  <1>0. AppTypeOK /\ ChannelTypeOK /\ WorkerConsistent
    BY DEF TypeInv, TypeOK, ChannelTypeOK
  <1>1. events # <<>> => Head(events) \in Event /\ Tail(events) \in Seq(Event)
    BY <1>0, QueueType DEF ChannelTypeOK
  <1>2. ASSUME events' = Tail(events), events # <<>>, UNCHANGED <<requests, cancel>>
        PROVE  ChannelTypeOK' /\ WorkerConsistent'
    BY <1>0, <1>1, <1>2
    DEF ChannelTypeOK, WorkerConsistent, workerVars, jobVars, FetchJob, Busy, IsFetch
  <1>3. CASE OnConnected
    <2>1. AppTypeOK'
      BY <1>0, <1>1, <1>3, EventFields DEF OnConnected, Receive, SaturatingPred
    <2> QED BY <1>2, <1>3, <2>1 DEF OnConnected, Receive
  <1>4. CASE OnGroups
    <2>1. AppTypeOK'
      BY <1>0, <1>1, <1>4, EventFields DEF OnGroups, Receive, SaturatingPred
    <2> QED BY <1>2, <1>4, <2>1 DEF OnGroups, Receive
  <1>5. CASE OnGroupOpened
    <2>1. AppTypeOK'
      BY <1>0, <1>1, <1>5, EventFields DEF OnGroupOpened, Receive, SaturatingPred
    <2> QED BY <1>2, <1>5, <2>1 DEF OnGroupOpened, Receive
  <1>6. CASE OnOverviewChunk
    <2>1. AppTypeOK'
      BY <1>0, <1>1, <1>6, EventFields DEF OnOverviewChunk, Receive, SaturatingPred
    <2> QED BY <1>2, <1>6, <2>1 DEF OnOverviewChunk, Receive
  <1>7. CASE OnOverviewComplete
    <2>1. AppTypeOK'
      BY <1>0, <1>1, <1>7, EventFields DEF OnOverviewComplete, Receive, SaturatingPred
    <2> QED BY <1>2, <1>7, <2>1 DEF OnOverviewComplete, Receive
  <1>8. CASE OnArticle
    <2>1. AppTypeOK'
      BY <1>0, <1>1, <1>8, EventFields DEF OnArticle, Receive, SaturatingPred
    <2> QED BY <1>2, <1>8, <2>1 DEF OnArticle, Receive
  <1>9. CASE OnPosted(phase = "stopped")
    <2> DEFINE r == [type |-> "OpenGroup", group |-> group.name, count |-> InitialArticles,
                     token |-> next_token + 1]
    <2>1. AppTypeOK'
      <3>1. drafts' \in [Draft -> DraftState]
        BY <1>0, <1>9 DEF OnPosted, DraftState
      <3>2. /\ overview_token' \in Nat /\ next_token' \in Nat /\ inflight' \in Nat
            /\ connected' \in BOOLEAN
        <4>1. CASE group.name \in posting_groups
          <5>1. overview_token' = next_token + 1 /\ next_token' = next_token + 1
            BY <1>9, <4>1 DEF OnPosted, BeginOverviewFetch
          <5>2. CASE phase = "stopped"
            <6>1. inflight' = 0 /\ connected' = FALSE
              BY <1>9, <4>1, <5>2 DEF OnPosted
            <6>2. connected' \in BOOLEAN
              BY <6>1
            <6>3. overview_token' \in Nat /\ next_token' \in Nat /\ inflight' \in Nat
              BY <1>0, <5>1, <6>1
            <6> QED BY <6>2, <6>3
          <5>3. CASE phase # "stopped"
            <6>1. inflight' = SaturatingPred(inflight) + 1 /\ connected' = connected
              BY <1>9, <4>1, <5>3 DEF OnPosted
            <6> QED BY <1>0, <5>1, <6>1 DEF SaturatingPred
          <5> QED BY <5>2, <5>3
        <4>2. CASE group.name \notin posting_groups
          BY <1>0, <1>9, <4>2 DEF OnPosted, SaturatingPred
        <4> QED BY <4>1, <4>2
      <3> QED BY <1>0, <1>9, <3>1, <3>2, NoDraftAssumption DEF OnPosted
    <2>2. CASE UNCHANGED requests
      BY <1>2, <1>9, <2>1, <2>2 DEF OnPosted, Receive
    <2>3. CASE group.name \in posting_groups /\ requests' = Append(requests, r)
      <3>1. r \in Request /\ r.type # "LoadOverview"
        BY <1>0, <2>3, RequestMessages, InitialArticlesAssumption
      <3>2. requests' \in Seq(Request) /\ WorkerConsistent'
        <4>1. \A i \in DOMAIN requests' : requests'[i].type = "LoadOverview" =>
                 i \in DOMAIN requests /\ requests'[i] = requests[i]
          <5> HIDE DEF r
          <5> QED BY <1>0, <2>3, <3>1 DEF ChannelTypeOK
        <4>2. requests' \in Seq(Request)
          BY <1>0, <2>3, <3>1, QueueType DEF ChannelTypeOK
        <4> QED BY <1>0, <4>1, <4>2
                DEF WorkerConsistent, workerVars, jobVars, FetchJob, Busy, IsFetch
      <3> QED BY <1>0, <1>1, <1>9, <2>1, <3>2 DEF OnPosted, Receive, ChannelTypeOK
    <2> QED BY <1>9, <2>2, <2>3 DEF OnPosted
  <1>10. CASE OnUnfinished("Cancelled")
    <2>1. AppTypeOK'
      BY <1>0, <1>10 DEF OnUnfinished, SaturatingPred
    <2> QED BY <1>2, <1>10, <2>1 DEF OnUnfinished, Receive
  <1>11. CASE OnUnfinished("Failed")
    <2>1. AppTypeOK'
      BY <1>0, <1>11 DEF OnUnfinished, SaturatingPred
    <2> QED BY <1>2, <1>11, <2>1 DEF OnUnfinished, Receive
  <1>12. CASE OnDisconnected
    <2>1. AppTypeOK'
      BY <1>0, <1>12 DEF OnDisconnected
    <2> QED BY <1>2, <1>12, <2>1 DEF OnDisconnected, Receive
  <1>13. CASE OnStopped
    <2>1. AppTypeOK'
      BY <1>0, <1>13 DEF OnStopped
    <2> QED BY <1>2, <1>13, <2>1 DEF OnStopped, Receive
  <1> QED BY <1>3, <1>4, <1>5, <1>6, <1>7, <1>8, <1>9, <1>10, <1>11, <1>12, <1>13 DEF OnEvent

\* Every variable keeps its type, and the worker's command, job, selection and remaining
\* range fit together (worker.rs: dispatch and the functions it calls), whatever the keys,
\* the events and the failures.
THEOREM TypeCorrect == Spec => []TypeInv
  <1>1. Init => TypeInv
    BY InitType
  <1>2. TypeInv /\ [Next]_vars => TypeInv'
    <2> SUFFICES ASSUME TypeInv, [Next]_vars PROVE TypeInv'
      OBVIOUS
    <2>0. AppTypeOK /\ ChannelTypeOK /\ WorkerTypeOK /\ WorkerConsistent
      BY DEF TypeInv, TypeOK, ChannelTypeOK
    <2>1. ASSUME UNCHANGED appVars PROVE AppTypeOK'
      BY <2>0, <2>1 DEF AppTypeOK, appVars, sessionVars, draftVars, readVars, loopVars, historyVars
    <2>2. ASSUME UNCHANGED workerVars PROVE WorkerTypeOK'
      BY <2>0, <2>2 DEF WorkerTypeOK, workerVars, jobVars, serverVars
    <2>3. CASE WorkerRuns
      BY <2>1, <2>3, WorkerTypeStep DEF WorkerRuns, TypeInv, TypeOK, ChannelTypeOK
    <2>4. CASE ServerRuns
      <3>1. PICK g \in Group : Arrive(g) \/ Expire(g)
        BY <2>4 DEF ServerRuns, ServerStep
      <3>2. marks' \in [Group -> Marks]
        BY <2>0, <3>1 DEF Arrive, Expire, WorkerTypeOK, Marks
      <3>3. ChannelTypeOK' /\ WorkerTypeOK'
        BY <2>0, <3>1, <3>2 DEF Arrive, Expire, WorkerTypeOK, ChannelTypeOK, channelVars, jobVars
      <3>4. WorkerConsistent'
        BY <2>0, <3>1 DEF Arrive, Expire, WorkerConsistent, channelVars, jobVars, FetchJob, Busy, IsFetch
      <3> QED BY <2>1, <2>4, <3>3, <3>4 DEF ServerRuns, TypeInv, TypeOK, ChannelTypeOK
    <2>5. CASE HandleEvent
      BY <2>2, <2>5, EventTypeStep DEF HandleEvent, TypeInv, TypeOK, ChannelTypeOK
    <2>6. CASE HandleKey
      BY <2>2, <2>6, KeyTypeStep DEF HandleKey, TypeInv, TypeOK, ChannelTypeOK
    <2>6a. CASE LastDrain /\ UNCHANGED workerVars
      <3>1. AppTypeOK'
        BY <2>0, <2>6a DEF LastDrain, AppTypeOK, sessionVars, draftVars, readVars, historyVars
      <3>2. ChannelTypeOK' /\ WorkerConsistent'
        BY <2>0, <2>6a DEF LastDrain, ChannelTypeOK, WorkerConsistent, channelVars, workerVars,
                          jobVars, FetchJob, Busy, IsFetch
      <3> QED BY <2>2, <2>6a, <3>1, <3>2 DEF TypeInv, TypeOK, ChannelTypeOK
    <2>7. CASE Close /\ UNCHANGED workerVars
      <3>1. AppTypeOK'
        BY <2>0, <2>7 DEF Close, AppTypeOK, sessionVars, draftVars, historyVars
      <3>2. [type |-> "Shutdown"] \in Request /\ [type |-> "Shutdown"].type # "LoadOverview"
        BY RequestMessages
      <3>3. ChannelTypeOK' /\ WorkerConsistent'
        BY <2>0, <2>7, <3>2, AppendRequest DEF Close, ChannelTypeOK
      <3> QED BY <2>2, <2>7, <3>1, <3>3 DEF TypeInv, TypeOK, ChannelTypeOK
    <2>8. CASE Exit /\ UNCHANGED workerVars
      <3>1. AppTypeOK'
        BY <2>0, <2>8 DEF Exit, AppTypeOK, sessionVars, draftVars, readVars, historyVars
      <3>2. ChannelTypeOK' /\ WorkerConsistent'
        BY <2>0, <2>8 DEF Exit, ChannelTypeOK, WorkerConsistent, channelVars, workerVars, jobVars,
                         FetchJob, Busy, IsFetch
      <3> QED BY <2>2, <2>8, <3>1, <3>2 DEF TypeInv, TypeOK, ChannelTypeOK
    <2>9. CASE UNCHANGED vars
      BY <2>0, <2>1, <2>2, <2>9 DEF vars, channelVars, TypeInv, TypeOK, ChannelTypeOK, WorkerConsistent,
         workerVars, jobVars, FetchJob, Busy, IsFetch
    <2> QED BY <2>3, <2>4, <2>5, <2>6, <2>6a, <2>7, <2>8, <2>9 DEF Next, Leave, Wait
  <1> QED BY <1>1, <1>2, PTL DEF Spec

\* TypeOK itself: every message on a channel is one protocol.rs declares, and no number
\* ever leaves the naturals.
THEOREM TypesKept == Spec => []TypeOK
  <1>1. TypeInv => TypeOK
    BY DEF TypeInv
  <1> QED BY <1>1, TypeCorrect, PTL

-----------------------------------------------------------------------------
(* Broken connections *)

\* A broken connection exists only between the failure and the step that drops it.
BrokenIsDropped == client = "broken" => phase = "drop"

\* No request is ever served on a connection that has failed: dispatch drops it before the
\* next request is taken, also after the errors load_groups swallows (worker.rs).
THEOREM BrokenClientDropped == Spec => []NoBrokenClientKept
  <1>1. Init => BrokenIsDropped
    BY DEF Init, WorkerInit, BrokenIsDropped
  <1>2. BrokenIsDropped /\ [Next]_vars => BrokenIsDropped'
    <2> SUFFICES ASSUME BrokenIsDropped, [Next]_vars PROVE BrokenIsDropped'
      OBVIOUS
    <2> USE DEF BrokenIsDropped
    <2>1. CASE WorkerStep
      <3>1. CASE \/ Take \/ Stop \/ Reset \/ Connect \/ ConnectFails \/ Refuse \/ NotThere
                 \/ Break \/ Drop \/ Abort
        BY <3>1 DEF Take, Stop, Reset, Connect, ConnectFails, Refuse, NotThere, Break, Drop, Abort
      <3>2. CASE BeginBlock \/ List \/ PatternRefused \/ ListAll \/ Descriptions \/ DescriptionsRefused
        BY <3>2 DEF BeginBlock, List, PatternRefused, ListAll, Descriptions, DescriptionsRefused,
           Ready, Reading
      <3>3. CASE OpenGroupSelect \/ Reselect \/ Over \/ Complete \/ Article \/ Post \/ PostLost
        BY <3>3 DEF OpenGroupSelect, Reselect, Over, Complete, Article, Post, PostLost, Ready,
           Reading
      <3> QED BY <2>1, <3>1, <3>2, <3>3 DEF WorkerStep
    <2>2. CASE UNCHANGED <<client, phase>>
      BY <2>2
    <2>3. CASE ServerStep
      BY <2>2, <2>3 DEF ServerStep, Arrive, Expire
    <2> QED BY <2>1, <2>2, <2>3 DEF Next, WorkerRuns, ServerRuns, HandleEvent, HandleKey, Leave,
            Wait, vars, workerVars
  <1>3. BrokenIsDropped => NoBrokenClientKept
    BY DEF BrokenIsDropped, NoBrokenClientKept
  <1> QED BY <1>1, <1>2, <1>3, PTL DEF Spec

-----------------------------------------------------------------------------
(***************************************************************************)
(* The order of what is in flight.  Both channels are FIFO and the worker  *)
(* serves one request at a time, so fetches are reported in the order they *)
(* were asked for; that is what makes the interface's two checks on a late *)
(* reply (fetch token and group name, App::accepts_overview) sufficient.   *)
(*                                                                         *)
(* The lemmas below follow what a step does to the pending messages, not   *)
(* the action it comes from: most actions only take messages away or add   *)
(* messages that open nothing (PendingShrinks); the others are treated one *)
(* by one.                                                                 *)
(***************************************************************************)


\* IInv without WorkerConsistent, which TypeInv has.
SessionInv ==
    /\ TokensIssued
    /\ TokensOrdered
    /\ FetchesConsistent
    /\ NoTokenNoFetch
    /\ OpensMatchList
    /\ ListMatchesGroup
    /\ ArticlesMatchGroup

PendingRequest(request) == IsFetch(request) \/ request.type = "LoadArticle"
PendingEvent(event) == IsFetchEvent(event) \/ event.type = "Article"

\* What is pending now was pending before, f (or k) places further from the head.
RequestsKept(f) ==
    \A i \in DOMAIN requests' : PendingRequest(requests'[i]) =>
        i + f \in DOMAIN requests /\ requests'[i] = requests[i + f]
EventsKept(k) ==
    \A i \in DOMAIN events' : PendingEvent(events'[i]) =>
        i + k \in DOMAIN events /\ events'[i] = events[i + k]
JobKept ==
    /\ job' = job
    /\ FetchJob' => FetchJob
    /\ OpenJob' => OpenJob
    /\ ArticleJob' => ArticleJob

\* The indices of the two channels are 1, 2, ...
QueuesIndexed ==
    /\ Len(requests) \in Nat
    /\ Len(events) \in Nat
    /\ DOMAIN requests = 1..Len(requests)
    /\ DOMAIN events = 1..Len(events)

\* A well-typed channel is indexed from 1.
LEMMA Indexed == ChannelTypeOK => QueuesIndexed
  BY DEF ChannelTypeOK, QueuesIndexed

-----------------------------------------------------------------------------
(* Steps that take messages from the heads of the channels and add only messages that  *)
(* neither open a group nor carry an article.                                          *)

\* Requests stay in order, behind the job.
LEMMA RequestPartsKept ==
    ASSUME RequestsInOrder, JobBeforeRequests, QueuesIndexed, QueuesIndexed',
           NEW f \in Nat, RequestsKept(f), JobKept
    PROVE  RequestsInOrder' /\ JobBeforeRequests'
  <1> USE DEF RequestsKept, JobKept, QueuesIndexed, PendingRequest
  <1>1. RequestsInOrder'
    <2> SUFFICES ASSUME NEW i \in DOMAIN requests', NEW j \in DOMAIN requests', i < j,
                        IsFetch(requests'[i]), IsFetch(requests'[j])
                 PROVE  requests'[i].token < requests'[j].token
      BY DEF RequestsInOrder, IsFetch
    <2>1. i + f < j + f
      OBVIOUS
    <2> QED BY <2>1 DEF RequestsInOrder
  <1>2. JobBeforeRequests'
    BY DEF JobBeforeRequests, IsFetch
  <1> QED BY <1>1, <1>2

\* Events stay in order, ahead of the job, and agree on the group of each fetch.
LEMMA EventPartsKept ==
    ASSUME EventsBeforeJob, EventsInOrder, FetchesConsistent, QueuesIndexed, QueuesIndexed',
           NEW k \in Nat, EventsKept(k), JobKept
    PROVE  EventsBeforeJob' /\ EventsInOrder' /\ FetchesConsistent'
  <1> USE DEF EventsKept, JobKept, QueuesIndexed, PendingEvent
  <1>1. EventsBeforeJob'
    BY DEF EventsBeforeJob, IsFetchEvent
  <1>2. EventsInOrder'
    <2> SUFFICES ASSUME NEW i \in DOMAIN events', NEW j \in DOMAIN events', i < j,
                        IsFetchEvent(events'[i]), IsFetchEvent(events'[j])
                 PROVE  /\ events'[i].token <= events'[j].token
                        /\ events'[i].type = "OverviewComplete" =>
                              events'[i].token < events'[j].token
      BY DEF EventsInOrder, IsFetchEvent
    <2>1. i + k < j + k
      OBVIOUS
    <2> QED BY <2>1 DEF EventsInOrder
  <1>3. FetchesConsistent'
    <2>1. ASSUME NEW i \in DOMAIN events', NEW j \in DOMAIN events', IsFetchEvent(events'[i]),
                 IsFetchEvent(events'[j]), events'[i].token = events'[j].token
          PROVE  events'[i].group = events'[j].group
      <3>1. /\ i + k \in DOMAIN events /\ events'[i] = events[i + k]
            /\ j + k \in DOMAIN events /\ events'[j] = events[j + k]
        BY <2>1
      <3> QED BY <2>1, <3>1 DEF FetchesConsistent
    <2>2. ASSUME NEW i \in DOMAIN events', FetchJob', IsFetchEvent(events'[i]),
                 events'[i].token = job'.token
          PROVE  events'[i].group = job'.group
      <3>1. i + k \in DOMAIN events /\ events'[i] = events[i + k]
        BY <2>2
      <3> QED BY <2>2, <3>1 DEF FetchesConsistent
    <2>3. ASSUME NEW i \in DOMAIN events', events'[i].type = "OverviewChunk"
          PROVE  \A article \in events'[i].records : article[1] = events'[i].group
      <3>1. i + k \in DOMAIN events /\ events'[i] = events[i + k]
        BY <2>3 DEF IsFetchEvent
      <3> QED BY <2>3, <3>1 DEF FetchesConsistent
    <2>4. /\ \A i, j \in DOMAIN events' :
                IsFetchEvent(events'[i]) /\ IsFetchEvent(events'[j])
                    /\ events'[i].token = events'[j].token
                  => events'[i].group = events'[j].group
          /\ \A i \in DOMAIN events' :
                FetchJob' /\ IsFetchEvent(events'[i]) /\ events'[i].token = job'.token
                  => events'[i].group = job'.group
      BY <2>1, <2>2
    <2>5. \A i \in DOMAIN events' : events'[i].type = "OverviewChunk" =>
             \A article \in events'[i].records : article[1] = events'[i].group
      BY <2>3
    <2> HIDE DEF EventsKept, JobKept, QueuesIndexed, PendingEvent
    <2> QED BY <2>4, <2>5 DEF FetchesConsistent, IsFetchEvent
  <1> QED BY <1>1, <1>2, <1>3

\* Groups announced ahead of place n are announced ahead of place n + k before the step.
LEMMA OpenedStaysKept ==
    ASSUME QueuesIndexed, QueuesIndexed', NEW k \in Nat, EventsKept(k),
           NEW n \in 0..Len(events'), NEW m \in Nat, n + k <= m \/ Len(events) <= m,
           OpenedStays(m), group'.name = group.name
    PROVE  \A j \in 1..n : events'[j].type = "GroupOpened" => events'[j].group = group'.name
  <1> SUFFICES ASSUME NEW j \in 1..n, events'[j].type = "GroupOpened"
               PROVE  events'[j].group = group.name
    BY DEF OpenedStays
  <1>0. j \in DOMAIN events' /\ j \in Nat
    BY DEF QueuesIndexed
  <1>1. events'[j] = events[j + k] /\ j + k \in 1..Len(events)
    BY <1>0 DEF EventsKept, QueuesIndexed, PendingEvent, IsFetchEvent
  <1>2. j + k \in 1..m
    BY <1>1 DEF QueuesIndexed
  <1> QED BY <1>1, <1>2 DEF OpenedStays

\* Articles that were answered or taken still belong to the selected group.
LEMMA ArticlesAnsweredKept ==
    ASSUME ArticleJobMatches, ArticleEventsMatch, QueuesIndexed, QueuesIndexed',
           NEW k \in Nat, EventsKept(k), JobKept, group'.name = group.name
    PROVE  ArticleJobMatches' /\ ArticleEventsMatch'
  <1>1. ASSUME ArticleJob'
        PROVE  /\ job'.group = group'.name
               /\ \A j \in 1..Len(events') : events'[j].type = "GroupOpened" =>
                     events'[j].group = group'.name
    <2>1. job'.group = group'.name /\ OpenedStays(Len(events))
      BY <1>1 DEF ArticleJobMatches, JobKept
    <2> QED BY <2>1, OpenedStaysKept DEF QueuesIndexed
  <1>2. ASSUME NEW i \in DOMAIN events', events'[i].type = "Article"
        PROVE  /\ events'[i].group = group'.name
               /\ \A j \in 1..(i - 1) : events'[j].type = "GroupOpened" =>
                     events'[j].group = group'.name
    <2>1. PICK p \in DOMAIN events : p = i + k /\ events'[i] = events[p]
      BY <1>2 DEF EventsKept, PendingEvent
    <2>2. events'[i].group = group'.name /\ OpenedStays(p - 1)
      BY <1>2, <2>1 DEF ArticleEventsMatch
    <2>3. i - 1 \in 0..Len(events') /\ p - 1 \in Nat /\ (i - 1) + k <= p - 1
      BY <2>1 DEF QueuesIndexed
    <2> QED BY <2>2, <2>3, OpenedStaysKept
  <1> QED BY <1>1, <1>2 DEF ArticleJobMatches, ArticleEventsMatch, OpenedStays

\* Articles still to be asked for belong to the selected group, and no open ahead of them
\* changes it.
LEMMA ArticlesAskedKept ==
    ASSUME ArticleRequestsMatch, QueuesIndexed, QueuesIndexed',
           NEW f \in Nat, RequestsKept(f), NEW k \in Nat, EventsKept(k), JobKept,
           group'.name = group.name
    PROVE  ArticleRequestsMatch'
  <1>1. ASSUME NEW i \in DOMAIN requests', requests'[i].type = "LoadArticle"
        PROVE  /\ requests'[i].group = group'.name
               /\ \A j \in 1..(i - 1) : requests'[j].type = "OpenGroup" =>
                     requests'[j].group = group'.name
               /\ OpenJob' => job'.group = group'.name
               /\ \A j \in 1..Len(events') : events'[j].type = "GroupOpened" =>
                     events'[j].group = group'.name
    <2>1. PICK p \in DOMAIN requests : p = i + f /\ requests'[i] = requests[p]
      BY <1>1 DEF RequestsKept, PendingRequest
    <2>2. /\ requests'[i].group = group.name
          /\ \A j \in 1..(p - 1) : requests[j].type = "OpenGroup" =>
                requests[j].group = group.name
          /\ OpenJob => job.group = group.name
          /\ OpenedStays(Len(events))
      BY <1>1, <2>1 DEF ArticleRequestsMatch
    <2>3. ASSUME NEW j \in 1..(i - 1), requests'[j].type = "OpenGroup"
          PROVE  requests'[j].group = group'.name
      <3>1. j \in DOMAIN requests' /\ j + f \in 1..(p - 1)
        BY <2>1 DEF QueuesIndexed
      <3>2. requests'[j] = requests[j + f]
        BY <2>3, <3>1 DEF RequestsKept, PendingRequest, IsFetch
      <3> QED BY <2>2, <2>3, <3>1, <3>2
    <2>4. \A j \in 1..Len(events') : events'[j].type = "GroupOpened" =>
             events'[j].group = group'.name
      <3>1. Len(events') \in 0..Len(events') /\ Len(events) \in Nat /\ OpenedStays(Len(events))
        BY <2>2 DEF QueuesIndexed
      <3> QED BY <3>1, OpenedStaysKept
    <2> QED BY <2>2, <2>3, <2>4 DEF JobKept
  <1> QED BY <1>1 DEF ArticleRequestsMatch, OpenedStays

\* The step of most actions: the session stays as it is, or the list is cleared.
LEMMA PendingShrinks ==
    ASSUME SessionInv, QueuesIndexed, QueuesIndexed',
           NEW f \in Nat, RequestsKept(f), NEW k \in Nat, EventsKept(k), JobKept,
           UNCHANGED <<overview_token, next_token>>, group'.name = group.name,
           articles' \in {articles, {}}
    PROVE  SessionInv'
  <1> USE DEF SessionInv
  <1>1. RequestsInOrder' /\ JobBeforeRequests'
    BY RequestPartsKept DEF TokensOrdered
  <1>2. EventsBeforeJob' /\ EventsInOrder' /\ FetchesConsistent'
    BY EventPartsKept DEF TokensOrdered
  <1>3. ArticleJobMatches' /\ ArticleEventsMatch'
    BY ArticlesAnsweredKept DEF ArticlesMatchGroup
  <1>4. ArticleRequestsMatch'
    BY ArticlesAskedKept DEF ArticlesMatchGroup
  <1> USE DEF RequestsKept, EventsKept, JobKept, PendingRequest, PendingEvent, IsFetch,
              IsFetchEvent
  <1>5. TokensIssued'
    BY DEF TokensIssued
  <1>6. EventsBeforeRequests'
    BY DEF EventsBeforeRequests, TokensOrdered
  <1>7. NoTokenNoFetch'
    BY DEF NoTokenNoFetch
  <1>8. OpensMatchList'
    BY DEF OpensMatchList
  <1>9. ListMatchesGroup'
    BY DEF ListMatchesGroup
  <1> HIDE DEF RequestsKept, EventsKept, JobKept, PendingRequest, PendingEvent, IsFetch,
              IsFetchEvent
  <1> QED BY <1>1, <1>2, <1>3, <1>4, <1>5, <1>6, <1>7, <1>8, <1>9
          DEF TokensOrdered, ArticlesMatchGroup

-----------------------------------------------------------------------------
(* The interface issues a request *)

RequestAdded(r) ==
    \A i \in DOMAIN requests' :
        \/ i \in DOMAIN requests /\ requests'[i] = requests[i]
        \/ i = Len(requests) + 1 /\ requests'[i] = r

\* A new fetch: it has a token of its own, and either its group is the selected one or
\* the list is cleared (activate, refresh, refresh_after_posting).
LEMMA FetchIssued ==
    ASSUME SessionInv, next_token \in Nat, QueuesIndexed, QueuesIndexed',
           NEW r, IsFetch(r), r.token = next_token + 1, RequestAdded(r),
           NEW k \in Nat, EventsKept(k), JobKept,
           next_token' = next_token + 1, overview_token' = next_token + 1,
           group'.name = group.name, articles' \in {articles, {}},
           r.type = "OpenGroup" => articles' = {} \/ r.group = group.name
    PROVE  SessionInv'
  <1> USE DEF SessionInv
  <1>1. EventsBeforeJob' /\ EventsInOrder' /\ FetchesConsistent'
    BY EventPartsKept DEF TokensOrdered
  <1>2. ArticleJobMatches' /\ ArticleEventsMatch'
    BY ArticlesAnsweredKept DEF ArticlesMatchGroup
  <1>3. TokensIssued'
    BY DEF TokensIssued, RequestAdded, EventsKept, PendingEvent, JobKept
  <1>4. RequestsInOrder'
    <2> SUFFICES ASSUME NEW i \in DOMAIN requests', NEW j \in DOMAIN requests', i < j,
                        IsFetch(requests'[i]), IsFetch(requests'[j])
                 PROVE  requests'[i].token < requests'[j].token
      BY DEF RequestsInOrder
    <2>1. i \in DOMAIN requests /\ requests'[i] = requests[i]
      BY DEF RequestAdded, QueuesIndexed
    <2>2. requests'[i].token \in 1..next_token
      BY <2>1 DEF TokensIssued
    <2>3. CASE j \in DOMAIN requests /\ requests'[j] = requests[j]
      BY <2>1, <2>3 DEF RequestsInOrder, TokensOrdered
    <2>4. CASE requests'[j] = r
      BY <2>2, <2>4
    <2> QED BY <2>3, <2>4 DEF RequestAdded
  <1>5. JobBeforeRequests'
    BY DEF JobBeforeRequests, TokensOrdered, TokensIssued, RequestAdded, JobKept
  <1>6. EventsBeforeRequests'
    BY DEF EventsBeforeRequests, TokensOrdered, TokensIssued, RequestAdded, EventsKept,
           PendingEvent
  <1>7. NoTokenNoFetch'
    BY DEF NoTokenNoFetch
  <1>8. OpensMatchList'
    BY DEF OpensMatchList, RequestAdded, EventsKept, PendingEvent, IsFetchEvent, JobKept
  <1>9. ListMatchesGroup'
    BY DEF ListMatchesGroup
  <1>10. ArticleRequestsMatch'
    <2>1. ASSUME NEW i \in DOMAIN requests', requests'[i].type = "LoadArticle"
          PROVE  /\ requests'[i].group = group'.name
                 /\ \A j \in 1..(i - 1) : requests'[j].type = "OpenGroup" =>
                       requests'[j].group = group'.name
                 /\ OpenJob' => job'.group = group'.name
                 /\ \A j \in 1..Len(events') : events'[j].type = "GroupOpened" =>
                       events'[j].group = group'.name
      <3>1. i \in DOMAIN requests /\ requests'[i] = requests[i]
        BY <2>1 DEF RequestAdded, IsFetch
      <3>2. /\ requests[i].group = group.name
            /\ \A j \in 1..(i - 1) : requests[j].type = "OpenGroup" =>
                  requests[j].group = group.name
            /\ OpenJob => job.group = group.name
            /\ OpenedStays(Len(events))
        BY <2>1, <3>1 DEF ArticlesMatchGroup, ArticleRequestsMatch
      <3>3. \A j \in 1..(i - 1) : requests'[j] = requests[j]
        BY <3>1 DEF RequestAdded, QueuesIndexed
      <3>4. \A j \in 1..Len(events') : events'[j].type = "GroupOpened" =>
               events'[j].group = group'.name
        <4>1. Len(events') \in 0..Len(events') /\ Len(events) \in Nat
          BY DEF QueuesIndexed
        <4> QED BY <3>2, <4>1, OpenedStaysKept
      <3> QED BY <3>1, <3>2, <3>3, <3>4 DEF JobKept
    <2> QED BY <2>1 DEF ArticleRequestsMatch, OpenedStays
  <1> QED BY <1>1, <1>2, <1>3, <1>4, <1>5, <1>6, <1>7, <1>8, <1>9, <1>10
          DEF TokensOrdered, ArticlesMatchGroup

\* An article is asked for: something is listed, so no other group is about to be opened.
LEMMA ArticleIssued ==
    ASSUME SessionInv, QueuesIndexed, QueuesIndexed',
           NEW r, r.type = "LoadArticle", r.group = group.name, RequestAdded(r),
           UNCHANGED <<events, overview_token, next_token, group, articles>>, JobKept,
           articles # {}
    PROVE  SessionInv'
  <1> USE DEF SessionInv
  <1>1. EventsKept(0)
    BY DEF EventsKept, QueuesIndexed
  <1>2. EventsBeforeJob' /\ EventsInOrder' /\ FetchesConsistent'
    BY <1>1, EventPartsKept DEF TokensOrdered
  <1>3. ArticleJobMatches' /\ ArticleEventsMatch'
    BY <1>1, ArticlesAnsweredKept DEF ArticlesMatchGroup
  <1>4. ASSUME NEW i \in DOMAIN requests', IsFetch(requests'[i])
        PROVE  i \in DOMAIN requests /\ requests'[i] = requests[i]
    BY <1>4 DEF RequestAdded, IsFetch
  <1>5. TokensIssued'
    BY <1>4 DEF TokensIssued, JobKept
  <1>6. RequestsInOrder' /\ JobBeforeRequests' /\ EventsBeforeRequests'
    BY <1>4 DEF RequestsInOrder, JobBeforeRequests, EventsBeforeRequests, TokensOrdered, JobKept
  <1>7. NoTokenNoFetch'
    BY <1>4 DEF NoTokenNoFetch, JobKept
  <1>8. OpensMatchList'
    BY <1>4 DEF OpensMatchList, IsFetch, JobKept
  <1>9. ListMatchesGroup'
    BY DEF ListMatchesGroup
  <1>10. ArticleRequestsMatch'
    <2>1. /\ \A j \in DOMAIN requests' : requests'[j].type = "OpenGroup" =>
                requests'[j].group = group.name
          /\ OpenJob => job.group = group.name
          /\ OpenedStays(Len(events))
      BY <1>4 DEF OpensMatchList, OpenedStays, QueuesIndexed, IsFetch
    <2>2. \A i \in DOMAIN requests' : requests'[i].type = "LoadArticle" =>
             requests'[i].group = group.name
      BY DEF RequestAdded, ArticlesMatchGroup, ArticleRequestsMatch
    <2>3. \A i \in DOMAIN requests' : \A j \in 1..(i - 1) : j \in DOMAIN requests'
      BY DEF QueuesIndexed
    <2> QED BY <2>1, <2>2, <2>3 DEF ArticleRequestsMatch, OpenedStays, JobKept
  <1> QED BY <1>2, <1>3, <1>5, <1>6, <1>7, <1>8, <1>9, <1>10
          DEF TokensOrdered, ArticlesMatchGroup

-----------------------------------------------------------------------------
(* The worker takes a request and answers it *)

\* The oldest request becomes the job (Take).
LEMMA RequestTaken ==
    ASSUME SessionInv, next_token \in Nat, QueuesIndexed, QueuesIndexed',
           1 \in DOMAIN requests, RequestsKept(1), job' = requests[1],
           FetchJob' => IsFetch(requests[1]),
           OpenJob' => requests[1].type = "OpenGroup",
           ArticleJob' => requests[1].type = "LoadArticle",
           UNCHANGED <<events, overview_token, next_token, group, articles>>
    PROVE  SessionInv'
  <1> USE DEF SessionInv
  <1>1. ASSUME NEW i \in DOMAIN requests', PendingRequest(requests'[i])
        PROVE  i + 1 \in DOMAIN requests /\ requests'[i] = requests[i + 1] /\ 1 < i + 1
    BY <1>1 DEF RequestsKept, QueuesIndexed
  <1>2. TokensIssued'
    BY <1>1 DEF TokensIssued, PendingRequest
  <1>3. RequestsInOrder'
    <2> SUFFICES ASSUME NEW i \in DOMAIN requests', NEW j \in DOMAIN requests', i < j,
                        IsFetch(requests'[i]), IsFetch(requests'[j])
                 PROVE  requests'[i].token < requests'[j].token
      BY DEF RequestsInOrder
    <2>1. i + 1 < j + 1
      BY DEF QueuesIndexed
    <2> QED BY <1>1, <2>1 DEF RequestsInOrder, TokensOrdered, PendingRequest
  <1>4. JobBeforeRequests'
    BY <1>1 DEF JobBeforeRequests, TokensOrdered, RequestsInOrder, PendingRequest
  <1>5. EventsBeforeRequests'
    BY <1>1 DEF EventsBeforeRequests, TokensOrdered, PendingRequest
  <1>6. EventsBeforeJob'
    BY DEF EventsBeforeRequests, EventsBeforeJob, TokensOrdered, TokensIssued
  <1>7. EventsInOrder'
    BY DEF EventsInOrder, TokensOrdered
  <1>8. FetchesConsistent'
    <2>1. \A i \in DOMAIN events : FetchJob' /\ IsFetchEvent(events[i]) =>
             events[i].token < job'.token
      BY DEF EventsBeforeRequests, TokensOrdered
    <2>2. \A i \in DOMAIN events : FetchJob' /\ IsFetchEvent(events[i]) =>
             events[i].token # job'.token
      BY <2>1 DEF TokensIssued
    <2> QED BY <2>2 DEF FetchesConsistent
  <1>9. NoTokenNoFetch'
    BY <1>1 DEF NoTokenNoFetch, PendingRequest
  <1>10. OpensMatchList'
    BY <1>1 DEF OpensMatchList, PendingRequest, IsFetch
  <1>11. ListMatchesGroup'
    BY DEF ListMatchesGroup
  <1>12. ArticleRequestsMatch'
    <2>1. ASSUME NEW i \in DOMAIN requests', requests'[i].type = "LoadArticle"
          PROVE  /\ requests'[i].group = group.name
                 /\ \A j \in 1..(i - 1) : requests'[j].type = "OpenGroup" =>
                       requests'[j].group = group.name
                 /\ OpenJob' => job'.group = group.name
                 /\ OpenedStays(Len(events))
      <3>1. PICK p \in DOMAIN requests : p = i + 1 /\ requests'[i] = requests[p]
        BY <1>1, <2>1 DEF PendingRequest
      <3>2. /\ requests[p].group = group.name
            /\ \A j \in 1..(p - 1) : requests[j].type = "OpenGroup" =>
                  requests[j].group = group.name
            /\ OpenedStays(Len(events))
        BY <2>1, <3>1 DEF ArticlesMatchGroup, ArticleRequestsMatch
      <3>3. 1 \in 1..(p - 1)
        BY <3>1 DEF QueuesIndexed
      <3>4. ASSUME NEW j \in 1..(i - 1), requests'[j].type = "OpenGroup"
            PROVE  requests'[j].group = group.name
        <4>1. j \in DOMAIN requests' /\ j + 1 \in 1..(p - 1)
          BY <3>1 DEF QueuesIndexed
        <4>2. requests'[j] = requests[j + 1]
          BY <1>1, <3>4, <4>1 DEF PendingRequest, IsFetch
        <4> QED BY <3>2, <3>4, <4>1, <4>2
      <3> QED BY <3>1, <3>2, <3>3, <3>4
    <2> QED BY <2>1 DEF ArticleRequestsMatch, OpenedStays
  <1>13. ArticleJobMatches' /\ ArticleEventsMatch'
    BY DEF ArticleJobMatches, ArticleEventsMatch, ArticlesMatchGroup, ArticleRequestsMatch,
           OpenedStays
  <1> QED BY <1>2, <1>3, <1>4, <1>5, <1>6, <1>7, <1>8, <1>9, <1>10, <1>11, <1>12, <1>13
          DEF TokensOrdered, ArticlesMatchGroup

EventAdded(ev) ==
    \A i \in DOMAIN events' :
        \/ i \in DOMAIN events /\ events'[i] = events[i]
        \/ i = Len(events) + 1 /\ events'[i] = ev

\* A fetch is reported on: the group is announced, a chunk is sent, or the fetch is over.
LEMMA FetchEventSent ==
    ASSUME SessionInv, next_token \in Nat, QueuesIndexed, QueuesIndexed',
           NEW ev, EventAdded(ev), IsFetchEvent(ev), FetchJob, ~ArticleJob,
           ev.token = job.token, ev.group = job.group, JobKept,
           ev.type = "GroupOpened" => OpenJob,
           ev.type = "OverviewChunk" => \A article \in ev.records : article[1] = ev.group,
           ev.type = "OverviewComplete" => ~FetchJob',
           UNCHANGED <<requests, overview_token, next_token, group, articles>>
    PROVE  SessionInv'
  <1> USE DEF SessionInv, JobKept
  <1>1. TokensIssued'
    BY DEF TokensIssued, EventAdded
  <1>2. RequestsInOrder' /\ JobBeforeRequests'
    BY DEF RequestsInOrder, JobBeforeRequests, TokensOrdered
  <1>3. EventsBeforeRequests'
    BY DEF EventsBeforeRequests, JobBeforeRequests, TokensOrdered, EventAdded
  <1>4. EventsBeforeJob'
    BY DEF EventsBeforeJob, TokensOrdered, TokensIssued, EventAdded
  <1>5. EventsInOrder'
    <2> SUFFICES ASSUME NEW i \in DOMAIN events', NEW j \in DOMAIN events', i < j,
                        IsFetchEvent(events'[i]), IsFetchEvent(events'[j])
                 PROVE  /\ events'[i].token <= events'[j].token
                        /\ events'[i].type = "OverviewComplete" =>
                              events'[i].token < events'[j].token
      BY DEF EventsInOrder
    <2>1. i \in DOMAIN events /\ events'[i] = events[i]
      BY DEF EventAdded, QueuesIndexed
    <2> QED BY <2>1 DEF EventAdded, EventsBeforeJob, EventsInOrder, TokensOrdered
  <1>6. FetchesConsistent'
    BY DEF FetchesConsistent, EventAdded
  <1>7. NoTokenNoFetch'
    BY DEF NoTokenNoFetch
  <1>8. OpensMatchList'
    BY DEF OpensMatchList, EventAdded
  <1>9. ListMatchesGroup'
    BY DEF ListMatchesGroup
  <1>10. ArticleRequestsMatch'
    <2>1. ASSUME OpenedStays(Len(events)), OpenJob => job.group = group.name
          PROVE  \A j \in 1..Len(events') : events'[j].type = "GroupOpened" =>
                    events'[j].group = group.name
      BY <2>1 DEF EventAdded, OpenedStays, QueuesIndexed
    <2> QED BY <2>1 DEF ArticleRequestsMatch, ArticlesMatchGroup, OpenedStays
  <1>11. ArticleJobMatches'
    BY DEF ArticleJobMatches
  <1>12. ArticleEventsMatch'
    <2>1. ASSUME NEW i \in DOMAIN events', events'[i].type = "Article"
          PROVE  /\ events'[i].group = group.name
                 /\ \A j \in 1..(i - 1) : events'[j].type = "GroupOpened" =>
                       events'[j].group = group.name
      <3>1. i \in DOMAIN events /\ events'[i] = events[i]
        BY <2>1 DEF EventAdded, IsFetchEvent
      <3>2. \A j \in 1..(i - 1) : events'[j] = events[j]
        BY <3>1 DEF EventAdded, QueuesIndexed
      <3> QED BY <2>1, <3>1, <3>2 DEF ArticleEventsMatch, ArticlesMatchGroup, OpenedStays
    <2> QED BY <2>1 DEF ArticleEventsMatch, OpenedStays
  <1> QED BY <1>1, <1>2, <1>3, <1>4, <1>5, <1>6, <1>7, <1>8, <1>9, <1>10, <1>11, <1>12
          DEF TokensOrdered, ArticlesMatchGroup

\* An article is sent: its job belongs to the selected group, and so does the event.
LEMMA ArticleSent ==
    ASSUME SessionInv, QueuesIndexed, QueuesIndexed',
           NEW ev, EventAdded(ev), ev.type = "Article", ev.group = job.group, ArticleJob,
           job' = job, ~FetchJob', ~OpenJob', ~ArticleJob',
           UNCHANGED <<requests, overview_token, next_token, group, articles>>
    PROVE  SessionInv'
  <1> USE DEF SessionInv
  <1>1. ASSUME NEW i \in DOMAIN events', IsFetchEvent(events'[i])
        PROVE  i \in DOMAIN events /\ events'[i] = events[i]
    BY <1>1 DEF EventAdded, IsFetchEvent
  <1>2. TokensIssued'
    BY <1>1 DEF TokensIssued
  <1>3. TokensOrdered'
    BY <1>1 DEF TokensOrdered, RequestsInOrder, JobBeforeRequests, EventsBeforeRequests,
                EventsBeforeJob, EventsInOrder
  <1>4. FetchesConsistent'
    BY <1>1 DEF FetchesConsistent, IsFetchEvent
  <1>5. NoTokenNoFetch'
    BY <1>1 DEF NoTokenNoFetch
  <1>6. OpensMatchList'
    BY <1>1 DEF OpensMatchList, IsFetchEvent
  <1>7. ListMatchesGroup'
    BY DEF ListMatchesGroup
  <1>8. ArticleRequestsMatch' /\ ArticleJobMatches'
    <2>1. ASSUME NEW j \in 1..Len(events'), events'[j].type = "GroupOpened"
          PROVE  j \in 1..Len(events) /\ events'[j] = events[j]
      BY <1>1, <2>1 DEF IsFetchEvent, QueuesIndexed
    <2> QED BY <2>1 DEF ArticleRequestsMatch, ArticleJobMatches, ArticlesMatchGroup, OpenedStays
  <1>9. ArticleEventsMatch'
    <2>1. ASSUME NEW i \in DOMAIN events', events'[i].type = "Article"
          PROVE  /\ events'[i].group = group.name
                 /\ \A j \in 1..(i - 1) : events'[j].type = "GroupOpened" =>
                       events'[j].group = group.name
      <3>1. i - 1 <= Len(events) /\ \A j \in 1..(i - 1) : events'[j] = events[j]
        BY DEF EventAdded, QueuesIndexed
      <3>2. CASE i \in DOMAIN events /\ events'[i] = events[i]
        BY <2>1, <3>1, <3>2 DEF ArticleEventsMatch, ArticlesMatchGroup, OpenedStays
      <3>3. CASE i = Len(events) + 1 /\ events'[i] = ev
        BY <3>1, <3>3 DEF ArticleJobMatches, ArticlesMatchGroup, OpenedStays, QueuesIndexed
      <3> QED BY <3>2, <3>3 DEF EventAdded
    <2> QED BY <2>1 DEF ArticleEventsMatch, OpenedStays
  <1> QED BY <1>2, <1>3, <1>4, <1>5, <1>6, <1>7, <1>8, <1>9 DEF ArticlesMatchGroup

-----------------------------------------------------------------------------
(* The interface handles the report of a fetch *)

\* GroupOpened: the group changes only when nothing is listed and no article is on its way.
LEMMA GroupBecomesCurrent ==
    ASSUME SessionInv, QueuesIndexed, QueuesIndexed', 1 \in DOMAIN events, EventsKept(1),
           events[1].type = "GroupOpened", group'.name = events[1].group, JobKept,
           UNCHANGED <<requests, overview_token, next_token, articles>>
    PROVE  SessionInv'
  <1>1. RequestsKept(0)
    BY DEF RequestsKept, QueuesIndexed
  <1>2. CASE group'.name = group.name
    BY <1>1, <1>2, PendingShrinks
  <1>3. CASE group'.name # group.name
    <2> USE DEF SessionInv
    <2>1. articles = {}
      BY <1>3 DEF OpensMatchList
    <2>2. ~OpenedStays(Len(events))
      BY <1>3 DEF OpenedStays, QueuesIndexed
    <2>3. /\ \A i \in DOMAIN requests : requests[i].type # "LoadArticle"
          /\ ~ArticleJob
      BY <2>2 DEF ArticlesMatchGroup, ArticleRequestsMatch, ArticleJobMatches
    <2>4. ASSUME NEW i \in DOMAIN events', events'[i].type = "Article"
          PROVE  FALSE
      <3>1. i + 1 \in DOMAIN events /\ events[i + 1].type = "Article" /\ 1 \in 1..((i + 1) - 1)
        BY <2>4 DEF EventsKept, PendingEvent, QueuesIndexed
      <3> QED BY <1>3, <3>1 DEF ArticlesMatchGroup, ArticleEventsMatch, OpenedStays
    <2>5. ArticlesMatchGroup'
      BY <2>3, <2>4 DEF ArticlesMatchGroup, ArticleRequestsMatch, ArticleJobMatches,
                        ArticleEventsMatch, JobKept
    <2>6. RequestsInOrder' /\ JobBeforeRequests'
      BY <1>1, RequestPartsKept DEF TokensOrdered
    <2>7. EventsBeforeJob' /\ EventsInOrder' /\ FetchesConsistent'
      BY EventPartsKept DEF TokensOrdered
    <2>8. EventsBeforeRequests'
      BY DEF EventsBeforeRequests, TokensOrdered, EventsKept, PendingEvent
    <2>9. TokensIssued'
      BY DEF TokensIssued, EventsKept, PendingEvent, JobKept
    <2>10. NoTokenNoFetch'
      BY DEF NoTokenNoFetch, EventsKept, PendingEvent, JobKept
    <2>11. OpensMatchList' /\ ListMatchesGroup'
      BY <2>1 DEF OpensMatchList, ListMatchesGroup
    <2> QED BY <2>5, <2>6, <2>7, <2>8, <2>9, <2>10, <2>11 DEF TokensOrdered
  <1> QED BY <1>2, <1>3

\* The report of the newest fetch: no fetch is queued behind it, and whatever still opens a
\* group opens the group it names.
LEMMA NewestFetch ==
    ASSUME SessionInv, next_token \in Nat, QueuesIndexed, 1 \in DOMAIN events,
           IsFetchEvent(events[1]), AcceptsOverview(events[1])
    PROVE  /\ \A i \in DOMAIN requests : ~IsFetch(requests[i])
           /\ FetchJob => job.token = next_token /\ job.group = group.name
           /\ \A i \in DOMAIN events : IsFetchEvent(events[i]) =>
                 events[i].token = next_token /\ events[i].group = group.name
  <1>1. events[1].token = next_token /\ events[1].group = group.name
    BY DEF AcceptsOverview, SessionInv, TokensIssued
  <1>2. \A i \in DOMAIN requests : ~IsFetch(requests[i])
    BY <1>1 DEF SessionInv, TokensIssued, TokensOrdered, EventsBeforeRequests
  <1>3. FetchJob => job.token = next_token /\ job.group = group.name
    BY <1>1 DEF SessionInv, TokensIssued, TokensOrdered, EventsBeforeJob, FetchesConsistent
  <1>4. ASSUME NEW i \in DOMAIN events, IsFetchEvent(events[i])
        PROVE  events[i].token = next_token /\ events[i].group = group.name
    <2>1. i = 1 \/ 1 < i
      BY DEF QueuesIndexed
    <2>2. events[i].token = next_token
      BY <1>1, <1>4, <2>1 DEF SessionInv, TokensIssued, TokensOrdered, EventsInOrder
    <2> QED BY <1>1, <1>4, <2>2 DEF SessionInv, FetchesConsistent
  <1> QED BY <1>2, <1>3, <1>4

\* OverviewChunk: its records are added to the list or dropped.
LEMMA ChunkHandled ==
    ASSUME SessionInv, next_token \in Nat, QueuesIndexed, QueuesIndexed',
           1 \in DOMAIN events, EventsKept(1), JobKept, events[1].type = "OverviewChunk",
           OpenJob => FetchJob,
           articles' = IF AcceptsOverview(events[1]) THEN articles \cup events[1].records
                                                    ELSE articles,
           UNCHANGED <<requests, overview_token, next_token, group>>
    PROVE  SessionInv'
  <1>1. RequestsKept(0)
    BY DEF RequestsKept, QueuesIndexed
  <1>2. CASE ~AcceptsOverview(events[1])
    BY <1>1, <1>2, PendingShrinks
  <1>3. CASE AcceptsOverview(events[1])
    <2>1. IsFetchEvent(events[1])
      BY DEF IsFetchEvent
    <2>2. /\ \A i \in DOMAIN requests : ~IsFetch(requests[i])
          /\ FetchJob => job.group = group.name
          /\ \A i \in DOMAIN events : IsFetchEvent(events[i]) => events[i].group = group.name
      BY <1>3, <2>1, NewestFetch
    <2>3. OpensMatchList'
      BY <2>2 DEF OpensMatchList, EventsKept, PendingEvent, IsFetch, IsFetchEvent, JobKept
    <2>4. ListMatchesGroup'
      BY <1>3, <2>1, <2>2 DEF ListMatchesGroup, SessionInv, FetchesConsistent
    <2> USE DEF SessionInv
    <2>5. RequestsInOrder' /\ JobBeforeRequests'
      BY <1>1, RequestPartsKept DEF TokensOrdered
    <2>6. EventsBeforeJob' /\ EventsInOrder' /\ FetchesConsistent'
      BY EventPartsKept DEF TokensOrdered
    <2>7. EventsBeforeRequests'
      BY DEF EventsBeforeRequests, TokensOrdered, EventsKept, PendingEvent
    <2>8. TokensIssued'
      BY DEF TokensIssued, EventsKept, PendingEvent, JobKept
    <2>9. NoTokenNoFetch'
      BY DEF NoTokenNoFetch, EventsKept, PendingEvent, JobKept
    <2>10. ArticleRequestsMatch'
      BY <1>1, ArticlesAskedKept DEF ArticlesMatchGroup
    <2>11. ArticleJobMatches' /\ ArticleEventsMatch'
      BY ArticlesAnsweredKept DEF ArticlesMatchGroup
    <2> QED BY <2>3, <2>4, <2>5, <2>6, <2>7, <2>8, <2>9, <2>10, <2>11
            DEF TokensOrdered, ArticlesMatchGroup
  <1> QED BY <1>2, <1>3

\* OverviewComplete: the last word of the newest fetch clears the token, and then nothing of
\* any fetch is pending.
LEMMA CompleteHandled ==
    ASSUME SessionInv, next_token \in Nat, QueuesIndexed, QueuesIndexed',
           1 \in DOMAIN events, EventsKept(1), JobKept, events[1].type = "OverviewComplete",
           overview_token' = IF AcceptsOverview(events[1]) THEN 0 ELSE overview_token,
           UNCHANGED <<requests, articles, next_token, group>>
    PROVE  SessionInv'
  <1>1. RequestsKept(0)
    BY DEF RequestsKept, QueuesIndexed
  <1>2. CASE ~AcceptsOverview(events[1])
    BY <1>1, <1>2, PendingShrinks
  <1>3. CASE AcceptsOverview(events[1])
    <2>1. IsFetchEvent(events[1])
      BY DEF IsFetchEvent
    <2>2. /\ \A i \in DOMAIN requests : ~IsFetch(requests[i])
          /\ FetchJob => job.token = next_token
          /\ \A i \in DOMAIN events : IsFetchEvent(events[i]) => events[i].token = next_token
      BY <1>3, <2>1, NewestFetch
    <2> USE DEF SessionInv
    <2>3. ~FetchJob
      BY <2>1, <2>2 DEF TokensOrdered, EventsBeforeJob
    <2>4. ASSUME NEW i \in DOMAIN events', IsFetchEvent(events'[i]) PROVE FALSE
      <3>1. i + 1 \in DOMAIN events /\ IsFetchEvent(events[i + 1]) /\ 1 < i + 1
        BY <2>4 DEF EventsKept, PendingEvent, QueuesIndexed
      <3>2. events[1].token < events[i + 1].token
        BY <2>1, <3>1 DEF TokensOrdered, EventsInOrder
      <3> QED BY <2>1, <2>2, <3>1, <3>2
    <2>5. NoTokenNoFetch'
      BY <2>2, <2>3, <2>4 DEF NoTokenNoFetch, JobKept
    <2>6. RequestsInOrder' /\ JobBeforeRequests'
      BY <1>1, RequestPartsKept DEF TokensOrdered
    <2>7. EventsBeforeJob' /\ EventsInOrder' /\ FetchesConsistent'
      BY EventPartsKept DEF TokensOrdered
    <2>8. EventsBeforeRequests'
      BY DEF EventsBeforeRequests, TokensOrdered, EventsKept, PendingEvent
    <2>9. TokensIssued'
      BY <1>3 DEF TokensIssued, EventsKept, PendingEvent, JobKept
    <2>10. OpensMatchList' /\ ListMatchesGroup'
      BY DEF OpensMatchList, ListMatchesGroup, EventsKept, PendingEvent, IsFetchEvent, JobKept
    <2>11. ArticleRequestsMatch'
      BY <1>1, ArticlesAskedKept DEF ArticlesMatchGroup
    <2>12. ArticleJobMatches' /\ ArticleEventsMatch'
      BY ArticlesAnsweredKept DEF ArticlesMatchGroup
    <2> QED BY <2>5, <2>6, <2>7, <2>8, <2>9, <2>10, <2>11, <2>12
            DEF TokensOrdered, ArticlesMatchGroup
  <1> QED BY <1>2, <1>3

-----------------------------------------------------------------------------
(* Channels *)

\* Receiving leaves every other message one place nearer the head.
LEMMA RequestsTail ==
    ASSUME ChannelTypeOK, requests # <<>>, requests' = Tail(requests)
    PROVE  1 \in DOMAIN requests /\ requests[1] = Head(requests) /\ RequestsKept(1)
  BY DEF ChannelTypeOK, RequestsKept

\* The same of the event channel.
LEMMA EventsTail ==
    ASSUME ChannelTypeOK, events # <<>>, events' = Tail(events)
    PROVE  1 \in DOMAIN events /\ events[1] = Head(events) /\ EventsKept(1)
  BY DEF ChannelTypeOK, EventsKept

\* Sending adds one message at the end.
LEMMA EventAppended ==
    ASSUME ChannelTypeOK, NEW ev, events' = Append(events, ev)
    PROVE  EventAdded(ev)
  BY DEF ChannelTypeOK, EventAdded

\* The same of the request channel.
LEMMA RequestAppended ==
    ASSUME ChannelTypeOK, NEW r, requests' = Append(requests, r)
    PROVE  RequestAdded(r)
  BY DEF ChannelTypeOK, RequestAdded

\* A message that opens nothing leaves what is pending as it is.
LEMMA PlainAppended ==
    ASSUME ChannelTypeOK,
           NEW t \in {"Connected", "Posted", "Cancelled", "Failed", "Disconnected", "Stopped"},
           events' = Append(events, [type |-> t])
    PROVE  EventsKept(0)
  <1> DEFINE ev == [type |-> t]
  <1>1. ~PendingEvent(ev)
    BY DEF PendingEvent, IsFetchEvent
  <1>2. events' = Append(events, ev)
    OBVIOUS
  <1> HIDE DEF ev
  <1>3. EventAdded(ev)
    BY <1>2, EventAppended
  <1> QED BY <1>1, <1>3 DEF EventAdded, EventsKept, ChannelTypeOK

-----------------------------------------------------------------------------
(* The steps of the worker *)

\* Every step of the worker thread keeps the order (worker.rs, handle and dispatch).
LEMMA WorkerOrderStep ==
    ASSUME TypeInv, QueuesIndexed', SessionInv, WorkerStep, UNCHANGED appVars
    PROVE  SessionInv'
  <1> USE DEF JobKept, FetchJob, OpenJob, ArticleJob, Busy, IsFetch, jobVars
  <1>0. /\ TypeInv /\ ChannelTypeOK /\ QueuesIndexed /\ next_token \in Nat /\ job \in Request
        /\ UNCHANGED <<group, overview_token, next_token, articles>>
    BY Indexed DEF TypeInv, TypeOK, ChannelTypeOK, AppTypeOK, WorkerTypeOK, FetchToken, appVars,
                   sessionVars
  <1>1. ASSUME UNCHANGED <<requests, events>>, JobKept PROVE SessionInv'
    <2>1. RequestsKept(0) /\ EventsKept(0)
      BY <1>0, <1>1 DEF RequestsKept, EventsKept, QueuesIndexed
    <2> HIDE DEF JobKept
    <2> QED BY <1>0, <1>1, <2>1, PendingShrinks
  <1>2. ASSUME NEW t \in {"Connected", "Posted", "Cancelled", "Failed", "Disconnected", "Stopped"},
               events' = Append(events, [type |-> t]), UNCHANGED requests, JobKept
        PROVE  SessionInv'
    <2>1. RequestsKept(0)
      BY <1>0, <1>2 DEF RequestsKept, QueuesIndexed
    <2>2. EventsKept(0)
      BY <1>0, <1>2, PlainAppended
    <2> HIDE DEF JobKept
    <2> QED BY <1>0, <1>2, <2>1, <2>2, PendingShrinks
  <1>3. ASSUME NEW rs, NEW scope, UNCHANGED requests, JobKept,
               events' = Append(events, [type |-> "Groups", rows |-> rs, scope |-> scope])
        PROVE  SessionInv'
    <2> DEFINE ev == [type |-> "Groups", rows |-> rs, scope |-> scope]
    <2>1. RequestsKept(0)
      BY <1>0, <1>3 DEF RequestsKept, QueuesIndexed
    <2>2. EventsKept(0)
      <3>1. ~PendingEvent(ev) /\ events' = Append(events, ev)
        BY <1>3 DEF PendingEvent, IsFetchEvent
      <3> HIDE DEF ev
      <3>2. EventAdded(ev)
        BY <1>0, <3>1, EventAppended
      <3> QED BY <1>0, <3>1, <3>2 DEF EventAdded, EventsKept, ChannelTypeOK
    <2> HIDE DEF JobKept
    <2> QED BY <1>0, <1>3, <2>1, <2>2, PendingShrinks
  <1>4. CASE Connect
    <2>1. JobKept
      BY <1>4 DEF Connect
    <2>2. events' = Append(events, [type |-> "Connected"]) /\ UNCHANGED requests
      BY <1>4 DEF Connect, Send
    <2> QED BY <1>2, <2>1, <2>2
  <1>5. CASE ConnectFails
    <2>1. JobKept
      BY <1>5 DEF ConnectFails
    <2>2. events' = Append(events, [type |-> "Failed"]) /\ UNCHANGED requests
      BY <1>5 DEF ConnectFails, Send
    <2> QED BY <1>2, <2>1, <2>2
  <1>6. CASE Refuse
    <2>1. JobKept
      BY <1>6 DEF Refuse
    <2>2. events' = Append(events, [type |-> "Failed"]) /\ UNCHANGED requests
      BY <1>6 DEF Refuse, Send
    <2> QED BY <1>2, <2>1, <2>2
  <1>6a. CASE NotThere
    <2>1. JobKept
      BY <1>6a DEF NotThere
    <2>2. events' = Append(events, [type |-> "Failed"]) /\ UNCHANGED requests
      BY <1>6a DEF NotThere, Send
    <2> QED BY <1>2, <2>1, <2>2
  <1>7. CASE Break
    <2>1. JobKept
      BY <1>7 DEF Break
    <2>2. events' = Append(events, [type |-> "Failed"]) /\ UNCHANGED requests
      BY <1>7 DEF Break, Send
    <2> QED BY <1>2, <2>1, <2>2
  <1>8. CASE Drop
    <2>1. JobKept
      BY <1>8 DEF Drop
    <2>2. events' = Append(events, [type |-> "Disconnected"]) /\ UNCHANGED requests
      BY <1>8 DEF Drop, Send
    <2> QED BY <1>2, <2>1, <2>2
  <1>9. CASE Abort
    <2>1. JobKept
      BY <1>9 DEF Abort
    <2>2. events' = Append(events, [type |-> "Cancelled"]) /\ UNCHANGED requests
      BY <1>9 DEF Abort, Send
    <2> QED BY <1>2, <2>1, <2>2
  <1>10. CASE Post
    <2>1. JobKept
      BY <1>10 DEF Post
    <2>2. events' = Append(events, [type |-> "Posted"]) /\ UNCHANGED requests
      BY <1>10 DEF Post, Send
    <2> QED BY <1>2, <2>1, <2>2
  <1>11. CASE PostLost
    <2>1. JobKept
      BY <1>11 DEF PostLost
    <2>2. events' = Append(events, [type |-> "Failed"]) /\ UNCHANGED requests
      BY <1>11 DEF PostLost, Send
    <2> QED BY <1>2, <2>1, <2>2
  <1>12. CASE Reset
    <2>1. JobKept /\ UNCHANGED <<requests, events>>
      BY <1>12 DEF Reset, channelVars
    <2> QED BY <1>1, <2>1
  <1>13. CASE BeginBlock
    <2>1. JobKept /\ UNCHANGED <<requests, events>>
      BY <1>13 DEF BeginBlock, channelVars
    <2> QED BY <1>1, <2>1
  <1>14. CASE List
    <2>1. JobKept /\ UNCHANGED <<requests, events>>
      BY <1>14 DEF List, Reading, channelVars
    <2> QED BY <1>1, <2>1
  <1>15. CASE PatternRefused
    <2>1. JobKept /\ UNCHANGED <<requests, events>>
      BY <1>15 DEF PatternRefused, channelVars
    <2> QED BY <1>1, <2>1
  <1>16. CASE ListAll
    <2>1. JobKept /\ UNCHANGED <<requests, events>>
      BY <1>16 DEF ListAll, Reading, channelVars
    <2> QED BY <1>1, <2>1
  <1>17. CASE Reselect
    <2>1. JobKept /\ UNCHANGED <<requests, events>>
      BY <1>17 DEF Reselect, NeedsGroup, channelVars
    <2> QED BY <1>1, <2>1
  <1>18. CASE Descriptions
    <2>1. JobKept /\ UNCHANGED requests
      BY <1>18 DEF Descriptions, AfterDescriptions, Reading
    <2>2. \/ UNCHANGED events
          \/ events' = Append(events, [type |-> "Groups", rows |-> RowsOf(job.scope),
                                        scope |-> job.scope])
      BY <1>18 DEF Descriptions, AfterDescriptions, Send
    <2>3. CASE UNCHANGED events
      BY <1>1, <2>1, <2>3
    <2>4. CASE events' = Append(events, [type |-> "Groups", rows |-> RowsOf(job.scope),
                                         scope |-> job.scope])
      BY <1>3, <2>1, <2>4
    <2> QED BY <2>2, <2>3, <2>4
  <1>19. CASE DescriptionsRefused
    <2>1. JobKept /\ UNCHANGED requests
      BY <1>19 DEF DescriptionsRefused, AfterDescriptions, Ready
    <2>2. \/ UNCHANGED events
          \/ events' = Append(events, [type |-> "Groups", rows |-> RowsOf(job.scope),
                                        scope |-> job.scope])
      BY <1>19 DEF DescriptionsRefused, AfterDescriptions, Send
    <2>3. CASE UNCHANGED events
      BY <1>1, <2>1, <2>3
    <2>4. CASE events' = Append(events, [type |-> "Groups", rows |-> RowsOf(job.scope),
                                         scope |-> job.scope])
      BY <1>3, <2>1, <2>4
    <2> QED BY <2>2, <2>3, <2>4
  <1>20. CASE Take
    <2>1. requests # <<>> /\ requests' = Tail(requests) /\ job' = Head(requests)
      BY <1>20 DEF Take
    <2>2. 1 \in DOMAIN requests /\ RequestsKept(1) /\ job' = requests[1]
      BY <1>0, <2>1, RequestsTail
    <2>3. /\ FetchJob' => IsFetch(requests[1])
          /\ OpenJob' => requests[1].type = "OpenGroup"
          /\ ArticleJob' => requests[1].type = "LoadArticle"
      BY <2>2
    <2>4. UNCHANGED events
      BY <1>20 DEF Take
    <2> QED BY <1>0, <2>2, <2>3, <2>4, RequestTaken
  <1>21. CASE Stop
    <2>1. JobKept /\ requests # <<>> /\ requests' = Tail(requests)
      BY <1>21 DEF Stop
    <2>2. events' = Append(events, [type |-> "Stopped"])
      BY <1>21 DEF Stop, Send
    <2>3. EventsKept(0)
      BY <1>0, <2>2, PlainAppended
    <2>4. RequestsKept(1)
      BY <1>0, <2>1, RequestsTail
    <2> QED BY <1>0, <2>1, <2>3, <2>4, PendingShrinks
  <1>22. CASE OpenGroupSelect
    <2> DEFINE ev == [type |-> "GroupOpened", group |-> job.group, token |-> job.token,
                      low |-> marks[job.group].low, high |-> marks[job.group].high]
    <2>1. FetchJob /\ ~ArticleJob /\ JobKept
      BY <1>22, <1>0, RequestFields DEF OpenGroupSelect, Ready, TypeInv, WorkerConsistent
    <2>2. events' = Append(events, ev) /\ UNCHANGED requests
      BY <1>22 DEF OpenGroupSelect, Send
    <2>3. EventAdded(ev)
      <3> HIDE DEF ev
      <3> QED BY <1>0, <2>2, EventAppended
    <2>4. IsFetchEvent(ev) /\ ev.token = job.token /\ ev.group = job.group /\ OpenJob
      BY <1>22 DEF OpenGroupSelect, Ready, IsFetchEvent
    <2> QED BY <1>0, <2>1, <2>2, <2>3, <2>4, FetchEventSent
  <1>23. CASE Over
    <2> DEFINE records == {<<selected, n>> : n \in {k \in NewestChunk(todo.low, todo.high)..todo.high :
                              InMarks(selected, k)}}
               ev == [type |-> "OverviewChunk", group |-> job.group, token |-> job.token,
                      records |-> records]
    <2>0. events' = Append(events, ev) /\ \A article \in records : article[1] = selected
      BY <1>23 DEF Over, Send
    <2>1. FetchJob /\ ~ArticleJob /\ JobKept /\ selected = job.group
      BY <1>23, <1>0 DEF Over, Reading, TypeInv, WorkerConsistent
    <2>2. UNCHANGED requests
      BY <1>23 DEF Over
    <2>3. EventAdded(ev)
      <3>1. events' = Append(events, ev)
        BY <2>0
      <3> HIDE DEF ev
      <3> QED BY <1>0, <3>1, EventAppended
    <2>4. /\ IsFetchEvent(ev) /\ ev.type = "OverviewChunk" /\ ev.token = job.token
          /\ ev.group = job.group /\ \A article \in ev.records : article[1] = ev.group
      BY <2>0, <2>1 DEF IsFetchEvent
    <2> HIDE DEF ev
    <2> QED BY <1>0, <2>1, <2>2, <2>3, <2>4, FetchEventSent
  <1>24. CASE Complete
    <2> DEFINE ev == [type |-> "OverviewComplete", group |-> job.group, token |-> job.token]
    <2>1. FetchJob /\ ~ArticleJob /\ JobKept
      BY <1>24, <1>0, RequestFields DEF Complete, TypeInv, WorkerConsistent
    <2>2. events' = Append(events, ev) /\ UNCHANGED requests
      BY <1>24 DEF Complete, Send
    <2>3. EventAdded(ev)
      <3> HIDE DEF ev
      <3> QED BY <1>0, <2>2, EventAppended
    <2>4. IsFetchEvent(ev) /\ ev.token = job.token /\ ev.group = job.group /\ ~FetchJob'
      BY <1>24 DEF Complete, IsFetchEvent
    <2> QED BY <1>0, <2>1, <2>2, <2>3, <2>4, FetchEventSent
  <1>25. CASE Article
    <2> DEFINE ev == [type |-> "Article", group |-> selected, number |-> job.number]
    <2>1. ArticleJob /\ selected = job.group /\ job' = job /\ ~FetchJob' /\ ~OpenJob' /\ ~ArticleJob'
      BY <1>25, <1>0 DEF Article, Reading, TypeInv, WorkerConsistent
    <2>2. events' = Append(events, ev) /\ UNCHANGED requests
      BY <1>25 DEF Article, Send
    <2>3. EventAdded(ev)
      <3> HIDE DEF ev
      <3> QED BY <1>0, <2>2, EventAppended
    <2> QED BY <1>0, <2>1, <2>2, <2>3, ArticleSent
  <1> QED BY <1>4, <1>5, <1>6, <1>6a, <1>7, <1>8, <1>9, <1>10, <1>11, <1>12, <1>13, <1>14,
             <1>15, <1>16, <1>17, <1>18, <1>19, <1>20, <1>21, <1>22, <1>23, <1>24, <1>25
          DEF WorkerStep

-----------------------------------------------------------------------------
(* The steps of the interface *)

\* Every key handler keeps the order (app.rs, on_key and what it calls).
LEMMA KeyOrderStep ==
    ASSUME TypeInv, QueuesIndexed', SessionInv, OnKey, UNCHANGED workerVars
    PROVE  SessionInv'
  <1> USE DEF appVars, sessionVars, channelVars
  <1>0. /\ TypeInv /\ ChannelTypeOK /\ QueuesIndexed /\ next_token \in Nat /\ JobKept
        /\ OpenJob => FetchJob
    BY Indexed DEF TypeInv, TypeOK, ChannelTypeOK, AppTypeOK, FetchToken, JobKept, FetchJob,
                   OpenJob, ArticleJob, Busy, IsFetch, workerVars, jobVars
  <1>1. ASSUME UNCHANGED <<requests, events, group, overview_token, next_token>>,
               articles' \in {articles, {}}
        PROVE  SessionInv'
    <2>1. RequestsKept(0) /\ EventsKept(0)
      BY <1>0, <1>1 DEF RequestsKept, EventsKept, QueuesIndexed
    <2> QED BY <1>0, <1>1, <2>1, PendingShrinks
  <1>2. ASSUME NEW r, ~PendingRequest(r), requests' = Append(requests, r),
               UNCHANGED <<events, group, articles, overview_token, next_token>>
        PROVE  SessionInv'
    <2>1. RequestAdded(r)
      BY <1>0, <1>2, RequestAppended
    <2>2. RequestsKept(0) /\ EventsKept(0)
      BY <1>0, <1>2, <2>1 DEF RequestAdded, RequestsKept, EventsKept, QueuesIndexed
    <2> QED BY <1>0, <1>2, <2>2, PendingShrinks
  <1>3. CASE \E row \in rows : OpenGroup(row)
    <2>0. PICK row \in rows : OpenGroup(row)
      BY <1>3
    <2> DEFINE r == [type |-> "OpenGroup", group |-> row.name, count |-> InitialArticles,
                     token |-> next_token + 1]
    <2>1. /\ requests' = Append(requests, r)
          /\ articles' = {} /\ next_token' = next_token + 1 /\ overview_token' = next_token + 1
          /\ UNCHANGED <<events, group>>
      BY <2>0 DEF OpenGroup, Issue, BeginOverviewFetch
    <2>2. IsFetch(r) /\ r.token = next_token + 1
      BY DEF IsFetch
    <2> HIDE DEF r
    <2>3. RequestAdded(r) /\ EventsKept(0)
      BY <1>0, <2>1, RequestAppended DEF EventsKept, QueuesIndexed
    <2> QED BY <1>0, <2>1, <2>2, <2>3, FetchIssued
  <1>4. CASE \E row \in rows : OpenEmpty(row)
    BY <1>1, <1>4 DEF OpenEmpty
  <1>5. CASE \E article \in articles : LoadArticle(article)
    <2>0. PICK article \in articles : LoadArticle(article)
      BY <1>5
    <2> DEFINE r == [type |-> "LoadArticle", group |-> group.name, number |-> article[2]]
    <2>1. requests' = Append(requests, r) /\ UNCHANGED <<events, group, articles, overview_token, next_token>>
      BY <2>0 DEF LoadArticle, Issue
    <2>2. r.type = "LoadArticle" /\ r.group = group.name /\ articles # {}
      OBVIOUS
    <2> HIDE DEF r
    <2>3. RequestAdded(r)
      BY <1>0, <2>1, RequestAppended
    <2> QED BY <1>0, <2>1, <2>2, <2>3, ArticleIssued
  <1>6. CASE \E article \in articles : ToggleRead(article)
    BY <1>1, <1>6 DEF ToggleRead
  <1>7. CASE Reload
    <2> DEFINE r == [type |-> "LoadOverview", group |-> group.name, token |-> next_token + 1,
                     low |-> NewestFrom(group.low, group.high, InitialArticles),
                     high |-> group.high]
    <2>1. /\ requests' = Append(requests, r)
          /\ next_token' = next_token + 1 /\ overview_token' = next_token + 1
          /\ UNCHANGED <<events, group, articles>>
      BY <1>7 DEF Reload, Issue, BeginOverviewFetch
    <2>2. IsFetch(r) /\ r.token = next_token + 1 /\ r.type # "OpenGroup"
      BY DEF IsFetch
    <2> HIDE DEF r
    <2>3. RequestAdded(r) /\ EventsKept(0)
      BY <1>0, <2>1, RequestAppended DEF EventsKept, QueuesIndexed
    <2> QED BY <1>0, <2>1, <2>2, <2>3, FetchIssued
  <1>8. CASE ReloadGroups
    <2>1. ~PendingRequest([type |-> "LoadGroups", scope |-> group_scope])
      BY DEF PendingRequest, IsFetch
    <2> QED BY <1>2, <1>8, <2>1 DEF ReloadGroups, Issue
  <1>9. CASE \E scope \in GroupScope : SearchGroups(scope)
    <2>0. PICK scope \in GroupScope : SearchGroups(scope)
      BY <1>9
    <2>1. ~PendingRequest([type |-> "LoadGroups", scope |-> scope])
      BY DEF PendingRequest, IsFetch
    <2> QED BY <1>2, <2>0, <2>1 DEF SearchGroups, Issue
  <1>10. CASE RequestCancellation
    BY <1>1, <1>10 DEF RequestCancellation
  <1>11. CASE CatchUp
    BY <1>1, <1>11 DEF CatchUp
  <1>12. CASE \E draft \in Draft : ComposeAbandoned(draft) \/ ComposeKept(draft)
    BY <1>1, <1>12 DEF ComposeAbandoned, ComposeKept
  <1>13. CASE \E draft \in Draft, groups \in SUBSET Group : ComposeSent(draft, groups)
    <2>0. PICK draft \in Draft, groups \in SUBSET Group : ComposeSent(draft, groups)
      BY <1>13
    <2>1. ~PendingRequest([type |-> "Post", draft |-> draft])
      BY DEF PendingRequest, IsFetch
    <2> QED BY <1>2, <2>0, <2>1 DEF ComposeSent, Issue
  <1>14. CASE Quit
    <2>1. ~PendingRequest([type |-> "Shutdown"])
      BY DEF PendingRequest, IsFetch
    <2> QED BY <1>2, <1>14, <2>1 DEF Quit
  <1> QED BY <1>3, <1>4, <1>5, <1>6, <1>7, <1>8, <1>9, <1>10, <1>11, <1>12, <1>13, <1>14 DEF OnKey

\* Every event handler keeps the order (app.rs, on_event).
LEMMA EventOrderStep ==
    ASSUME TypeInv, QueuesIndexed', SessionInv, OnEvent(phase = "stopped"), UNCHANGED workerVars
    PROVE  SessionInv'
  <1> USE DEF appVars, sessionVars, channelVars
  <1>0. /\ TypeInv /\ ChannelTypeOK /\ QueuesIndexed /\ next_token \in Nat /\ JobKept
        /\ OpenJob => FetchJob
    BY Indexed DEF TypeInv, TypeOK, ChannelTypeOK, AppTypeOK, FetchToken, JobKept, FetchJob,
                   OpenJob, ArticleJob, Busy, IsFetch, workerVars, jobVars
  <1>1. ASSUME events # <<>>, events' = Tail(events)
        PROVE  1 \in DOMAIN events /\ events[1] = Head(events) /\ EventsKept(1)
    BY <1>0, <1>1, EventsTail
  <1>2. ASSUME UNCHANGED requests PROVE RequestsKept(0)
    BY <1>0, <1>2 DEF RequestsKept, QueuesIndexed
  <1>3. ASSUME events # <<>>, events' = Tail(events),
               UNCHANGED <<requests, group, articles, overview_token, next_token>>
        PROVE  SessionInv'
    BY <1>0, <1>1, <1>2, <1>3, PendingShrinks
  <1>4. CASE OnConnected \/ OnGroups \/ OnArticle \/ OnDisconnected \/ OnStopped
    BY <1>3, <1>4 DEF OnConnected, OnGroups, OnArticle, OnDisconnected, OnStopped, Receive
  <1>5. CASE OnUnfinished("Cancelled") \/ OnUnfinished("Failed")
    BY <1>3, <1>5 DEF OnUnfinished, Receive
  <1>6. CASE OnGroupOpened
    <2>1. /\ 1 \in DOMAIN events /\ events[1] = Head(events) /\ EventsKept(1)
          /\ events[1].type = "GroupOpened"
      BY <1>1, <1>6 DEF OnGroupOpened, Receive
    <2>2. /\ group'.name = events[1].group
          /\ UNCHANGED <<requests, overview_token, next_token, articles>>
      BY <1>6, <2>1 DEF OnGroupOpened
    <2> QED BY <1>0, <2>1, <2>2, GroupBecomesCurrent
  <1>7. CASE OnOverviewChunk
    <2>1. /\ 1 \in DOMAIN events /\ events[1] = Head(events) /\ EventsKept(1)
          /\ events[1].type = "OverviewChunk"
      BY <1>1, <1>7 DEF OnOverviewChunk, Receive
    <2>2. /\ articles' = IF AcceptsOverview(events[1]) THEN articles \cup events[1].records
                                                       ELSE articles
          /\ UNCHANGED <<requests, overview_token, next_token, group>>
      BY <1>7, <2>1 DEF OnOverviewChunk
    <2> QED BY <1>0, <2>1, <2>2, ChunkHandled
  <1>8. CASE OnOverviewComplete
    <2>1. /\ 1 \in DOMAIN events /\ events[1] = Head(events) /\ EventsKept(1)
          /\ events[1].type = "OverviewComplete"
      BY <1>1, <1>8 DEF OnOverviewComplete, Receive
    <2>2. /\ overview_token' = IF AcceptsOverview(events[1]) THEN 0 ELSE overview_token
          /\ UNCHANGED <<requests, articles, next_token, group>>
      BY <1>8, <2>1 DEF OnOverviewComplete
    <2> QED BY <1>0, <2>1, <2>2, CompleteHandled
  <1>9. CASE OnPosted(phase = "stopped")
    <2>1. events # <<>> /\ events' = Tail(events) /\ UNCHANGED <<group, articles>>
      BY <1>9 DEF OnPosted, Receive
    <2>2. CASE group.name \notin posting_groups
      BY <1>3, <1>9, <2>1, <2>2 DEF OnPosted
    <2>3. CASE group.name \in posting_groups
      <3> DEFINE r == [type |-> "OpenGroup", group |-> group.name, count |-> InitialArticles,
                       token |-> next_token + 1]
      <3>1. next_token' = next_token + 1 /\ overview_token' = next_token + 1
        BY <1>9, <2>3 DEF OnPosted, BeginOverviewFetch
      <3>2. UNCHANGED requests \/ requests' = Append(requests, r)
        BY <1>9, <2>3 DEF OnPosted
      <3>3. IsFetch(r) /\ r.token = next_token + 1 /\ r.group = group.name
        BY DEF IsFetch
      <3> HIDE DEF r
      <3>4. RequestAdded(r)
        <4>1. CASE UNCHANGED requests
          BY <4>1 DEF RequestAdded
        <4>2. CASE requests' = Append(requests, r)
          BY <1>0, <4>2, RequestAppended
        <4> QED BY <3>2, <4>1, <4>2
      <3> QED BY <1>0, <1>1, <2>1, <3>1, <3>3, <3>4, FetchIssued
    <2> QED BY <2>2, <2>3
  <1> QED BY <1>4, <1>5, <1>6, <1>7, <1>8, <1>9 DEF OnEvent

-----------------------------------------------------------------------------
(* The theorems *)

\* At start only the group list is asked for.
LEMMA SessionInit == Init => SessionInv
  <1> SUFFICES ASSUME Init PROVE SessionInv
    OBVIOUS
  <1>1. /\ requests = <<[type |-> "LoadGroups", scope |-> Subscribed]>> /\ events = <<>>
        /\ articles = {} /\ overview_token = 0 /\ phase = "idle"
    BY DEF Init, AppInit, WorkerInit
  <1>2. ~FetchJob /\ ~OpenJob /\ ~ArticleJob
    BY <1>1 DEF FetchJob, OpenJob, ArticleJob, Busy
  <1>3. \A i \in DOMAIN requests : ~IsFetch(requests[i]) /\ requests[i].type # "LoadArticle"
    BY <1>1 DEF IsFetch
  <1>4. DOMAIN events = {}
    BY <1>1
  <1>5. TokensIssued
    BY <1>1, <1>2, <1>3, <1>4 DEF TokensIssued
  <1>6. TokensOrdered
    BY <1>2, <1>3, <1>4 DEF TokensOrdered, RequestsInOrder, JobBeforeRequests,
       EventsBeforeRequests, EventsBeforeJob, EventsInOrder
  <1>7. FetchesConsistent
    BY <1>4 DEF FetchesConsistent
  <1>8. NoTokenNoFetch
    BY <1>2, <1>3, <1>4 DEF NoTokenNoFetch
  <1>9. OpensMatchList /\ ListMatchesGroup
    BY <1>1 DEF OpensMatchList, ListMatchesGroup
  <1>10. ArticlesMatchGroup
    BY <1>2, <1>3, <1>4 DEF ArticlesMatchGroup, ArticleRequestsMatch, ArticleJobMatches,
       ArticleEventsMatch
  <1> QED BY <1>5, <1>6, <1>7, <1>8, <1>9, <1>10 DEF SessionInv

\* Every step of the system keeps the order.
LEMMA SessionStep ==
    ASSUME TypeInv, TypeInv', SessionInv, [Next]_vars
    PROVE  SessionInv'
  <1>0. ChannelTypeOK /\ QueuesIndexed /\ QueuesIndexed'
    <2>1. ChannelTypeOK /\ ChannelTypeOK'
      BY DEF TypeInv, TypeOK, ChannelTypeOK
    <2> QED BY <2>1 DEF ChannelTypeOK, QueuesIndexed
  <1>1. ASSUME RequestsKept(0), UNCHANGED <<events, group, articles, overview_token, next_token>>,
               JobKept
        PROVE  SessionInv'
    <2>1. EventsKept(0)
      BY <1>0, <1>1 DEF EventsKept, QueuesIndexed
    <2> QED BY <1>0, <1>1, <2>1, PendingShrinks
  <1>2. ASSUME UNCHANGED requests PROVE RequestsKept(0)
    BY <1>0, <1>2 DEF RequestsKept, QueuesIndexed
  <1> USE DEF JobKept, FetchJob, OpenJob, ArticleJob, Busy, IsFetch, jobVars, appVars,
              sessionVars, channelVars, workerVars
  <1>3. CASE WorkerRuns
    BY <1>0, <1>3, WorkerOrderStep DEF WorkerRuns
  <1>4. CASE ServerRuns
    <2>1. UNCHANGED <<requests, events, phase, jobVars>>
      BY <1>4 DEF ServerRuns, ServerStep, Arrive, Expire
    <2> QED BY <1>1, <1>2, <1>4, <2>1 DEF ServerRuns
  <1>5. CASE HandleEvent
    BY <1>0, <1>5, EventOrderStep DEF HandleEvent
  <1>6. CASE HandleKey
    BY <1>0, <1>6, KeyOrderStep DEF HandleKey
  <1>6a. CASE LastDrain /\ UNCHANGED workerVars
    BY <1>1, <1>2, <1>6a DEF LastDrain
  <1>7. CASE Close /\ UNCHANGED workerVars
    <2> DEFINE r == [type |-> "Shutdown"]
    <2>1. ~PendingRequest(r) /\ requests' = Append(requests, r)
      BY <1>7 DEF Close, PendingRequest
    <2> HIDE DEF r
    <2>2. RequestAdded(r)
      BY <1>0, <2>1, RequestAppended
    <2>3. RequestsKept(0)
      BY <1>0, <2>1, <2>2 DEF RequestAdded, RequestsKept, QueuesIndexed
    <2> QED BY <1>1, <1>7, <2>3 DEF Close
  <1>8. CASE Exit /\ UNCHANGED workerVars
    BY <1>1, <1>2, <1>8 DEF Exit
  <1>9. CASE UNCHANGED vars
    BY <1>1, <1>2, <1>9 DEF vars
  <1> QED BY <1>3, <1>4, <1>5, <1>6, <1>6a, <1>7, <1>8, <1>9 DEF Next, Leave, Wait

\* The inductive invariant holds in every reachable state, for any number of groups,
\* requests, chunks, faults and arrivals.
THEOREM SessionInvariant == Spec => [](TypeInv /\ SessionInv)
  <1>1. Init => SessionInv
    BY SessionInit
  <1>2. TypeInv /\ TypeInv' /\ SessionInv /\ [Next]_vars => SessionInv'
    BY SessionStep
  <1>3. Spec => []TypeInv
    BY TypeCorrect
  <1> QED BY <1>1, <1>2, <1>3, PTL DEF Spec

\* IInv, the invariant the model checker evaluates, is that one.
THEOREM InductiveInvariant == Spec => []IInv
  <1>1. TypeInv /\ SessionInv => IInv
    BY DEF TypeInv, SessionInv, IInv
  <1> QED BY <1>1, SessionInvariant, PTL

\* The list never shows a record under another group's heading: accepts_overview's two
\* checks are enough whatever is in flight (app.rs, OverviewChunk and GroupOpened).
THEOREM ListIsOfGroup == Spec => []ListMatchesGroup
  <1>1. SessionInv => ListMatchesGroup
    BY DEF SessionInv
  <1> QED BY <1>1, SessionInvariant, PTL

\* overview_token is None only when no fetch is outstanding anywhere (app.rs,
\* OverviewComplete): while it is None no chunk can still arrive to be judged by it.
THEOREM NoTokenMeansNoFetch == Spec => []NoTokenNoFetch
  <1>1. SessionInv => NoTokenNoFetch
    BY DEF SessionInv
  <1> QED BY <1>1, SessionInvariant, PTL

\* An Article event only ever marks the article the server sent, although it carries no
\* group name (app.rs, on_event, Article).
THEOREM ArticleMarksItsGroup == Spec => MarksRightGroup
  <1> DEFINE Marks1 == events # <<>> /\ Head(events).type = "Article" /\ events' = Tail(events) =>
                read' \ read \subseteq {<<Head(events).group, Head(events).number>>}
  <1>1. TypeInv /\ SessionInv /\ [Next]_vars => [Marks1]_vars
    <2> SUFFICES ASSUME TypeInv, SessionInv, [Next]_vars, events # <<>>,
                        Head(events).type = "Article", events' = Tail(events)
                 PROVE  read' \ read \subseteq {<<Head(events).group, Head(events).number>>}
      OBVIOUS
    <2>0. events \in Seq(Event) /\ Head(events).group = group.name
      <3>1. events \in Seq(Event) /\ 1 \in DOMAIN events /\ Head(events) = events[1]
        BY DEF TypeInv, TypeOK
      <3> QED BY <3>1 DEF SessionInv, ArticlesMatchGroup, ArticleEventsMatch
    <2>1. CASE OnArticle
      BY <2>0, <2>1 DEF OnArticle
    <2>2. CASE UNCHANGED read
      BY <2>2
    <2>3. CASE HandleKey \/ Leave
      <3>1. events' # events
        BY <2>0
      <3>2. UNCHANGED events
        BY <2>3 DEF HandleKey, OnKey, Leave, LastDrain, Close, Exit, channelVars, Issue, OpenGroup,
           OpenEmpty, LoadArticle, ToggleRead, Reload, ReloadGroups, SearchGroups, RequestCancellation,
           CatchUp, ComposeAbandoned, ComposeKept, ComposeSent, Quit
      <3> QED BY <3>1, <3>2
    <2>4. CASE HandleEvent
      BY <2>1, <2>4 DEF HandleEvent, OnEvent, Receive, OnConnected, OnGroups, OnGroupOpened,
         OnOverviewChunk, OnOverviewComplete, OnPosted, OnUnfinished, OnDisconnected, OnStopped
    <2>5. CASE WorkerRuns \/ ServerRuns \/ Wait \/ UNCHANGED vars
      BY <2>2, <2>5 DEF WorkerRuns, ServerRuns, Wait, vars, appVars, readVars
    <2> QED BY <2>3, <2>4, <2>5 DEF Next
  <1> QED BY <1>1, SessionInvariant, PTL DEF Spec, MarksRightGroup
-----------------------------------------------------------------------------
(* Counting what is outstanding *)

\* How many messages of a channel are in K.
Count(q, K) == Cardinality({i \in DOMAIN q : q[i] \in K})

\* A message sent is counted, if it is of the kind counted.
LEMMA CountSent ==
    ASSUME NEW S, NEW q \in Seq(S), NEW x \in S, NEW K
    PROVE  /\ Count(q, K) \in Nat
           /\ Count(Append(q, x), K) = Count(q, K) + (IF x \in K THEN 1 ELSE 0)
PROOF
<1> DEFINE P == {i \in DOMAIN q : q[i] \in K}
           n == Len(q) + 1
           R == {i \in DOMAIN Append(q, x) : Append(q, x)[i] \in K}
<1>1. IsFiniteSet(P) /\ Cardinality(P) \in Nat
  <2>1. IsFiniteSet(1..Len(q)) /\ P \in SUBSET (1..Len(q))
    BY FS_Interval
  <2> QED BY <2>1, FS_Subset, FS_CardinalityType
<1>2. n \notin P
  OBVIOUS
<1>3. R = IF x \in K THEN P \cup {n} ELSE P
  OBVIOUS
<1> HIDE DEF P, R, n
<1>4. Cardinality(R) = Cardinality(P) + (IF x \in K THEN 1 ELSE 0)
  <2>1. Cardinality(P \cup {n}) = Cardinality(P) + 1
    BY <1>1, <1>2, FS_AddElement
  <2> QED BY <1>1, <1>3, <2>1
<1> QED BY <1>1, <1>4 DEF Count, P, R

\* So is a message received.
LEMMA CountReceived ==
    ASSUME NEW S, NEW q \in Seq(S), q # <<>>, NEW K
    PROVE  /\ Count(Tail(q), K) \in Nat
           /\ Count(q, K) = Count(Tail(q), K) + (IF Head(q) \in K THEN 1 ELSE 0)
PROOF
<1> DEFINE P == {i \in DOMAIN q : q[i] \in K}
           T == {i \in DOMAIN Tail(q) : Tail(q)[i] \in K}
           Q == P \ {1}
           f == [i \in T |-> i + 1]
<1>1. IsFiniteSet(P) /\ IsFiniteSet(T)
  <2>1. Len(q) \in Nat /\ DOMAIN q = 1..Len(q) /\ DOMAIN Tail(q) \in SUBSET (1..Len(q))
    OBVIOUS
  <2>2. IsFiniteSet(1..Len(q))
    BY <2>1, FS_Interval
  <2>3. P \in SUBSET (1..Len(q)) /\ T \in SUBSET (1..Len(q))
    BY <2>1
  <2> QED BY <2>2, <2>3, FS_Subset
<1>2. f \in Bijection(T, Q)
  <2>1. f \in [T -> Q]
    OBVIOUS
  <2>2. \A i, j \in T : f[i] = f[j] => i = j
    OBVIOUS
  <2>3. ASSUME NEW i \in Q PROVE \E j \in T : f[j] = i
    <3>1. i - 1 \in DOMAIN Tail(q) /\ Tail(q)[i - 1] = q[i] /\ (i - 1) + 1 = i
      OBVIOUS
    <3>2. i - 1 \in T
      BY <3>1
    <3> QED BY <3>1, <3>2
  <2> HIDE DEF f
  <2> QED BY <2>1, <2>2, <2>3 DEF Bijection, Injection, IsInjective, Surjection
<1>3. 1 \in P <=> Head(q) \in K
  OBVIOUS
<1> HIDE DEF P, T, Q, f
<1>4. Cardinality(Q) = Cardinality(T) /\ Cardinality(T) \in Nat
  BY <1>1, <1>2, FS_Bijection, FS_CardinalityType DEF ExistsBijection
<1>5. Cardinality(Q) = (IF 1 \in P THEN Cardinality(P) - 1 ELSE Cardinality(P)) /\ Cardinality(P) \in Nat
  BY <1>1, FS_RemoveElement, FS_CardinalityType DEF Q
<1>6. Cardinality(P) = Cardinality(T) + (IF Head(q) \in K THEN 1 ELSE 0)
  BY <1>3, <1>4, <1>5
<1> QED BY <1>4, <1>6 DEF Count, P, T

\* Requests that ask for something, events that answer.
Asking == {r \in Request : r.type # "Shutdown"}
Answering == {e \in Event : Terminal(e)}

\* What Outstanding counts.
LEMMA OutstandingIs ==
    ASSUME ChannelTypeOK
    PROVE  /\ Asked = Count(requests, Asking) /\ Answered = Count(events, Answering)
           /\ Asked \in Nat /\ Answered \in Nat
PROOF
<1>1. \A i \in DOMAIN requests : requests[i] \in Asking <=> requests[i].type # "Shutdown"
  BY DEF ChannelTypeOK, Asking
<1>2. \A i \in DOMAIN events : events[i] \in Answering <=> Terminal(events[i])
  BY DEF ChannelTypeOK, Answering
<1>3. Asked = Count(requests, Asking) /\ Answered = Count(events, Answering)
  BY <1>1, <1>2 DEF Asked, Answered, Count
<1>4. Asked \in Nat /\ Answered \in Nat
  <2>1. requests \in Seq(Request) /\ events \in Seq(Event)
    BY DEF ChannelTypeOK
  <2>2. IsFiniteSet(DOMAIN requests) /\ IsFiniteSet(DOMAIN events)
    BY <2>1, FS_Interval
  <2> QED BY <2>2, FS_Subset, FS_CardinalityType DEF Asked, Answered
<1> QED BY <1>3, <1>4

\* What is asked and what is answered are numbers.
LEMMA OutstandingNat == ChannelTypeOK => Asked \in Nat /\ Answered \in Nat
  BY OutstandingIs

\* The channels after a send or a receive, counted.
LEMMA EventCounted ==
    ASSUME ChannelTypeOK, NEW e \in Event, events' = Append(events, e)
    PROVE  Answered' = Answered + (IF Terminal(e) THEN 1 ELSE 0)
PROOF
<1>1. Answered = Count(events, Answering)
  BY OutstandingIs
<1>2. Answered' = Cardinality({i \in DOMAIN events' : Terminal(events'[i])})
  BY DEF Answered
<1>3. \A i \in DOMAIN events' : events'[i] \in Event
  BY DEF ChannelTypeOK
<1>4. Answered' = Count(Append(events, e), Answering)
  BY <1>2, <1>3 DEF Count, Answering
<1>5. Count(Append(events, e), Answering) = Count(events, Answering) + (IF e \in Answering THEN 1 ELSE 0)
  BY CountSent DEF ChannelTypeOK
<1> QED BY <1>1, <1>4, <1>5 DEF Answering

LEMMA EventUncounted ==
    ASSUME ChannelTypeOK, events # <<>>, events' = Tail(events)
    PROVE  Answered = Answered' + (IF Terminal(Head(events)) THEN 1 ELSE 0) /\ Answered' \in Nat
PROOF
<1>1. Answered = Count(events, Answering)
  BY OutstandingIs
<1>2. Answered' = Cardinality({i \in DOMAIN events' : Terminal(events'[i])})
  BY DEF Answered
<1>3. (\A i \in DOMAIN events' : events'[i] \in Event) /\ Head(events) \in Event
  BY DEF ChannelTypeOK
<1>4. Answered' = Count(Tail(events), Answering)
  BY <1>2, <1>3 DEF Count, Answering
<1>5. /\ Count(Tail(events), Answering) \in Nat
      /\ Count(events, Answering) = Count(Tail(events), Answering)
                                      + (IF Head(events) \in Answering THEN 1 ELSE 0)
  BY CountReceived DEF ChannelTypeOK
<1> QED BY <1>1, <1>3, <1>4, <1>5 DEF Answering

LEMMA RequestCounted ==
    ASSUME ChannelTypeOK, NEW r \in Request, requests' = Append(requests, r)
    PROVE  Asked' = Asked + (IF r.type # "Shutdown" THEN 1 ELSE 0)
PROOF
<1>1. Asked = Count(requests, Asking)
  BY OutstandingIs
<1>2. Asked' = Cardinality({i \in DOMAIN requests' : requests'[i].type # "Shutdown"})
  BY DEF Asked
<1>3. \A i \in DOMAIN requests' : requests'[i] \in Request
  BY DEF ChannelTypeOK
<1>4. Asked' = Count(Append(requests, r), Asking)
  BY <1>2, <1>3 DEF Count, Asking
<1>5. Count(Append(requests, r), Asking) = Count(requests, Asking) + (IF r \in Asking THEN 1 ELSE 0)
  BY CountSent DEF ChannelTypeOK
<1> QED BY <1>1, <1>4, <1>5 DEF Asking

LEMMA RequestUncounted ==
    ASSUME ChannelTypeOK, requests # <<>>, requests' = Tail(requests)
    PROVE  /\ Asked = Asked' + (IF Head(requests).type # "Shutdown" THEN 1 ELSE 0)
           /\ Asked' \in Nat
PROOF
<1>1. Asked = Count(requests, Asking)
  BY OutstandingIs
<1>2. Asked' = Cardinality({i \in DOMAIN requests' : requests'[i].type # "Shutdown"})
  BY DEF Asked
<1>3. (\A i \in DOMAIN requests' : requests'[i] \in Request) /\ Head(requests) \in Request
  BY DEF ChannelTypeOK
<1>4. Asked' = Count(Tail(requests), Asking)
  BY <1>2, <1>3 DEF Count, Asking
<1>5. /\ Count(Tail(requests), Asking) \in Nat
      /\ Count(requests, Asking) = Count(Tail(requests), Asking)
                                     + (IF Head(requests) \in Asking THEN 1 ELSE 0)
  BY CountReceived DEF ChannelTypeOK
<1> QED BY <1>1, <1>3, <1>4, <1>5 DEF Asking

\* The arithmetic of the count: f requests counted in flight; a asked, w with the worker,
\* e answered.
LEMMA CountArithmetic ==
    ASSUME NEW f \in Nat, NEW a \in Nat, NEW w \in Nat, NEW e \in Nat, f <= a + w + e
    PROVE  /\ \A f1, a1 \in Nat : a + f1 <= a1 + f => f1 <= a1 + w + e
           /\ \A f1, e1 \in Nat : e = e1 + 1 /\ f1 <= f /\ (f > 0 => f = f1 + 1) => f1 <= a + w + e1
           /\ \A a1, w1, e1 \in Nat : a + w + e <= a1 + w1 + e1 => f <= a1 + w1 + e1
  OBVIOUS

\* What the worker owes: one answer while it is busy.
Owing == IF Busy THEN 1 ELSE 0

\* The worker drops no request without an answer (dispatch, the error half included).
LEMMA WorkerAnswers ==
    ASSUME TypeInv, TypeInv', WorkerStep
    PROVE  Asked + Owing + Answered <= Asked' + Owing' + Answered'
PROOF
<1>0. ChannelTypeOK /\ ChannelTypeOK' /\ Asked \in Nat /\ Answered \in Nat /\ phase \in Phases
  BY OutstandingIs DEF TypeInv, TypeOK, WorkerTypeOK, ChannelTypeOK
<1>1. Owing \in {0, 1} /\ Owing' \in {0, 1}
  BY DEF Owing
<1>2. ASSUME UNCHANGED <<requests, events>>, Busy => Busy'
      PROVE  Asked + Owing + Answered <= Asked' + Owing' + Answered'
  <2>1. Asked' = Asked /\ Answered' = Answered
    BY <1>2 DEF Asked, Answered
  <2> QED BY <1>0, <1>2, <2>1 DEF Owing
<1>3. ASSUME UNCHANGED requests, NEW e, e \in Event, events' = Append(events, e),
             (Busy => Busy') \/ Terminal(e)
      PROVE  Asked + Owing + Answered <= Asked' + Owing' + Answered'
  <2>1. Asked' = Asked /\ Answered' = Answered + (IF Terminal(e) THEN 1 ELSE 0)
    BY <1>0, <1>3, EventCounted DEF Asked
  <2> QED BY <1>0, <1>1, <1>3, <2>1 DEF Owing
<1>4. ASSUME NEW e, events' = Append(events, e) PROVE e \in Event
  <2>1. events \in Seq(Event) /\ events' \in Seq(Event)
    BY <1>0 DEF ChannelTypeOK
  <2>2. Len(events) + 1 \in DOMAIN events' /\ events'[Len(events) + 1] = e
    BY <1>4, <2>1
  <2> QED BY <2>1, <2>2
<1>5. CASE Take
  <2>1. Asked = Asked' + 1
    BY <1>0, <1>5, RequestUncounted DEF Take
  <2>2. ~Busy /\ Busy' /\ Answered' = Answered
    BY <1>5 DEF Take, Busy, Answered
  <2> QED BY <1>0, <2>1, <2>2 DEF Owing
<1>6. CASE Stop
  <2>1. Asked = Asked'
    <3>1. Asked = Asked' + 0 /\ Asked' \in Nat
      BY <1>0, <1>6, RequestUncounted DEF Stop
    <3>2. \A a \in Nat : a + 0 = a
      OBVIOUS
    <3> QED BY <3>1, <3>2
  <2>2. ~Busy
    BY <1>6 DEF Stop, Busy
  <2>3. events' = Append(events, [type |-> "Stopped"])
    BY <1>6 DEF Stop, Send
  <2>4. Answered' = Answered
    BY <1>0, <1>4, <2>3, EventCounted DEF Terminal
  <2>5. \A a, e \in Nat : a + 0 + e <= a + 0 + e /\ a + 0 + e <= a + 1 + e
    OBVIOUS
  <2>6. Owing = 0 /\ Owing' \in {0, 1}
    BY <1>1, <2>2 DEF Owing
  <2> QED BY <1>0, <2>1, <2>4, <2>5, <2>6
<1>7. CASE ConnectFails \/ Refuse \/ NotThere \/ Break \/ PostLost
  <2>1. events' = Append(events, [type |-> "Failed"]) /\ UNCHANGED requests
    BY <1>7 DEF ConnectFails, Refuse, NotThere, Break, PostLost, Send
  <2>2. Terminal([type |-> "Failed"])
    BY DEF Terminal
  <2> QED BY <1>3, <1>4, <2>1, <2>2
<1>8. CASE Abort \/ Post
  <2>1. \E t \in {"Cancelled", "Posted"} : events' = Append(events, [type |-> t]) /\ UNCHANGED requests
    BY <1>8 DEF Abort, Post, Send
  <2>2. \A t \in {"Cancelled", "Posted"} : Terminal([type |-> t])
    BY DEF Terminal
  <2> QED BY <1>3, <1>4, <2>1, <2>2
<1>9. CASE Connect \/ Drop
  <2>1. \E t \in {"Connected", "Disconnected"} : events' = Append(events, [type |-> t]) /\ UNCHANGED requests
    BY <1>9 DEF Connect, Drop, Send
  <2>2. Busy => Busy'
    BY <1>9 DEF Connect, Drop, Busy
  <2> QED BY <1>3, <1>4, <2>1, <2>2
<1>10. CASE Reset \/ BeginBlock \/ List \/ PatternRefused \/ ListAll \/ Reselect
  <2>1. UNCHANGED <<requests, events>>
    BY <1>10 DEF Reset, BeginBlock, List, PatternRefused, ListAll, Reselect, channelVars
  <2>2. Busy => Busy'
    BY <1>10 DEF Reset, BeginBlock, List, PatternRefused, ListAll, Reselect, Ready, Busy
  <2> QED BY <1>2, <2>1, <2>2
<1>11. CASE Descriptions \/ DescriptionsRefused
  <2>1. UNCHANGED requests /\ AfterDescriptions
    BY <1>11 DEF Descriptions, DescriptionsRefused
  <2>2. CASE left > 1
    <3>1. UNCHANGED <<requests, events>> /\ phase' = "ready"
      BY <2>1, <2>2, <1>0 DEF AfterDescriptions, TypeInv, TypeOK, WorkerTypeOK
    <3> QED BY <1>2, <3>1 DEF Busy
  <2>3. CASE ~(left > 1)
    <3>1. events' = Append(events, [type |-> "Groups", rows |-> RowsOf(job.scope), scope |-> job.scope])
      BY <2>1, <2>3 DEF AfterDescriptions, Send
    <3>2. Terminal([type |-> "Groups", rows |-> RowsOf(job.scope), scope |-> job.scope])
      BY DEF Terminal
    <3> QED BY <1>3, <1>4, <2>1, <3>1, <3>2
  <2> QED BY <2>2, <2>3
<1>12. CASE OpenGroupSelect \/ Over
  <2>1. (\E e : events' = Append(events, e)) /\ UNCHANGED requests
    BY <1>12 DEF OpenGroupSelect, Over, Send
  <2>2. Busy'
    BY <1>12 DEF OpenGroupSelect, Over, Busy
  <2> QED BY <1>3, <1>4, <2>1, <2>2
<1>13. CASE Complete \/ Article
  <2>1. /\ UNCHANGED requests
        /\ \/ events' = Append(events, [type |-> "OverviewComplete", group |-> job.group, token |-> job.token])
           \/ events' = Append(events, [type |-> "Article", group |-> selected, number |-> job.number])
    BY <1>13 DEF Complete, Article, Send
  <2>2. /\ Terminal([type |-> "OverviewComplete", group |-> job.group, token |-> job.token])
        /\ Terminal([type |-> "Article", group |-> selected, number |-> job.number])
    BY DEF Terminal
  <2> QED BY <1>3, <1>4, <2>1, <2>2
<1> QED BY <1>5, <1>6, <1>7, <1>8, <1>9, <1>10, <1>11, <1>12, <1>13 DEF WorkerStep

\* The interface counts what it asks for and nothing else.
LEMMA InterfaceAsks ==
    ASSUME TypeInv, TypeInv', HandleKey \/ Leave, InflightBound
    PROVE  InflightBound'
PROOF
<1>0. /\ ChannelTypeOK /\ Asked \in Nat /\ Answered \in Nat /\ inflight \in Nat
      /\ requests \in Seq(Request) /\ requests' \in Seq(Request)
  BY OutstandingIs DEF TypeInv, TypeOK, AppTypeOK, ChannelTypeOK
<1>1. Owing \in {0, 1} /\ Owing' = Owing /\ inflight <= Asked + Owing + Answered
  BY DEF Owing, Busy, HandleKey, Leave, workerVars, InflightBound, Outstanding
<1>2. ASSUME UNCHANGED events, Asked + inflight' <= Asked' + inflight, Asked' \in Nat, inflight' \in Nat
      PROVE  InflightBound'
  <2>1. Answered' = Answered
    BY <1>2 DEF Answered
  <2>2. inflight' <= Asked' + Owing + Answered
    <3>1. Owing \in Nat
      BY <1>1
    <3> QED BY <1>0, <1>1, <1>2, <3>1, CountArithmetic
  <2> QED BY <1>1, <2>1, <2>2 DEF InflightBound, Outstanding, Owing
<1>3. ASSUME NEW r, requests' = Append(requests, r)
      PROVE  r \in Request
  <2>1. Len(requests) + 1 \in DOMAIN requests' /\ requests'[Len(requests) + 1] = r
    BY <1>0, <1>3
  <2> QED BY <1>0, <2>1
<1>4. ASSUME UNCHANGED <<requests, events, inflight>>
      PROVE  InflightBound'
  <2>1. Asked' = Asked
    BY <1>4 DEF Asked
  <2> QED BY <1>0, <1>2, <1>4, <2>1
<1>5. ASSUME NEW r, r.type # "Shutdown", requests' = Append(requests, r), UNCHANGED events,
             inflight' = inflight + 1
      PROVE  InflightBound'
  <2>1. Asked' = Asked + 1
    BY <1>0, <1>3, <1>5, RequestCounted
  <2> QED BY <1>0, <1>2, <1>5, <2>1
<1>6. ASSUME requests' = Append(requests, [type |-> "Shutdown"]), UNCHANGED <<events, inflight>>
      PROVE  InflightBound'
  <2>1. Asked' = Asked
    BY <1>0, <1>3, <1>6, RequestCounted
  <2> QED BY <1>0, <1>2, <1>6, <2>1
<1>7. CASE \E row \in rows : OpenGroup(row)
  <2>1. PICK row \in rows : OpenGroup(row)
    BY <1>7
  <2> QED BY <1>5, <2>1 DEF OpenGroup, Issue
<1>8. CASE \E article \in articles : LoadArticle(article)
  <2>1. PICK article \in articles : LoadArticle(article)
    BY <1>8
  <2> QED BY <1>5, <2>1 DEF LoadArticle, Issue
<1>9. CASE Reload
  BY <1>5, <1>9 DEF Reload, Issue
<1>10. CASE ReloadGroups
  BY <1>5, <1>10 DEF ReloadGroups, Issue
<1>11. CASE \E scope \in GroupScope : SearchGroups(scope)
  <2>1. PICK scope \in GroupScope : SearchGroups(scope)
    BY <1>11
  <2> QED BY <1>5, <2>1 DEF SearchGroups, Issue
<1>12. CASE \E draft \in Draft : \E groups \in SUBSET Group : ComposeSent(draft, groups)
  <2>1. PICK draft \in Draft, groups \in SUBSET Group : ComposeSent(draft, groups)
    BY <1>12
  <2> QED BY <1>5, <2>1 DEF ComposeSent, Issue
<1>13. CASE Quit \/ Close
  BY <1>6, <1>13 DEF Quit, Close
<1>14. CASE \/ \E row \in rows : OpenEmpty(row)
            \/ \E article \in articles : ToggleRead(article)
            \/ CatchUp \/ RequestCancellation \/ LastDrain \/ Exit
            \/ \E draft \in Draft : ComposeAbandoned(draft) \/ ComposeKept(draft)
  <2>1. UNCHANGED <<requests, events, inflight>>
    BY <1>14 DEF OpenEmpty, ToggleRead, CatchUp, RequestCancellation, LastDrain, Exit, ComposeAbandoned,
           ComposeKept, channelVars, appVars
  <2> QED BY <1>4, <2>1
<1> QED BY <1>7, <1>8, <1>9, <1>10, <1>11, <1>12, <1>13, <1>14 DEF HandleKey, OnKey, Leave

\* An answer is taken off the count once, and the two ends of a session clear it.
LEMMA InterfaceHears ==
    ASSUME TypeInv, TypeInv', HandleEvent, InflightBound
    PROVE  InflightBound'
PROOF
<1>0. /\ ChannelTypeOK /\ Asked \in Nat /\ Answered \in Nat /\ inflight \in Nat
      /\ requests \in Seq(Request) /\ requests' \in Seq(Request)
  BY OutstandingIs DEF TypeInv, TypeOK, AppTypeOK, ChannelTypeOK
<1>1. Owing \in {0, 1} /\ Owing' = Owing /\ inflight <= Asked + Owing + Answered
  BY DEF Owing, Busy, HandleEvent, workerVars, InflightBound, Outstanding
<1>2. events # <<>> /\ events' = Tail(events)
  BY DEF HandleEvent, OnEvent, OnConnected, OnGroups, OnGroupOpened, OnOverviewChunk,
         OnOverviewComplete, OnArticle, OnPosted, OnUnfinished, OnDisconnected, OnStopped, Receive
<1>3. Answered = Answered' + (IF Terminal(Head(events)) THEN 1 ELSE 0) /\ Answered' \in Nat
  BY <1>0, <1>2, EventUncounted
<1>4. ASSUME Asked' \in Nat, inflight' <= Asked' + Owing + Answered'
      PROVE  InflightBound'
  BY <1>1, <1>4 DEF InflightBound, Outstanding, Owing
<1>5. ASSUME UNCHANGED requests PROVE Asked' = Asked
  BY <1>5 DEF Asked
<1>6. SaturatingPred(inflight) \in Nat /\ inflight <= SaturatingPred(inflight) + 1
      /\ (inflight > 0 => inflight = SaturatingPred(inflight) + 1) /\ (inflight = 0 => SaturatingPred(inflight) = 0)
  BY <1>0 DEF SaturatingPred
<1>6a. ASSUME Terminal(Head(events)) PROVE SaturatingPred(inflight) <= Asked + Owing + Answered'
  <2>1. Answered = Answered' + 1 /\ Owing \in Nat
    BY <1>1, <1>3, <1>6a
  <2>2. SaturatingPred(inflight) <= inflight
    BY <1>0 DEF SaturatingPred
  <2> QED BY <1>0, <1>1, <1>3, <1>6, <2>1, <2>2, CountArithmetic
<1>7. ASSUME UNCHANGED requests, Terminal(Head(events)), inflight' = SaturatingPred(inflight)
      PROVE  InflightBound'
  BY <1>0, <1>4, <1>5, <1>6a, <1>7
<1>8. ASSUME UNCHANGED <<requests, inflight>>, ~Terminal(Head(events))
      PROVE  InflightBound'
  <2>1. Answered = Answered' + 0
    BY <1>3, <1>8
  <2>2. Answered = Answered'
    <3>1. \A a \in Nat : a + 0 = a
      OBVIOUS
    <3> QED BY <1>3, <2>1, <3>1
  <2> QED BY <1>0, <1>1, <1>4, <1>5, <1>8, <2>2
<1>9. ASSUME UNCHANGED requests, inflight' = 0
      PROVE  InflightBound'
  <2>1. \A a, w, e \in Nat : 0 <= a + w + e
    OBVIOUS
  <2>2. Asked' = Asked /\ Owing \in Nat
    BY <1>1, <1>5, <1>9
  <2> QED BY <1>0, <1>3, <1>4, <1>9, <2>1, <2>2
<1>10. CASE OnGroups \/ OnOverviewComplete \/ OnArticle \/ OnUnfinished("Cancelled") \/ OnUnfinished("Failed")
  BY <1>7, <1>10 DEF OnGroups, OnOverviewComplete, OnArticle, OnUnfinished, Receive, Terminal
<1>11. CASE OnConnected \/ OnGroupOpened \/ OnOverviewChunk
  BY <1>8, <1>11 DEF OnConnected, OnGroupOpened, OnOverviewChunk, Receive, Terminal
<1>12. CASE OnDisconnected \/ OnStopped
  BY <1>9, <1>12 DEF OnDisconnected, OnStopped
<1>13. CASE OnPosted(phase = "stopped")
  <2>1. Terminal(Head(events))
    BY <1>13 DEF OnPosted, Receive, Terminal
  <2>2. CASE UNCHANGED requests
    BY <1>7, <1>9, <1>13, <2>1, <2>2 DEF OnPosted
  <2>3. CASE ~UNCHANGED requests
    <3> DEFINE r == [type |-> "OpenGroup", group |-> group.name, count |-> InitialArticles,
                     token |-> next_token + 1]
    <3>1. inflight' = SaturatingPred(inflight) + 1 /\ requests' = Append(requests, r)
      BY <1>13, <2>3 DEF OnPosted
    <3>2. r.type # "Shutdown"
      OBVIOUS
    <3> HIDE DEF r
    <3>3. r \in Request
      <4>1. Len(requests) + 1 \in DOMAIN requests' /\ requests'[Len(requests) + 1] = r
        BY <1>0, <3>1
      <4> QED BY <1>0, <4>1
    <3>4. Asked' = Asked + 1
      BY <1>0, <3>1, <3>2, <3>3, RequestCounted
    <3>5. SaturatingPred(inflight) <= Asked + Owing + Answered'
      BY <1>6a, <2>1
    <3>6. \A f, a, w, e \in Nat : f <= a + w + e => f + 1 <= (a + 1) + w + e
      OBVIOUS
    <3>7. Owing \in Nat
      BY <1>1
    <3>8. inflight' <= Asked' + Owing + Answered'
      BY <1>0, <1>3, <1>6, <3>1, <3>4, <3>5, <3>6, <3>7
    <3> QED BY <1>0, <1>4, <3>4, <3>8
  <2> QED BY <2>2, <2>3
<1> QED BY <1>10, <1>11, <1>12, <1>13 DEF HandleEvent, OnEvent

(***************************************************************************)
(* The outstanding count never exceeds what is outstanding, whatever       *)
(* fails, is cancelled, is posted or reloaded: the spinner stops when the  *)
(* last answer is in, and Esc never raises a flag with nobody left to      *)
(* lower it (app.rs, inflight).                                            *)
(***************************************************************************)
THEOREM InflightIsOutstanding == Spec => []InflightBound
PROOF
<1>1. Init => InflightBound
  <2> SUFFICES ASSUME Init PROVE InflightBound
    OBVIOUS
  <2> DEFINE r == [type |-> "LoadGroups", scope |-> Subscribed]
  <2>1. requests = <<r>> /\ inflight = 1 /\ events = <<>> /\ phase = "idle"
    BY DEF Init, AppInit, WorkerInit
  <2>2. {i \in DOMAIN requests : requests[i].type # "Shutdown"} = {1}
    BY <2>1
  <2>3. {i \in DOMAIN events : Terminal(events[i])} = {}
    BY <2>1
  <2>4. Asked = 1 /\ Answered = 0
    BY <2>2, <2>3, FS_EmptySet, FS_Singleton DEF Asked, Answered
  <2> QED BY <2>1, <2>4 DEF InflightBound, Outstanding, Busy
<1>2. ASSUME TypeInv, TypeInv', InflightBound, [Next]_vars PROVE InflightBound'
  <2>1. CASE WorkerRuns
    <3>0. UNCHANGED inflight
      BY <2>1 DEF WorkerRuns, appVars
    <3>1. Asked + Owing + Answered <= Asked' + Owing' + Answered'
      BY <1>2, <2>1, WorkerAnswers DEF WorkerRuns
    <3>2. /\ Asked \in Nat /\ Answered \in Nat /\ inflight \in Nat
          /\ ChannelTypeOK'
      BY <1>2, OutstandingIs DEF TypeInv, TypeOK, AppTypeOK, ChannelTypeOK
    <3>3. Asked' \in Nat /\ Answered' \in Nat /\ Owing \in {0, 1} /\ Owing' \in {0, 1}
      <4>1. ChannelTypeOK' => (Asked \in Nat /\ Answered \in Nat)'
        BY OutstandingNat, PTL
      <4> QED BY <3>2, <4>1 DEF Owing
    <3>4. inflight <= Asked + Owing + Answered
      BY <1>2 DEF InflightBound, Outstanding, Owing
    <3>5. inflight <= Asked' + Owing' + Answered'
      <4>1. Owing \in Nat /\ Owing' \in Nat
        BY <3>3
      <4>2. PICK a1 \in Nat, w1 \in Nat, e1 \in Nat : a1 = Asked' /\ w1 = Owing' /\ e1 = Answered'
        BY <3>3, <4>1
      <4>3. Asked + Owing + Answered <= a1 + w1 + e1
        BY <3>1, <4>2
      <4>4. inflight <= a1 + w1 + e1
        BY <3>2, <3>4, <4>1, <4>3, CountArithmetic
      <4> QED BY <4>2, <4>4
    <3> QED BY <3>0, <3>5 DEF InflightBound, Outstanding, Owing
  <2>2. CASE HandleEvent
    BY <1>2, <2>2, InterfaceHears
  <2>3. CASE HandleKey \/ Leave
    BY <1>2, <2>3, InterfaceAsks
  <2>4. CASE ServerRuns \/ Wait \/ UNCHANGED vars
    <3>1. UNCHANGED <<requests, events, phase, inflight>>
      BY <2>4 DEF ServerRuns, ServerStep, Arrive, Expire, Wait, vars, channelVars, appVars, workerVars
    <3> QED BY <1>2, <3>1 DEF InflightBound, Outstanding, Busy, Asked, Answered
  <2> QED BY <1>2, <2>1, <2>2, <2>3, <2>4 DEF Next
<1> QED BY <1>1, <1>2, TypeCorrect, PTL DEF Spec

-----------------------------------------------------------------------------
(***************************************************************************)
(* Drafts.  Event::Posted names no draft, so the file deleted is whichever *)
(* is in the posting slot.  That is right as long as a draft is sent only  *)
(* when no earlier article is still in flight, on the channel, with the    *)
(* worker or among the answers; MCReaderDrafts shows that it is not right  *)
(* of two drafts in flight.                                                *)
(***************************************************************************)

PostPending ==
    \/ \E i \in DOMAIN requests : requests[i].type = "Post"
    \/ Busy /\ job.type = "Post"
    \/ \E i \in DOMAIN events : events[i].type = "Posted"

\* The user waits for the answer to one article before sending the next.
OnePosting ==
    [][\A draft \in Draft : \A groups \in SUBSET Group :
          ComposeSent(draft, groups) => ~PostPending]_vars

\* While the slot is taken, everything in flight is about the draft in it.
SlotIsInFlight ==
    posting # NoDraft =>
        /\ \A i \in DOMAIN requests : requests[i].type = "Post" => requests[i].draft = posting
        /\ Busy /\ job.type = "Post" => job.draft = posting
        /\ (\E i \in DOMAIN events : events[i].type = "Posted") => posting \in accepted

\* Nothing about an article enters the channels or the worker.
NoMorePosts ==
    /\ \A i \in DOMAIN requests' : requests'[i].type = "Post" =>
          \E j \in DOMAIN requests : requests[j] = requests'[i]
    /\ Busy' /\ job'.type = "Post" => Busy /\ job' = job
    /\ \A i \in DOMAIN events' : events'[i].type = "Posted" =>
          \E j \in DOMAIN events : events[j].type = "Posted"

\* A step that brings nothing new leaves the slot right, kept or released.
LEMMA SlotKept ==
    ASSUME SlotIsInFlight, DraftKept, NoMorePosts, accepted \subseteq accepted',
           posting' \in {posting, NoDraft}
    PROVE  SlotIsInFlight' /\ (drafts' = drafts => DraftKept')
  <1>1. DraftKept' \/ drafts' # drafts
    BY DEF DraftKept
  <1>2. SlotIsInFlight'
    BY DEF SlotIsInFlight, NoMorePosts
  <1> QED BY <1>1, <1>2

\* What sending a message adds to a channel and receiving one takes off it.
LEMMA QueueMembers ==
    ASSUME NEW S, NEW q \in Seq(S)
    PROVE  /\ \A x : \A i \in DOMAIN Append(q, x) :
                 \/ Append(q, x)[i] = x
                 \/ \E j \in DOMAIN q : q[j] = Append(q, x)[i]
           /\ q # <<>> => \A i \in DOMAIN Tail(q) : \E j \in DOMAIN q : q[j] = Tail(q)[i]
           /\ q # <<>> => \E j \in DOMAIN q : q[j] = Head(q)
  <1>1. ASSUME NEW x, NEW i \in DOMAIN Append(q, x)
        PROVE  \/ Append(q, x)[i] = x
               \/ \E j \in DOMAIN q : q[j] = Append(q, x)[i]
    <2>1. CASE i = Len(q) + 1
      BY <2>1
    <2>2. CASE i # Len(q) + 1
      <3>1. i \in DOMAIN q /\ Append(q, x)[i] = q[i]
        BY <2>2
      <3> QED BY <3>1
    <2> QED BY <2>1, <2>2
  <1>2. ASSUME q # <<>>, NEW i \in DOMAIN Tail(q)
        PROVE  \E j \in DOMAIN q : q[j] = Tail(q)[i]
    <2>1. i + 1 \in DOMAIN q /\ Tail(q)[i] = q[i + 1]
      BY <1>2
    <2> QED BY <2>1
  <1>3. ASSUME q # <<>> PROVE \E j \in DOMAIN q : q[j] = Head(q)
    <2>1. 1 \in DOMAIN q /\ q[1] = Head(q)
      BY <1>3
    <2> QED BY <2>1
  <1> QED BY <1>1, <1>2, <1>3

\* Taking a post makes it the job; the server's answer to it is sent once it is accepted
\* (worker.rs, post).
LEMMA WorkerPosts ==
    ASSUME TypeInv, SlotIsInFlight, DraftKept, WorkerStep, UNCHANGED <<posting, drafts>>
    PROVE  SlotIsInFlight' /\ DraftKept'
PROOF
<1> USE DEF jobVars, serverVars, channelVars
<1>0. requests \in Seq(Request) /\ events \in Seq(Event)
  BY DEF TypeInv, TypeOK
<1>1. accepted \subseteq accepted'
  BY DEF WorkerStep, Take, Stop, Reset, Connect, ConnectFails, Refuse, NotThere, Break, Drop, Abort,
     BeginBlock, List, PatternRefused, ListAll, Descriptions, DescriptionsRefused, OpenGroupSelect,
     Reselect, Over, Complete, Article, Post, PostLost
<1>2. ASSUME NoMorePosts PROVE SlotIsInFlight' /\ DraftKept'
  BY <1>1, <1>2, SlotKept
<1>3. ASSUME NEW ev, events' = Append(events, ev), ev.type # "Posted", UNCHANGED <<requests, job>>, Busy' => Busy
      PROVE  NoMorePosts
  BY <1>0, <1>3, QueueMembers DEF NoMorePosts
<1>4. ASSUME UNCHANGED <<requests, events, job>>, Busy' => Busy PROVE NoMorePosts
  BY <1>4 DEF NoMorePosts
<1>5. CASE Take
  <2>1. /\ requests # <<>> /\ requests' = Tail(requests) /\ job' = Head(requests)
        /\ UNCHANGED <<events, accepted>>
    BY <1>5 DEF Take
  <2>2. \A i \in DOMAIN requests' : \E j \in DOMAIN requests : requests[j] = requests'[i]
    BY <1>0, <2>1, QueueMembers
  <2>3. \E j \in DOMAIN requests : requests[j] = job'
    BY <1>0, <2>1, QueueMembers
  <2>4. SlotIsInFlight'
    BY <2>1, <2>2, <2>3 DEF SlotIsInFlight
  <2> QED BY <2>1, <2>4 DEF DraftKept
<1>6. CASE Stop
  <2>1. requests # <<>> /\ requests' = Tail(requests) /\ ~Busy'
        /\ events' = Append(events, [type |-> "Stopped"])
    BY <1>6 DEF Stop, Send, Busy
  <2>2. NoMorePosts
    BY <1>0, <2>1, QueueMembers DEF NoMorePosts
  <2> QED BY <1>2, <2>2
<1>7. CASE Connect
  BY <1>2, <1>3, <1>7 DEF Connect, Send, Busy
<1>8. CASE ConnectFails \/ Refuse \/ NotThere \/ Break \/ PostLost
  <2>1. NoMorePosts
    BY <1>3, <1>8 DEF ConnectFails, Refuse, NotThere, Break, PostLost, Send, Busy
  <2> QED BY <1>2, <2>1
<1>9. CASE Drop \/ Abort
  <2>1. NoMorePosts
    BY <1>3, <1>9 DEF Drop, Abort, Send, Busy
  <2> QED BY <1>2, <2>1
<1>10. CASE Reset \/ BeginBlock \/ List \/ PatternRefused \/ ListAll \/ Reselect
  <2>1. NoMorePosts
    BY <1>4, <1>10 DEF Reset, BeginBlock, List, PatternRefused, ListAll, Reselect, Ready, Reading, Busy
  <2> QED BY <1>2, <2>1
<1>11. CASE Descriptions \/ DescriptionsRefused
  <2> DEFINE ev == [type |-> "Groups", rows |-> RowsOf(job.scope), scope |-> job.scope]
  <2>1. (UNCHANGED events \/ events' = Append(events, ev)) /\ UNCHANGED <<requests, job>> /\ Busy
    BY <1>11 DEF Descriptions, DescriptionsRefused, AfterDescriptions, Send, Ready, Reading, Busy
  <2>2. ev.type # "Posted"
    OBVIOUS
  <2> HIDE DEF ev
  <2>3. NoMorePosts
    BY <1>3, <1>4, <2>1, <2>2
  <2> QED BY <1>2, <2>3
<1>12. CASE OpenGroupSelect
  <2> DEFINE ev == [type |-> "GroupOpened", group |-> job.group, token |-> job.token,
                    low |-> marks[job.group].low, high |-> marks[job.group].high]
  <2>1. events' = Append(events, ev) /\ UNCHANGED <<requests, job>> /\ Busy
    BY <1>12 DEF OpenGroupSelect, Send, Ready, Busy
  <2>2. ev.type # "Posted"
    OBVIOUS
  <2> HIDE DEF ev
  <2> QED BY <1>2, <1>3, <2>1, <2>2
<1>13. CASE Over
  <2>1. PICK records : events' = Append(events, [type |-> "OverviewChunk", group |-> job.group,
                                                 token |-> job.token, records |-> records])
    BY <1>13 DEF Over, Send
  <2> DEFINE ev == [type |-> "OverviewChunk", group |-> job.group,
                    token |-> job.token, records |-> records]
  <2>2. events' = Append(events, ev) /\ UNCHANGED <<requests, job>> /\ Busy /\ ev.type # "Posted"
    BY <1>13, <2>1 DEF Over, Reading, Busy
  <2> HIDE DEF ev
  <2> QED BY <1>2, <1>3, <2>2
<1>14. CASE Complete \/ Article
  <2>1. NoMorePosts
    BY <1>3, <1>14 DEF Complete, Article, Send, Reading, Busy
  <2> QED BY <1>2, <2>1
<1>15. CASE Post
  <2>1. /\ accepted' = accepted \cup {job.draft} /\ ~Busy' /\ UNCHANGED requests
        /\ events' = Append(events, [type |-> "Posted"])
    BY <1>15 DEF Post, Send, Busy
  <2>2. Busy /\ job.type = "Post"
    BY <1>15 DEF Post, Ready, Busy, TypeInv, WorkerConsistent
  <2>3. SlotIsInFlight'
    BY <2>1, <2>2 DEF SlotIsInFlight
  <2> QED BY <1>1, <2>3 DEF DraftKept
<1> QED BY <1>5, <1>6, <1>7, <1>8, <1>9, <1>10, <1>11, <1>12, <1>13, <1>14, <1>15 DEF WorkerStep

\* A draft enters the slot when it is sent, with nothing else in flight; the answer to
\* an article deletes the draft in the slot, any other end releases it (app.rs, on_composed,
\* on_event, report_unsent_draft).
LEMMA InterfacePosts ==
    ASSUME TypeInv, SlotIsInFlight, DraftKept, HandleKey \/ HandleEvent \/ Leave,
           \A draft \in Draft : \A groups \in SUBSET Group :
              ComposeSent(draft, groups) => ~PostPending
    PROVE  SlotIsInFlight' /\ DraftKept'
PROOF
<1> USE DEF workerVars, jobVars, serverVars, channelVars, appVars, sessionVars, draftVars, historyVars
<1>0. /\ requests \in Seq(Request) /\ events \in Seq(Event)
      /\ UNCHANGED <<accepted, job, phase>> /\ drafts \in [Draft -> DraftState]
  BY DEF TypeInv, TypeOK, AppTypeOK, HandleKey, HandleEvent, Leave
<1>1. ASSUME NoMorePosts, posting' \in {posting, NoDraft} PROVE SlotIsInFlight' /\ (drafts' = drafts => DraftKept')
  BY <1>0, <1>1, SlotKept
<1>2. ASSUME NEW r, requests' = Append(requests, r), r.type # "Post", UNCHANGED events
      PROVE  NoMorePosts
  BY <1>0, <1>2, QueueMembers DEF NoMorePosts, Busy
<1>3. ASSUME UNCHANGED <<requests, events>> PROVE NoMorePosts
  BY <1>0, <1>3 DEF NoMorePosts, Busy
<1>4. ASSUME events # <<>>, events' = Tail(events), UNCHANGED requests PROVE NoMorePosts
  BY <1>0, <1>4, QueueMembers DEF NoMorePosts, Busy
<1>5. CASE \E row \in rows : OpenGroup(row)
  <2>1. PICK row \in rows : OpenGroup(row)
    BY <1>5
  <2>2. NoMorePosts /\ UNCHANGED <<drafts, posting>>
    BY <1>2, <2>1 DEF OpenGroup, Issue
  <2> QED BY <1>1, <2>2
<1>6. CASE \E article \in articles : LoadArticle(article)
  <2>1. PICK article \in articles : LoadArticle(article)
    BY <1>6
  <2>2. NoMorePosts /\ UNCHANGED <<drafts, posting>>
    BY <1>2, <2>1 DEF LoadArticle, Issue
  <2> QED BY <1>1, <2>2
<1>7. CASE Reload \/ ReloadGroups \/ Quit \/ Close \/ \E scope \in GroupScope : SearchGroups(scope)
  <2>1. NoMorePosts /\ UNCHANGED <<drafts, posting>>
    BY <1>2, <1>7 DEF Reload, ReloadGroups, SearchGroups, Quit, Close, Issue
  <2> QED BY <1>1, <2>1
<1>8. CASE \/ \E row \in rows : OpenEmpty(row)
           \/ \E article \in articles : ToggleRead(article)
           \/ CatchUp \/ RequestCancellation \/ LastDrain \/ Exit
  <2>1. NoMorePosts /\ UNCHANGED <<drafts, posting>>
    BY <1>3, <1>8 DEF OpenEmpty, ToggleRead, CatchUp, RequestCancellation, LastDrain, Exit
  <2> QED BY <1>1, <2>1
<1>9. CASE \E draft \in Draft : ComposeAbandoned(draft) \/ ComposeKept(draft)
  <2>1. PICK draft \in Draft : ComposeAbandoned(draft) \/ ComposeKept(draft)
    BY <1>9
  <2>2. NoMorePosts /\ UNCHANGED posting
    BY <1>3, <2>1 DEF ComposeAbandoned, ComposeKept
  <2>3. drafts' = [drafts EXCEPT ![draft] = "abandoned"] \/ drafts' = [drafts EXCEPT ![draft] = "kept"]
    BY <2>1 DEF ComposeAbandoned, ComposeKept
  <2>4. DraftKept'
    BY <1>0, <2>3 DEF DraftKept
  <2> QED BY <1>1, <2>2, <2>4
<1>10. CASE \E draft \in Draft : \E groups \in SUBSET Group : ComposeSent(draft, groups)
  <2>1. PICK draft \in Draft, groups \in SUBSET Group : ComposeSent(draft, groups)
    BY <1>10
  <2>2. ~PostPending /\ posting' = draft /\ UNCHANGED events
        /\ requests' = Append(requests, [type |-> "Post", draft |-> draft])
        /\ drafts' = [drafts EXCEPT ![draft] = "kept"]
    BY <2>1 DEF ComposeSent, Issue
  <2>3. DraftKept'
    BY <1>0, <2>2 DEF DraftKept
  <2>4. \A i \in DOMAIN requests' : requests'[i].type = "Post" => requests'[i].draft = draft
    <3> DEFINE r == [type |-> "Post", draft |-> draft]
    <3>1. r.draft = draft /\ requests' = Append(requests, r)
      BY <2>2
    <3> HIDE DEF r
    <3>2. \A i \in DOMAIN requests' : requests'[i] = r \/ \E j \in DOMAIN requests : requests[j] = requests'[i]
      BY <1>0, <3>1, QueueMembers
    <3> QED BY <2>2, <3>1, <3>2 DEF PostPending
  <2>5. SlotIsInFlight'
    BY <1>0, <2>2, <2>4 DEF SlotIsInFlight, PostPending, Busy
  <2> QED BY <2>3, <2>5
<1>11. CASE OnPosted(phase = "stopped")
  <2>1. events # <<>> /\ Head(events).type = "Posted" /\ posting' = NoDraft
    BY <1>11 DEF OnPosted, Receive
  <2>2. \E i \in DOMAIN events : events[i].type = "Posted"
    BY <1>0, <2>1, QueueMembers
  <2>3. CASE posting = NoDraft
    <3>1. drafts' = drafts
      BY <1>11, <2>3 DEF OnPosted
    <3> QED BY <1>0, <2>1, <3>1 DEF DraftKept, SlotIsInFlight
  <2>4. CASE posting # NoDraft
    <3>1. drafts' = [drafts EXCEPT ![posting] = "discarded"] /\ posting \in accepted
      BY <1>11, <2>2, <2>4 DEF OnPosted, SlotIsInFlight
    <3> QED BY <1>0, <2>1, <3>1 DEF DraftKept, SlotIsInFlight
  <2> QED BY <2>3, <2>4
<1>12. CASE \/ OnConnected \/ OnGroups \/ OnGroupOpened \/ OnOverviewChunk \/ OnOverviewComplete
            \/ OnArticle \/ OnUnfinished("Cancelled") \/ OnUnfinished("Failed")
            \/ OnDisconnected \/ OnStopped
  <2>1. events # <<>> /\ events' = Tail(events) /\ UNCHANGED <<requests, drafts>>
        /\ posting' \in {posting, NoDraft}
    BY <1>12 DEF OnConnected, OnGroups, OnGroupOpened, OnOverviewChunk, OnOverviewComplete, OnArticle,
       OnUnfinished, OnDisconnected, OnStopped, Receive
  <2> QED BY <1>1, <1>4, <2>1
<1> QED BY <1>5, <1>6, <1>7, <1>8, <1>9, <1>10, <1>11, <1>12
    DEF HandleKey, HandleEvent, Leave, OnKey, OnEvent

(***************************************************************************)
(* A draft file is deleted only once the server has accepted that article, *)
(* whatever fails or is cancelled in between, as long as articles are sent *)
(* one at a time (compose.rs: the draft is kept until the article is       *)
(* posted; app.rs, Event::Posted).                                         *)
(***************************************************************************)
THEOREM DraftsOutlivePosting == Spec /\ OnePosting => []DraftKept
PROOF
<1> DEFINE Waits == \A draft \in Draft : \A groups \in SUBSET Group :
                       ComposeSent(draft, groups) => ~PostPending
<1>1. Init => SlotIsInFlight /\ DraftKept
  BY DEF Init, AppInit, SlotIsInFlight, DraftKept
<1>2. ASSUME TypeInv, SlotIsInFlight, DraftKept, [Next]_vars, [Waits]_vars
      PROVE  SlotIsInFlight' /\ DraftKept'
  <2>1. CASE WorkerRuns
    BY <1>2, <2>1, WorkerPosts DEF WorkerRuns, appVars, draftVars
  <2>2. CASE HandleKey \/ HandleEvent \/ Leave
    <3>1. CASE Waits
      BY <1>2, <2>2, <3>1, InterfacePosts
    <3>2. CASE UNCHANGED vars
      BY <1>2, <3>2 DEF vars, channelVars, appVars, workerVars, draftVars, jobVars, serverVars,
         SlotIsInFlight, DraftKept, Busy
    <3> QED BY <1>2, <3>1, <3>2
  <2>3. CASE ServerRuns \/ Wait \/ UNCHANGED vars
    <3>1. UNCHANGED <<requests, events, phase, job, accepted, posting, drafts>>
      BY <2>3 DEF ServerRuns, ServerStep, Arrive, Expire, Wait, vars, channelVars, appVars, workerVars,
         draftVars, jobVars, serverVars
    <3> QED BY <1>2, <3>1 DEF SlotIsInFlight, DraftKept, Busy
  <2> QED BY <1>2, <2>1, <2>2, <2>3 DEF Next
<1>3. OnePosting <=> [][Waits]_vars
  BY PTL DEF OnePosting
<1> HIDE DEF Waits
<1> QED BY <1>1, <1>2, <1>3, TypeCorrect, PTL DEF Spec

=============================================================================
