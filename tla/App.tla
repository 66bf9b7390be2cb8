-------------------------------- MODULE App --------------------------------
(***************************************************************************)
(* The interface thread: the state machine of tui/app.rs and the loop of   *)
(* tui/mod.rs that feeds it worker events and key presses.                 *)
(*                                                                         *)
(* One action per event handler (an arm of on_event) and per key that      *)
(* issues a request, changes read state, or raises the cancel flag.  Every *)
(* action is a whole pass through the handler, the requests it returns     *)
(* included.  The run loop drains the event channel before it reads a key, *)
(* but events keep arriving while it waits for that key, so a key may be   *)
(* handled with any number of events unread.                               *)
(*                                                                         *)
(* Not kept: focus, cursors, filter box, overlays and the screen.  Panes   *)
(* can be changed with Tab at any time, so "the row under the cursor" is   *)
(* any row, "the selected article" any listed article.                     *)
(***************************************************************************)
EXTENDS Protocol

CONSTANTS
    Keys,             \* the keys the user presses in this instance
    Subscribed,       \* groups the configured subscriptions match
    InitialArticles,  \* ui.initial_articles
    MarkReadOnOpen,   \* ui.mark_read_on_open
    MaxRequests       \* bound: requests the user's keys may issue

AllKeys == {"OpenGroup", "OpenEmpty", "LoadArticle", "Reload", "ReloadGroups", "Search",
            "Escape", "ToggleRead", "CatchUp", "Compose", "Quit"}

ASSUME KeysAssumption == Keys \subseteq AllKeys
ASSUME SubscribedAssumption == Subscribed \subseteq Group
ASSUME InitialArticlesAssumption == InitialArticles \in Nat
ASSUME MarkReadOnOpenAssumption == MarkReadOnOpen \in BOOLEAN
ASSUME MaxRequestsAssumption == MaxRequests \in Nat

VARIABLES
    ui,               \* "running", "leaving" (last drain done), "closed" (saved), "exited"
    should_quit,
    rows,             \* App.groups
    group_scope,
    group,            \* the selected group's summary; name = NoGroup for None
    articles,         \* the listed records
    overview_token,
    next_token,
    inflight,
    connected,
    read,             \* ReadStore: the articles marked read
    saved,            \* what save_if_dirty last wrote
    drafts,           \* each draft file: "unwritten", "kept", "abandoned", "discarded"
    posting,
    posting_groups,
    issued,           \* requests issued by keys, for MaxRequests
    wanted            \* history: the row the user activated last

sessionVars == <<rows, group_scope, group, articles, overview_token, next_token>>
draftVars == <<drafts, posting, posting_groups>>
readVars == <<read, saved>>
loopVars == <<ui, should_quit>>
historyVars == <<issued, wanted>>
appVars == <<sessionVars, draftVars, readVars, loopVars, historyVars, inflight, connected>>

DraftState == {"unwritten", "kept", "abandoned", "discarded"}
Summary == [name : Group \cup {NoGroup}, low : Nat, high : Nat]

AppTypeOK ==
    /\ ui \in {"running", "leaving", "closed", "exited"}
    /\ should_quit \in BOOLEAN
    /\ rows \subseteq GroupRow
    /\ group_scope \in GroupScope
    /\ group \in Summary
    /\ articles \subseteq ArticleId
    /\ overview_token \in FetchToken
    /\ next_token \in FetchToken
    /\ inflight \in Nat
    /\ connected \in BOOLEAN
    /\ read \subseteq ArticleId
    /\ saved \subseteq ArticleId
    /\ drafts \in [Draft -> DraftState]
    /\ posting \in Draft \cup {NoDraft}
    /\ posting_groups \subseteq Group
    /\ issued \in Nat
    /\ wanted \in Group \cup {NoGroup}

\* App::new, then initial_requests: the subscriptions are asked for at once.
AppInit ==
    /\ ui = "running"
    /\ should_quit = FALSE
    /\ rows = {}
    /\ group_scope = Subscribed
    /\ group = [name |-> NoGroup, low |-> 0, high |-> 0]
    /\ articles = {}
    /\ overview_token = 0
    /\ next_token = 0
    /\ inflight = 1
    /\ connected = FALSE
    /\ read = {}
    /\ saved = {}
    /\ drafts = [d \in Draft |-> "unwritten"]
    /\ posting = NoDraft
    /\ posting_groups = {}
    /\ issued = 0
    /\ wanted = NoGroup
    /\ requests = <<[type |-> "LoadGroups", scope |-> Subscribed]>>
    /\ events = <<>>
    /\ cancel = FALSE

-----------------------------------------------------------------------------
(* Helpers *)

\* Mutant: plain subtraction, where Disconnected has already zeroed the count.
PlainPred(n) == n - 1

SaturatingPred(n) == IF n = 0 THEN 0 ELSE n - 1

\* GroupSummary::range of the selected group is Some (the server's estimate of the number
\* of articles is taken to be 0 only when the watermarks leave room for none).
HasRange(summary) == summary.high > 0 /\ summary.low <= summary.high

\* Listed articles of one group with numbers in low..high.
Articles(g, low, high) == {<<g, n>> : n \in low..high}

\* The loop reads a key only while it has not been told to quit.
KeyPressed(key) == key \in Keys /\ ui = "running" /\ ~should_quit

\* A key handler returns one request, and inflight counts it.
Issue(request) ==
    /\ issued < MaxRequests
    /\ issued' = issued + 1
    /\ requests' = Append(requests, request)
    /\ inflight' = inflight + 1
    /\ UNCHANGED <<events, cancel>>

BeginOverviewFetch ==
    /\ next_token' = next_token + 1
    /\ overview_token' = next_token + 1

\* Mutant: the group name alone, as before fetches had tokens.
AcceptsByGroup(event) == group.name = event.group

\* accepts_overview: both the fetch and the group must still be the current ones.
AcceptsOverview(event) ==
    /\ overview_token # 0
    /\ overview_token = event.token
    /\ group.name = event.group

\* The loop's try_recv: the next event is of this type.
Receive(type) ==
    /\ ui = "running"
    /\ events # <<>>
    /\ Head(events).type = type
    /\ events' = Tail(events)
    /\ UNCHANGED cancel
-----------------------------------------------------------------------------
(* Keys *)

\* Mutant: the old list is left on screen until the first records arrive.
OpenGroupKeepsList(row) ==
    /\ KeyPressed("OpenGroup")
    /\ row \in rows
    /\ ~row.empty
    /\ wanted' = row.name
    /\ BeginOverviewFetch
    /\ Issue([type |-> "OpenGroup", group |-> row.name, count |-> InitialArticles,
              token |-> next_token + 1])
    /\ UNCHANGED <<rows, group_scope, group, articles, draftVars, readVars, loopVars, connected>>

\* Enter on a group that has articles.
OpenGroup(row) ==
    /\ KeyPressed("OpenGroup")
    /\ row \in rows
    /\ ~row.empty
    /\ articles' = {}
    /\ wanted' = row.name
    /\ BeginOverviewFetch
    /\ Issue([type |-> "OpenGroup", group |-> row.name, count |-> InitialArticles,
              token |-> next_token + 1])
    /\ UNCHANGED <<rows, group_scope, group, draftVars, readVars, loopVars, connected>>

\* Enter on an empty group: the list is cleared, nothing is asked for.
OpenEmpty(row) ==
    /\ KeyPressed("OpenEmpty")
    /\ row \in rows
    /\ row.empty
    /\ articles' = {}
    /\ wanted' = row.name
    /\ UNCHANGED <<rows, group_scope, group, overview_token, next_token, draftVars,
                   readVars, loopVars, issued, inflight, connected, channelVars>>

\* Enter on a listed article, or n / p on to it.
LoadArticle(article) ==
    /\ KeyPressed("LoadArticle")
    /\ article \in articles
    /\ group.name # NoGroup
    /\ Issue([type |-> "LoadArticle", group |-> group.name, number |-> article[2]])
    /\ UNCHANGED <<sessionVars, draftVars, readVars, loopVars, wanted, connected>>

\* r in the article or the body pane.
Reload ==
    /\ KeyPressed("Reload")
    /\ group.name # NoGroup
    /\ HasRange(group)
    /\ BeginOverviewFetch
    /\ Issue([type |-> "LoadOverview", group |-> group.name, token |-> next_token + 1,
              low |-> NewestFrom(group.low, group.high, InitialArticles),
              high |-> group.high])
    /\ UNCHANGED <<rows, group_scope, group, articles, draftVars, readVars, loopVars,
                   wanted, connected>>

\* r in the group pane.
ReloadGroups ==
    /\ KeyPressed("ReloadGroups")
    /\ Issue([type |-> "LoadGroups", scope |-> group_scope])
    /\ UNCHANGED <<sessionVars, draftVars, readVars, loopVars, wanted, connected>>

\* S: ask for everything, or for the groups the filter text matches.
SearchGroups(scope) ==
    /\ KeyPressed("Search")
    /\ group_scope' = scope
    /\ Issue([type |-> "LoadGroups", scope |-> scope])
    /\ UNCHANGED <<rows, group, articles, overview_token, next_token, draftVars, readVars,
                   loopVars, wanted, connected>>

\* Esc while something is outstanding.
RequestCancellation ==
    /\ KeyPressed("Escape")
    /\ inflight > 0
    /\ cancel' = TRUE
    /\ UNCHANGED <<appVars, requests, events>>

\* M: the article under the cursor, filed under the selected group.
ToggleRead(article) ==
    /\ KeyPressed("ToggleRead")
    /\ article \in articles
    /\ group.name # NoGroup
    /\ LET mark == <<group.name, article[2]>>
       IN  read' = IF mark \in read THEN read \ {mark} ELSE read \cup {mark}
    /\ UNCHANGED <<sessionVars, draftVars, saved, loopVars, historyVars, inflight, connected,
                   channelVars>>

\* c: the whole watermark range of the selected group.
CatchUp ==
    /\ KeyPressed("CatchUp")
    /\ group.name # NoGroup
    /\ HasRange(group)
    /\ read' = read \cup Articles(group.name, group.low, group.high)
    /\ UNCHANGED <<sessionVars, draftVars, saved, loopVars, historyVars, inflight, connected,
                   channelVars>>

\* w / f and the editor: compose() writes the file first, and removes it again only
\* if the template comes back untouched.
ComposeAbandoned(draft) ==
    /\ KeyPressed("Compose")
    /\ group.name # NoGroup
    /\ drafts[draft] = "unwritten"
    /\ drafts' = [drafts EXCEPT ![draft] = "abandoned"]
    /\ UNCHANGED <<sessionVars, posting, posting_groups, readVars, loopVars, historyVars,
                   inflight, connected, channelVars>>

\* The editor failed, or the draft has problems: the file stays, nothing is sent.
ComposeKept(draft) ==
    /\ KeyPressed("Compose")
    /\ group.name # NoGroup
    /\ drafts[draft] = "unwritten"
    /\ drafts' = [drafts EXCEPT ![draft] = "kept"]
    /\ UNCHANGED <<sessionVars, posting, posting_groups, readVars, loopVars, historyVars,
                   inflight, connected, channelVars>>

\* on_composed with a good draft; `groups` are those of its newsgroups that the server
\* carries (none of them, if the user wrote only others).
ComposeSent(draft, groups) ==
    /\ KeyPressed("Compose")
    /\ group.name # NoGroup
    /\ drafts[draft] = "unwritten"
    /\ drafts' = [drafts EXCEPT ![draft] = "kept"]
    /\ posting' = draft
    /\ posting_groups' = groups
    /\ Issue([type |-> "Post", draft |-> draft])
    /\ UNCHANGED <<sessionVars, readVars, loopVars, wanted, connected>>

\* q or Ctrl-C.
Quit ==
    /\ KeyPressed("Quit")
    /\ should_quit' = TRUE
    /\ requests' = Append(requests, [type |-> "Shutdown"])
    /\ UNCHANGED <<sessionVars, draftVars, readVars, ui, historyVars, inflight, connected,
                   events, cancel>>

-----------------------------------------------------------------------------
(* Events *)

OnConnected ==
    /\ Receive("Connected")
    /\ connected' = TRUE
    /\ UNCHANGED <<sessionVars, draftVars, readVars, loopVars, historyVars, inflight, requests>>

OnGroups ==
    /\ Receive("Groups")
    /\ inflight' = SaturatingPred(inflight)
    /\ rows' = Head(events).rows
    /\ group_scope' = Head(events).scope
    /\ UNCHANGED <<group, articles, overview_token, next_token, draftVars, readVars, loopVars,
                   historyVars, connected, requests>>

\* Read marks below the low watermark are forgotten, then the group becomes current.
OnGroupOpened ==
    /\ Receive("GroupOpened")
    /\ LET summary == Head(events)
       IN  /\ read' = {mark \in read : mark[1] = summary.group => mark[2] >= summary.low}
           /\ group' = [name |-> summary.group, low |-> summary.low, high |-> summary.high]
    /\ UNCHANGED <<rows, group_scope, articles, overview_token, next_token, draftVars, saved,
                   loopVars, historyVars, inflight, connected, requests>>

OnOverviewChunk ==
    /\ Receive("OverviewChunk")
    /\ articles' = IF AcceptsOverview(Head(events))
                    THEN articles \cup Head(events).records
                    ELSE articles
    /\ UNCHANGED <<rows, group_scope, group, overview_token, next_token, draftVars, readVars,
                   loopVars, historyVars, inflight, connected, requests>>

\* Mutant: a completion that is not wanted any more is dropped before it is counted.
OnCompleteUncounted ==
    /\ Receive("OverviewComplete")
    /\ inflight' = IF AcceptsOverview(Head(events)) THEN SaturatingPred(inflight) ELSE inflight
    /\ overview_token' = IF AcceptsOverview(Head(events)) THEN 0 ELSE overview_token
    /\ UNCHANGED <<rows, group_scope, group, articles, next_token, draftVars, readVars,
                   loopVars, historyVars, connected, requests>>

OnOverviewComplete ==
    /\ Receive("OverviewComplete")
    /\ inflight' = SaturatingPred(inflight)
    /\ overview_token' = IF AcceptsOverview(Head(events)) THEN 0 ELSE overview_token
    /\ UNCHANGED <<rows, group_scope, group, articles, next_token, draftVars, readVars,
                   loopVars, historyVars, connected, requests>>

\* The number comes from the article, the group is whatever is selected now.
OnArticle ==
    /\ Receive("Article")
    /\ inflight' = SaturatingPred(inflight)
    /\ read' = IF MarkReadOnOpen /\ group.name # NoGroup
               THEN read \cup {<<group.name, Head(events).number>>}
               ELSE read
    /\ UNCHANGED <<sessionVars, draftVars, saved, loopVars, historyVars, connected, requests>>

\* The draft in the posting slot is deleted; if the article went to the group on
\* screen the group is opened again (refresh_after_posting).
OnPosted(workerGone) ==
    /\ Receive("Posted")
    /\ drafts' = IF posting = NoDraft THEN drafts
                 ELSE [drafts EXCEPT ![posting] = "discarded"]
    /\ posting' = NoDraft
    /\ posting_groups' = {}
    /\ \/ /\ group.name \in posting_groups
          /\ BeginOverviewFetch
          /\ IF workerGone      \* the send fails and reports Disconnected
             THEN /\ inflight' = 0
                  /\ connected' = FALSE
                  /\ UNCHANGED requests
             ELSE /\ inflight' = SaturatingPred(inflight) + 1
                  /\ requests' = Append(requests, [type |-> "OpenGroup", group |-> group.name,
                                                   count |-> InitialArticles,
                                                   token |-> next_token + 1])
                  /\ UNCHANGED connected
       \/ /\ group.name \notin posting_groups
          /\ inflight' = SaturatingPred(inflight)
          /\ UNCHANGED <<overview_token, next_token, connected, requests>>
    /\ UNCHANGED <<rows, group_scope, group, articles, readVars, loopVars, historyVars>>

\* Mutant: the draft file goes with the posting slot.
OnUnfinishedDiscards(type) ==
    /\ Receive(type)
    /\ inflight' = SaturatingPred(inflight)
    /\ drafts' = [d \in Draft |-> IF d = posting THEN "discarded" ELSE drafts[d]]
    /\ posting' = NoDraft
    /\ UNCHANGED <<sessionVars, posting_groups, readVars, loopVars, historyVars, connected,
                   requests>>

\* Mutant: an error is reported, the request stays counted.
OnUnfinishedUncounted(type) ==
    /\ Receive(type)
    /\ posting' = NoDraft
    /\ UNCHANGED <<sessionVars, drafts, posting_groups, readVars, loopVars, historyVars,
                   inflight, connected, requests>>

\* Cancelled and Failed finish a request and let go of the posting slot
\* (report_unsent_draft); the draft file stays.
OnUnfinished(type) ==
    /\ Receive(type)
    /\ inflight' = SaturatingPred(inflight)
    /\ posting' = NoDraft
    /\ UNCHANGED <<sessionVars, drafts, posting_groups, readVars, loopVars, historyVars,
                   connected, requests>>

OnDisconnected ==
    /\ Receive("Disconnected")
    /\ inflight' = 0
    /\ connected' = FALSE
    /\ posting' = NoDraft
    /\ UNCHANGED <<sessionVars, drafts, posting_groups, readVars, loopVars, historyVars, requests>>

OnStopped ==
    /\ Receive("Stopped")
    /\ inflight' = 0
    /\ connected' = FALSE
    /\ UNCHANGED <<sessionVars, draftVars, readVars, loopVars, historyVars, requests>>

OnEvent(workerGone) ==
    \/ OnConnected
    \/ OnGroups
    \/ OnGroupOpened
    \/ OnOverviewChunk
    \/ OnOverviewComplete
    \/ OnArticle
    \/ OnPosted(workerGone)
    \/ OnUnfinished("Cancelled")
    \/ OnUnfinished("Failed")
    \/ OnDisconnected
    \/ OnStopped

-----------------------------------------------------------------------------
(* Leaving *)

\* The pass of the loop that finds should_quit first applies every pending event; what
\* arrives while it draws the last frame is not looked at any more.
LastDrain ==
    /\ ui = "running"
    /\ should_quit
    /\ events = <<>>
    /\ ui' = "leaving"
    /\ UNCHANGED <<sessionVars, draftVars, readVars, should_quit, historyVars, inflight,
                   connected, channelVars>>

\* Mutant: nothing is saved on the way out.
CloseUnsaved ==
    /\ ui = "leaving"
    /\ ui' = "closed"
    /\ requests' = Append(requests, [type |-> "Shutdown"])
    /\ UNCHANGED <<sessionVars, draftVars, readVars, should_quit, historyVars, inflight,
                   connected, events, cancel>>

\* The loop has returned: run() saves the read state and asks the worker to stop again.
Close ==
    /\ ui = "leaving"
    /\ ui' = "closed"
    /\ saved' = read
    /\ requests' = Append(requests, [type |-> "Shutdown"])
    /\ UNCHANGED <<sessionVars, draftVars, read, should_quit, historyVars, inflight, connected,
                   events, cancel>>

\* The worker is joined if it stopped within SHUTDOWN_GRACE and abandoned if not.
Exit ==
    /\ ui = "closed"
    /\ ui' = "exited"
    /\ UNCHANGED <<sessionVars, draftVars, readVars, should_quit, historyVars, inflight,
                   connected, channelVars>>

OnKey ==
    \/ \E row \in rows : OpenGroup(row) \/ OpenEmpty(row)
    \/ \E article \in articles : LoadArticle(article) \/ ToggleRead(article)
    \/ Reload
    \/ ReloadGroups
    \/ \E scope \in GroupScope : SearchGroups(scope)
    \/ RequestCancellation
    \/ CatchUp
    \/ \E draft \in Draft :
          \/ ComposeAbandoned(draft)
          \/ ComposeKept(draft)
          \/ \E groups \in SUBSET Group : ComposeSent(draft, groups)
    \/ Quit
=============================================================================
