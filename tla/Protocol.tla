------------------------------ MODULE Protocol ------------------------------
(***************************************************************************)
(* The two message channels and the cancel flag between the interface      *)
(* thread (module App) and the network worker thread (module Worker).      *)
(* Source: crates/nntp-tui/src/tui/protocol.rs, nntp-client/src/cancel.rs. *)
(*                                                                         *)
(* Data kept: which group, which fetch (token), which article numbers.     *)
(* Left out: texts (status, notes, greeting, descriptions) and             *)
(* Event::Progress, whose handler only overwrites the status line.         *)
(***************************************************************************)
EXTENDS Naturals, Sequences

CONSTANTS
    Group,        \* the newsgroups the server carries
    NoGroup,      \* Option::None where a group is expected
    Draft,        \* identities of the draft files compose() writes
    NoDraft       \* Option::None where a draft is expected

ASSUME NoGroupAssumption == NoGroup \notin Group
ASSUME NoDraftAssumption == NoDraft \notin Draft

VARIABLES
    requests,     \* mpsc channel interface -> worker, head is received next
    events,       \* mpsc channel worker -> interface
    cancel        \* the AtomicBool of nntp_client::Cancel

channelVars == <<requests, events, cancel>>

-----------------------------------------------------------------------------
\* An article is a number in a group: the same number in another group is
\* another article.
ArticleId == Group \X Nat

\* A row of the group list; empty is GroupRow::is_empty of its watermarks.
GroupRow == [name : Group, empty : BOOLEAN]

\* A scope is the set of groups its patterns match; Group itself stands for
\* GroupScope::everything(), the only scope sent to the server without a pattern.
GroupScope == SUBSET Group
IsNarrowed(scope) == scope # Group

\* FetchTokens count up from 1; 0 stands for None.
FetchToken == Nat

Request ==
    [type : {"LoadGroups"}, scope : GroupScope]
        \cup [type : {"OpenGroup"}, group : Group, count : Nat, token : FetchToken]
        \cup [type : {"LoadOverview"}, group : Group, token : FetchToken,
              low : Nat, high : Nat]
        \cup [type : {"LoadArticle"}, group : Group, number : Nat]
        \cup [type : {"Post"}, draft : Draft]
        \cup [type : {"Shutdown"}]

\* Two fields are not in the code and are read by no handler, only by the
\* properties: `token` of GroupOpened (the fetch it starts) and `group` of
\* Article (the group the server had selected when it sent the article).
Event ==
    [type : {"Connected", "Posted", "Cancelled", "Failed", "Disconnected", "Stopped"}]
        \cup [type : {"Groups"}, rows : SUBSET GroupRow, scope : GroupScope]
        \cup [type : {"GroupOpened"}, group : Group, token : FetchToken,
              low : Nat, high : Nat]
        \cup [type : {"OverviewChunk"}, group : Group, token : FetchToken,
              records : SUBSET ArticleId]
        \cup [type : {"OverviewComplete"}, group : Group, token : FetchToken]
        \cup [type : {"Article"}, group : Group, number : Nat]

\* The event that tells the interface its request is finished.
Terminal(event) ==
    event.type \in {"Groups", "OverviewComplete", "Article", "Posted", "Cancelled", "Failed"}

\* First article number of the newest `count` of low..high
\* (high.saturating_sub(count.saturating_sub(1)).max(low)).
NewestFrom(low, high, count) ==
    LET back == IF count = 0 THEN 0 ELSE count - 1
        from == IF high > back THEN high - back ELSE 0
    IN  IF from > low THEN from ELSE low
=============================================================================
