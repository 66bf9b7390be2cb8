-------------------------------- MODULE Panes --------------------------------
(***************************************************************************)
(* What the three panes show and where their cursors are: the part of      *)
(* tui/app.rs that module App leaves out, with the selections tui/ui.rs    *)
(* draws from it.                                                          *)
(*                                                                         *)
(* One server, one group with articles and one without.  The worker is its *)
(* queue of replies, answered in order; the replies of a superseded fetch, *)
(* which accepts_overview() drops, are taken out when the new fetch begins *)
(* (with one group, its GroupOpened changes nothing either).  Every        *)
(* key is followed by a draw, as in the run loop.                          *)
(*                                                                         *)
(* The filter is its length: a group passes it while its name or text      *)
(* contains what was typed, up to FilterReach characters of it.            *)
(***************************************************************************)
EXTENDS Threads

CONSTANTS
    Headers,        \* the overview record of each article number
    Chunks,         \* the sets of numbers a fetch answers with, newest first
    GroupLists,     \* the group lists the server may answer with
    EmptyGroups,    \* groups without articles
    FilterReach,    \* how much of the filter a group's name or text contains
    MaxFilter,      \* bound: longest filter typed
    BodyLines,      \* lines of each article's body
    OverlayLines,   \* lines of each overlay
    ListHeight,     \* rows of the group and article panes
    BodyHeight,     \* rows of the body pane
    OverlayHeight,  \* rows of an overlay
    MarkOnOpen,     \* mark_read_on_open
    Keyboards,      \* the sets of keys users of this instance press
    MaxReplies,     \* bound: replies outstanding
    MaxLoads        \* bound: articles among them

Numbers == DOMAIN Headers

ASSUME PanesAssumption ==
    /\ Numbers = 1..Len(Headers)
    /\ \A i \in DOMAIN Chunks : Chunks[i] \subseteq Numbers
    /\ ListHeight \in Nat \ {0} /\ BodyHeight \in Nat \ {0}
    /\ MarkOnOpen \in BOOLEAN

VARIABLES
    focus, overlay, overlay_scroll,
    group_rows, group_cursor, filter, editing_filter,
    opened,             \* App.group is Some
    listed,             \* App.articles, by number
    article_cursor, unread_only, threaded,
    thread_nodes,       \* App.threads, in the order walk() visits them
    collapsed, overview_chunks,
    marked,             \* the group's read set
    article,            \* the number on display, 0 for none
    body_scroll,
    replies,            \* what the worker has yet to answer, in order
    keyboard

groupPane == <<group_rows, group_cursor, filter, editing_filter>>
listPane == <<listed, article_cursor, unread_only, threaded, thread_nodes, collapsed>>
bodyPane == <<article, body_scroll>>
overlayVars == <<overlay, overlay_scroll>>
workerSide == <<opened, overview_chunks, replies>>
panesVars == <<focus, overlayVars, groupPane, listPane, bodyPane, workerSide,
               marked, keyboard>>

Pane == {"Groups", "Articles", "Body"}
NextPane(p) == CASE p = "Groups" -> "Articles" [] p = "Articles" -> "Body"
                 [] p = "Body" -> "Groups"
PreviousPane(p) == NextPane(NextPane(p))

\* shift(): cursors count from 0 and stop at both ends.
Shift(current, delta, count) ==
    IF count = 0 \/ current + delta < 0 THEN 0
    ELSE IF current + delta > count - 1 THEN count - 1 ELSE current + delta

Pred(n) == IF n = 0 THEN 0 ELSE n - 1      \* saturating_sub(1)
AtMost(n, m) == IF n < m THEN n ELSE m
AtLeast(n, m) == IF n > m THEN n ELSE m

Page == AtLeast(1, Pred(IF focus = "Body" THEN BodyHeight ELSE ListHeight))
Moves == {"down", "up", "pagedown", "pageup"}
Delta(key) == CASE key = "down" -> 1 [] key = "up" -> -1
                [] key = "pagedown" -> Page [] key = "pageup" -> -Page

-----------------------------------------------------------------------------
(* The rows of the lists. *)

VisibleIn(rows, typed) == SelectSeq(rows, LAMBDA g : FilterReach[g] >= typed)
VisibleGroups == VisibleIn(group_rows, filter)

IsUnread(n) == ~opened \/ n \notin marked
Drawn(n) == ~unread_only \/ IsUnread(n)

Row(n, replied) == [number |-> n, has_replies |-> replied]

\* Mutant: a fold applies whether or not its article is drawn.
FoldedAnyway(node) == node.number \in collapsed

\* A fold only applies to an article that is drawn.
Folded(node) == node.number \in collapsed /\ Drawn(node.number)

\* The entries of thread_nodes below entry i.
Below(i) ==
    {j \in i + 1..Len(thread_nodes) :
        \A k \in i + 1..j : thread_nodes[k].depth > thread_nodes[i].depth}

\* push_rows(), read off the nodes in the order it visits them.
ThreadRows ==
    LET folded == UNION {Below(i) : i \in {i \in DOMAIN thread_nodes : Folded(thread_nodes[i])}}
        shown == SelectSeq([i \in DOMAIN thread_nodes |-> i],
                           LAMBDA i : /\ thread_nodes[i].number # 0
                                      /\ Drawn(thread_nodes[i].number)
                                      /\ i \notin folded)
    IN  [r \in DOMAIN shown |-> Row(thread_nodes[shown[r]].number, Below(shown[r]) # {})]

FlatRows ==
    LET shown == SelectSeq(listed, Drawn)
    IN  [i \in DOMAIN shown |-> Row(shown[i], FALSE)]

ArticleRows == IF threaded THEN ThreadRows ELSE FlatRows

\* The article under the cursor, 0 for none.
SelectedArticle ==
    LET rows == ArticleRows
    IN  IF article_cursor < Len(rows) THEN rows[article_cursor + 1].number ELSE 0

\* The row of an article, counting from 0, or the default.
RowOf(rows, n, default) ==
    LET found == {i \in DOMAIN rows : rows[i].number = n}
    IN  IF found = {} THEN default ELSE Lowest(found) - 1

\* rebuild_threads()
RebuildThreads(numbers, grouped) ==
    IF grouped
    THEN LET visited == Walk(ThreadOf([i \in DOMAIN numbers |-> Headers[numbers[i]]]))
         IN  [i \in DOMAIN visited |->
                [number |-> IF visited[i].article = 0 THEN 0 ELSE numbers[visited[i].article],
                 depth |-> visited[i].depth]]
    ELSE <<>>

\* Every assignment below that ends in the rows of the new state puts the cursor
\* last, so that it reads the new rows.
ClampArticleCursor == article_cursor' = AtMost(article_cursor, Pred(Len(ArticleRows')))

-----------------------------------------------------------------------------
(* The requests the panes issue. *)

Reply(type, numbers) == [type |-> type, numbers |-> numbers]
Ask(queue, asked) == Len(queue \o asked) <= MaxReplies /\ replies' = queue \o asked

FetchReplies == {"opened", "chunk", "complete"}

\* begin_overview_fetch(): what is left of the fetch before is of no use.
Fetch(first) ==
    /\ Ask(SelectSeq(replies, LAMBDA r : r.type \notin FetchReplies),
           first \o [i \in DOMAIN Chunks |-> Reply("chunk", Chunks[i])]
                 \o <<Reply("complete", {})>>)
    /\ overview_chunks' = 0

Pressed(key) == key \in keyboard /\ ~editing_filter /\ overlay = "None"

\* Enter on a group.
Activate ==
    /\ Pressed("enter") /\ focus = "Groups"
    /\ group_cursor < Len(VisibleGroups)
    /\ listed' = <<>> /\ thread_nodes' = <<>> /\ collapsed' = {} /\ article' = 0
    /\ IF VisibleGroups[group_cursor + 1] \in EmptyGroups
       THEN UNCHANGED <<article_cursor, overview_chunks, replies>>
       ELSE article_cursor' = 0 /\ Fetch(<<Reply("opened", {})>>)
    /\ UNCHANGED <<focus, overlayVars, groupPane, unread_only, threaded, body_scroll,
                   opened, marked, keyboard>>

LoadSelected(n) ==
    /\ Cardinality({i \in DOMAIN replies : replies[i].type = "article"}) < MaxLoads
    /\ Ask(replies, <<Reply("article", {n})>>)

\* Enter on an article.
OpenSelected ==
    /\ Pressed("enter") /\ focus = "Articles"
    /\ SelectedArticle # 0 /\ opened
    /\ LoadSelected(SelectedArticle)
    /\ UNCHANGED <<focus, overlayVars, groupPane, listPane, bodyPane, opened,
                   overview_chunks, marked, keyboard>>

\* n and p.  An article is listed only once its group is open, so it can be loaded.
StepArticle(key, delta) ==
    /\ Pressed(key)
    /\ article_cursor + delta \in 0..(Len(ArticleRows) - 1)
    /\ article_cursor' = article_cursor + delta
    /\ LoadSelected(ArticleRows[article_cursor + delta + 1].number)
    /\ UNCHANGED <<focus, overlayVars, groupPane, listed, unread_only, threaded,
                   thread_nodes, collapsed, bodyPane, opened, overview_chunks,
                   marked, keyboard>>

\* r
Refresh ==
    /\ Pressed("r")
    /\ \/ /\ focus = "Groups"
          /\ Ask(replies, <<Reply("groups", {})>>)
          /\ UNCHANGED overview_chunks
       \/ /\ focus # "Groups" /\ opened
          /\ Fetch(<<>>)
    /\ UNCHANGED <<focus, overlayVars, groupPane, listPane, bodyPane, opened,
                   marked, keyboard>>

-----------------------------------------------------------------------------
(* What arrives. *)

Arrives(type) == replies # <<>> /\ Head(replies).type = type /\ replies' = Tail(replies)

OnOpened ==
    /\ Arrives("opened")
    /\ opened' = TRUE
    /\ UNCHANGED <<focus, overlayVars, groupPane, listPane, bodyPane, overview_chunks,
                   marked, keyboard>>

\* The records go in front when they are all older, else the two are merged.
Merged(records) ==
    IF listed = <<>> \/ records[Len(records)] < listed[1]
    THEN records \o listed
    ELSE SetToSortSeq(ToSet(records) \cup ToSet(listed), <)

\* Mutant: the cursor keeps its row, whatever row its article is on now.
PlaceOfRow(rows, pinned, anchor) == IF pinned THEN Pred(Len(rows)) ELSE article_cursor

\* A cursor on the last row stays on the last row, another on its article.
Place(rows, pinned, anchor) ==
    IF pinned
    THEN Pred(Len(rows))
    ELSE RowOf(rows, anchor, AtMost(article_cursor, Pred(Len(rows))))

\* absorb_overview() and the focus of a fetch's first chunk.
OnChunk ==
    /\ Arrives("chunk")
    /\ opened
    /\ LET records == SetToSortSeq(Head(replies).numbers, <)
       IN  IF records = <<>>
           THEN UNCHANGED listPane
           ELSE /\ listed' = Merged(records)
                /\ thread_nodes' = RebuildThreads(listed', threaded)
                /\ UNCHANGED <<unread_only, threaded, collapsed>>
    /\ UNCHANGED <<overlayVars, groupPane, bodyPane, opened, marked, keyboard>>
    /\ focus' = IF overview_chunks = 0 THEN "Articles" ELSE focus
    /\ overview_chunks' = overview_chunks + 1
    /\ Head(replies).numbers # {} =>
           article_cursor' = Place(ArticleRows', article_cursor + 1 >= Len(ArticleRows),
                                   SelectedArticle)

OnComplete ==
    /\ Arrives("complete")
    /\ focus' = "Articles"
    /\ UNCHANGED <<overlayVars, groupPane, listPane, bodyPane, opened, overview_chunks,
                   marked, keyboard>>

OnArticle ==
    /\ Arrives("article")
    /\ \E n \in Head(replies).numbers :
          /\ article' = n
          /\ marked' = IF MarkOnOpen /\ opened THEN marked \cup {n} ELSE marked
    /\ body_scroll' = 0
    /\ focus' = "Body"
    /\ UNCHANGED <<overlayVars, groupPane, listPane, opened, overview_chunks, keyboard>>

\* Mutant: the cursor of the list before is kept.
GroupsKeepCursor(rows) == group_rows' = rows /\ UNCHANGED group_cursor

GroupsReplaced(rows) == group_rows' = rows /\ group_cursor' = 0

OnGroups ==
    /\ Arrives("groups")
    /\ \E rows \in GroupLists : GroupsReplaced(rows)
    /\ UNCHANGED <<focus, overlayVars, filter, editing_filter, listPane, bodyPane,
                   opened, overview_chunks, marked, keyboard>>

\* Failed and Cancelled: nothing more of the request arrives.
OnFailed ==
    /\ replies # <<>>
    /\ LET last == IF Head(replies).type \in FetchReplies
                   THEN Lowest({i \in DOMAIN replies : replies[i].type = "complete"}
                               \cup {Len(replies)})
                   ELSE 1
       IN  replies' = SubSeq(replies, last + 1, Len(replies))
    /\ UNCHANGED <<focus, overlayVars, groupPane, listPane, bodyPane, opened,
                   overview_chunks, marked, keyboard>>

-----------------------------------------------------------------------------
(* Keys that move around. *)

Focus ==
    /\ \/ Pressed("tab") /\ focus' = NextPane(focus)
       \/ Pressed("backtab") /\ focus' = PreviousPane(focus)
    /\ UNCHANGED <<overlayVars, groupPane, listPane, bodyPane, workerSide, marked, keyboard>>

\* Esc with nothing outstanding; with something outstanding it cancels (App).
Escape ==
    /\ Pressed("esc") /\ replies = <<>>
    /\ IF filter = 0
       THEN focus' = "Groups" /\ UNCHANGED <<filter, group_cursor>>
       ELSE filter' = 0 /\ group_cursor' = 0 /\ UNCHANGED focus
    /\ UNCHANGED <<overlayVars, group_rows, editing_filter, listPane, bodyPane,
                   workerSide, marked, keyboard>>

Lines == IF article = 0 THEN 0 ELSE BodyLines[article]
ScrollBody(delta) == Shift(body_scroll, delta, AtLeast(1, Lines))

\* j, k and the page keys; Enter in the body pane.
MoveCursor ==
    /\ \E key \in Moves \cup {"enter"} :
          /\ Pressed(key)
          /\ LET delta == IF key = "enter" THEN 1 ELSE Delta(key)
             IN  \/ /\ focus = "Groups" /\ key # "enter"
                    /\ group_cursor' = Shift(group_cursor, delta, Len(VisibleGroups))
                    /\ UNCHANGED <<article_cursor, body_scroll>>
                 \/ /\ focus = "Articles" /\ key # "enter"
                    /\ article_cursor' = Shift(article_cursor, delta, Len(ArticleRows))
                    /\ UNCHANGED <<group_cursor, body_scroll>>
                 \/ /\ focus = "Body"
                    /\ body_scroll' = ScrollBody(delta)
                    /\ UNCHANGED <<group_cursor, article_cursor>>
    /\ UNCHANGED <<focus, overlayVars, group_rows, filter, editing_filter, listed,
                   unread_only, threaded, thread_nodes, collapsed, article, workerSide,
                   marked, keyboard>>

\* g and G
MoveToEnds ==
    /\ \E key \in {"home", "end"} :
          /\ Pressed(key)
          /\ LET end(n) == IF key = "end" THEN n ELSE 0
             IN  /\ group_cursor' = IF focus = "Groups"
                                    THEN end(Pred(Len(VisibleGroups))) ELSE group_cursor
                 /\ article_cursor' = IF focus = "Articles"
                                      THEN end(Pred(Len(ArticleRows))) ELSE article_cursor
                 /\ body_scroll' = IF focus = "Body"
                                   THEN end(AtLeast(0, Lines - BodyHeight)) ELSE body_scroll
    /\ UNCHANGED <<focus, overlayVars, group_rows, filter, editing_filter, listed,
                   unread_only, threaded, thread_nodes, collapsed, article, workerSide,
                   marked, keyboard>>

-----------------------------------------------------------------------------
(* Keys that change what the article list shows. *)

listShape == <<focus, overlayVars, groupPane, bodyPane, workerSide, keyboard>>

\* u
ToggleUnreadOnly ==
    /\ Pressed("u")
    /\ unread_only' = ~unread_only
    /\ UNCHANGED <<listShape, listed, threaded, thread_nodes, collapsed, marked>>
    /\ article_cursor' = RowOf(ArticleRows', SelectedArticle, Pred(Len(ArticleRows')))

\* t
ToggleThreading ==
    /\ Pressed("t")
    /\ threaded' = ~threaded
    /\ thread_nodes' = RebuildThreads(listed, ~threaded)
    /\ UNCHANGED <<listShape, listed, unread_only, collapsed, marked>>
    /\ article_cursor' = RowOf(ArticleRows', SelectedArticle, Pred(Len(ArticleRows')))

\* z
ToggleFold ==
    /\ Pressed("z")
    /\ threaded /\ SelectedArticle # 0
    /\ ArticleRows[article_cursor + 1].has_replies
    /\ collapsed' = IF SelectedArticle \in collapsed
                    THEN collapsed \ {SelectedArticle}
                    ELSE collapsed \cup {SelectedArticle}
    /\ UNCHANGED <<listShape, listed, unread_only, threaded, thread_nodes, marked>>
    /\ article_cursor' = AtMost(RowOf(ArticleRows', SelectedArticle, article_cursor),
                                Pred(Len(ArticleRows')))

\* M
ToggleRead ==
    /\ Pressed("M")
    /\ SelectedArticle # 0 /\ opened
    /\ marked' = IF IsUnread(SelectedArticle)
                 THEN marked \cup {SelectedArticle} ELSE marked \ {SelectedArticle}
    /\ UNCHANGED <<listShape, listed, unread_only, threaded, thread_nodes, collapsed>>
    /\ ClampArticleCursor

\* c
CatchUp ==
    /\ Pressed("c") /\ opened
    /\ marked' = Numbers
    /\ UNCHANGED <<listShape, listed, unread_only, threaded, thread_nodes, collapsed>>
    /\ ClampArticleCursor

-----------------------------------------------------------------------------
(* The filter box and the overlays. *)

groupsOnly == <<overlayVars, group_rows, listPane, bodyPane, workerSide, marked, keyboard>>

OpenFilter ==
    /\ Pressed("/")
    /\ editing_filter' = TRUE /\ focus' = "Groups"
    /\ UNCHANGED <<groupsOnly, filter, group_cursor>>

\* Any change of the filter puts the cursor on the first group it leaves.
FilterIs(typed) == filter' = typed /\ group_cursor' = 0

FilterKey(key) == key \in keyboard /\ editing_filter

FilterText ==
    /\ \/ FilterKey("esc") /\ editing_filter' = FALSE /\ FilterIs(0)
       \/ FilterKey("backspace") /\ FilterIs(Pred(filter)) /\ UNCHANGED editing_filter
       \/ FilterKey("char") /\ filter < MaxFilter /\ FilterIs(filter + 1)
          /\ UNCHANGED editing_filter
       \/ FilterKey("enter") /\ editing_filter' = FALSE /\ UNCHANGED <<filter, group_cursor>>
    /\ UNCHANGED <<groupsOnly, focus>>

\* The arrows move the group cursor wherever an arriving reply put the focus.
FilterMove ==
    /\ \/ \E key \in Moves :
             /\ FilterKey(key)
             /\ group_cursor' = Shift(group_cursor, Delta(key), Len(VisibleGroups))
       \/ FilterKey("home") /\ group_cursor' = 0
       \/ FilterKey("end") /\ group_cursor' = Pred(Len(VisibleGroups))
    /\ UNCHANGED <<groupsOnly, focus, filter, editing_filter>>

beneath == <<focus, groupPane, listPane, bodyPane, workerSide, marked, keyboard>>

Overlays == DOMAIN OverlayLines

\* draw_overlay() brings the scroll back inside the text and reports it.
MaxScroll(name) == AtLeast(0, OverlayLines[name] - OverlayHeight)
Scrolled(name, scroll) == AtMost(scroll, MaxScroll(name))

OverlayPage == AtLeast(1, BodyHeight - 2)

OpenOverlay ==
    /\ \E name \in Overlays : Pressed(name) /\ overlay' = name
    /\ overlay_scroll' = Scrolled(overlay', overlay_scroll)
    /\ UNCHANGED beneath

OverlayKey(key) == key \in keyboard /\ ~editing_filter /\ overlay # "None"

CloseOverlay ==
    /\ \E key \in {"esc", "enter", overlay} : OverlayKey(key)
    /\ overlay' = "None" /\ overlay_scroll' = 0
    /\ UNCHANGED beneath

SwitchOverlay ==
    /\ \E name \in Overlays \ {overlay} : OverlayKey(name) /\ overlay' = name
    /\ overlay_scroll' = 0
    /\ UNCHANGED beneath

OverlayDelta(key) == CASE key = "down" -> 1 [] key = "up" -> -1
                       [] key = "pagedown" -> OverlayPage [] key = "pageup" -> -OverlayPage

ScrollOverlay ==
    /\ \/ \E key \in Moves :
             /\ OverlayKey(key)
             /\ overlay_scroll' = Scrolled(overlay,
                                     AtLeast(0, overlay_scroll + OverlayDelta(key)))
       \/ OverlayKey("home") /\ overlay_scroll' = 0
       \/ OverlayKey("end") /\ overlay_scroll' = MaxScroll(overlay)
    /\ UNCHANGED <<overlay, beneath>>

-----------------------------------------------------------------------------
PanesInit ==
    /\ keyboard \in Keyboards
    /\ focus = "Groups" /\ overlay = "None" /\ overlay_scroll = 0
    /\ group_rows = <<>> /\ group_cursor = 0 /\ filter = 0 /\ editing_filter = FALSE
    /\ opened = FALSE /\ listed = <<>> /\ article_cursor = 0
    /\ unread_only = FALSE /\ threaded = FALSE /\ thread_nodes = <<>> /\ collapsed = {}
    /\ overview_chunks = 0 /\ marked = {} /\ article = 0 /\ body_scroll = 0
    /\ replies = <<Reply("groups", {})>>

PanesNext ==
    \/ Activate \/ OpenSelected \/ StepArticle("n", 1) \/ StepArticle("p", -1) \/ Refresh
    \/ OnOpened \/ OnChunk \/ OnComplete \/ OnArticle \/ OnGroups \/ OnFailed
    \/ Focus \/ Escape \/ MoveCursor \/ MoveToEnds
    \/ ToggleUnreadOnly \/ ToggleThreading \/ ToggleFold \/ ToggleRead \/ CatchUp
    \/ OpenFilter \/ FilterText \/ FilterMove
    \/ OpenOverlay \/ CloseOverlay \/ SwitchOverlay \/ ScrollOverlay

PanesSpec == PanesInit /\ [][PanesNext]_panesVars

-----------------------------------------------------------------------------
(* What the panes promise. *)

\* The group drawn as selected is the one Enter opens: the cursor never points
\* past what the filter leaves (filter_key(), draw_groups()).
GroupUnderCursor == VisibleGroups # <<>> => group_cursor < Len(VisibleGroups)

\* The type of every part of the panes.  Cursors and scrolls never leave what
\* they are about by more than the rows it may hold, the group cursor not at all.
PanesTypeOK ==
    /\ GroupUnderCursor
    /\ focus \in Pane /\ overlay \in Overlays \cup {"None"}
    /\ overlay_scroll \in 0..(IF overlay = "None" THEN 0 ELSE MaxScroll(overlay))
    /\ group_rows \in GroupLists \cup {<<>>} /\ filter \in 0..MaxFilter
    /\ {editing_filter, opened, unread_only, threaded} \subseteq BOOLEAN
    /\ article_cursor \in 0..Len(Headers) /\ collapsed \subseteq Numbers
    /\ marked \subseteq Numbers /\ article \in Numbers \cup {0}
    /\ article # 0 => body_scroll \in 0..Pred(BodyLines[article])
    /\ replies \in Seq([type : FetchReplies \cup {"article", "groups"},
                        numbers : SUBSET Numbers])

\* The list stays in number order with each article once, however chunks of
\* a reload overlap what is on screen: absorb_overview()'s way of putting a
\* chunk in front relies on it.
ListInOrder == \A i, j \in DOMAIN listed : i < j => listed[i] < listed[j]

\* The list is in order, and everything the filter lets through is on screen
\* once, or under a fold that is: the cached tree is never that of another list,
\* and a fold made on an article the unread filter hides cannot hide its unread
\* replies (article_rows(), push_rows(), rebuild_threads()).
RowsAccounted ==
    LET rows == ArticleRows
        shown == {rows[i].number : i \in DOMAIN rows}
        passing == {n \in ToSet(listed) : Drawn(n)}
        folds == {i \in DOMAIN thread_nodes : thread_nodes[i].number \in shown \cap collapsed}
        folded == {thread_nodes[j].number : j \in UNION {Below(i) : i \in folds}}
    IN  /\ ListInOrder
        /\ Cardinality(shown) = Len(rows)
        /\ shown \subseteq passing
        /\ passing \subseteq shown \cup folded

\* A step that changes which rows the list has, or their order.
Reshaped == \/ unread_only' # unread_only \/ threaded' # threaded
            \/ collapsed' # collapsed
            \/ listed' # listed /\ article_cursor + 1 < Len(ArticleRows)

\* Arriving records and the keys that reshape the list leave the reader's
\* place on its article as long as that article is listed; only a cursor on
\* the last row follows the list's end when records arrive
\* (absorb_overview(), toggle_unread_only(), toggle_threading(),
\* toggle_fold_under_cursor()).
PlaceKept ==
    [][ Reshaped /\ listed' # <<>> =>
            LET place == SelectedArticle
                rows == ArticleRows'
            IN  (\E i \in DOMAIN rows : rows[i].number = place) => SelectedArticle' = place
      ]_panesVars

\* The row draw_articles() highlights: the last one when the cursor is past it.
Highlighted == AtMost(article_cursor, Pred(Len(ArticleRows)))

\* The article drawn as selected is the one Enter opens (clamp_article_cursor(),
\* draw_articles()).
ArticleUnderCursor ==
    ArticleRows # <<>> => SelectedArticle = ArticleRows[Highlighted + 1].number
=============================================================================
