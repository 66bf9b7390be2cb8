------------------------------- MODULE Threads -------------------------------
(***************************************************************************)
(* nntp-proto/src/thread.rs: the arena of containers and what is done to   *)
(* it.  Threading runs these steps one by one; Panes calls thread() as a   *)
(* whole.                                                                  *)
(*                                                                         *)
(* A container is an index into arena.containers, 0 is Rust's None, and    *)
(* record indexes start at 1.  A subject is a sequence of tokens: the      *)
(* reply markers and list tags normalise_subject() strips, then words.     *)
(***************************************************************************)
EXTENDS Integers, Sequences, FiniteSets, SequencesExt

CONSTANTS
    MessageIds,     \* the message-ids records carry and refer to
    NoId,           \* a record without a message-id
    MaxReferences,  \* MAX_REFERENCES
    MaxDepth        \* MAX_DEPTH

ASSUME ThreadsAssumption ==
    /\ NoId \notin MessageIds
    /\ MaxReferences \in Nat \ {0}
    /\ MaxDepth \in Nat \ {0}

Container(article) == [article |-> article, parent |-> 0, children |-> <<>>]

Size(a) == Len(a.containers)
ArticleOf(a, c) == a.containers[c].article
ParentOf(a, c) == a.containers[c].parent
ChildrenOf(a, c) == a.containers[c].children

NewContainer(a, article) ==
    [a EXCEPT !.containers = Append(@, Container(article))]

\* by_id is a partial function: a HashMap.
Claim(a, id, c) ==
    [a EXCEPT !.by_id = [i \in DOMAIN @ \cup {id} |-> IF i = id THEN c ELSE @[i]]]

-----------------------------------------------------------------------------
(* The tree the containers form. *)

\* Climb(a, c)[k] is the container k parent links above c, 0 past the top.
Climb(a, c) ==
    LET up[k \in 0..Size(a) + 1] ==
            IF k = 0 THEN c
            ELSE LET below == up[k - 1] IN IF below = 0 THEN 0 ELSE ParentOf(a, below)
    IN  up

\* is_ancestor(): the walk is cut at the number of containers, and then says yes.
IsAncestor(a, candidate, c) ==
    LET up == Climb(a, c)
    IN  \/ \E k \in 0..Size(a) : up[k] = candidate
        \/ up[Size(a) + 1] # 0

\* Everything reached from c through the children, c included.
Subtree(a, c) ==
    LET down[k \in 0..Size(a)] ==
            IF k = 0 THEN {c}
            ELSE LET above == down[k - 1]
                 IN  above \cup UNION {ToSet(ChildrenOf(a, d)) : d \in above}
    IN  down[Size(a)]

\* The lowest record index of a set of articles, 0 for none.
Lowest(articles) ==
    IF articles = {} THEN 0 ELSE CHOOSE x \in articles : \A y \in articles : x <= y

FirstArticle(a, c) ==
    Lowest({ArticleOf(a, d) : d \in Subtree(a, c)} \ {0})

-----------------------------------------------------------------------------
(* insert() and link_references() *)

\* Mutant: a second record with a claimed id is merged into the first.
InsertedMerged(a, index, id) ==
    LET c == Size(a) + 1
        new == [NewContainer(a, index) EXCEPT !.by_article = Append(@, c)]
    IN  IF id = NoId THEN new
        ELSE IF id \in DOMAIN a.by_id
        THEN [a EXCEPT !.by_article = Append(@, a.by_id[id])]
        ELSE Claim(new, id, c)

\* One record: a claimed id, or none, gives the record a container of its own
\* that nothing can refer to.
Inserted(a, index, id) ==
    LET c == Size(a) + 1
        new == [NewContainer(a, index) EXCEPT !.by_article = Append(@, c)]
    IN  IF id = NoId \/ id \in DOMAIN a.by_id THEN new ELSE Claim(new, id, c)

ContainerForId(a, id) ==
    IF id \in DOMAIN a.by_id
    THEN a
    ELSE Claim(NewContainer(a, 0), id, Size(a) + 1)

\* Mutant: nobody asks whether the parent descends from the child.
SetParentUnchecked(a, child, parent) ==
    IF child = parent \/ ParentOf(a, child) # 0
    THEN a
    ELSE [a EXCEPT !.containers[child].parent = parent,
                   !.containers[parent].children = Append(@, child)]

\* The first link wins, and a link that would close a loop is left out.
SetParent(a, child, parent) ==
    IF \/ child = parent
       \/ ParentOf(a, child) # 0
       \/ IsAncestor(a, child, parent)
    THEN a
    ELSE [a EXCEPT !.containers[child].parent = parent,
                   !.containers[parent].children = Append(@, child)]

\* The references considered: the last MaxReferences of the header.
Considered(references) ==
    LET n == Len(references)
    IN  IF n > MaxReferences
        THEN SubSeq(references, n - MaxReferences + 1, n)
        ELSE references

-----------------------------------------------------------------------------
(* roots(), normalise_subject(), clamp_depth() and build() *)

\* sort_by_key(): containers in the order of their keys, equal ones by index.
SortedBy(S, key) ==
    LET before(c) == {d \in S : key[d] < key[c] \/ (key[d] = key[c] /\ d < c)}
    IN  [i \in 1..Cardinality(S) |-> CHOOSE c \in S : Cardinality(before(c)) = i - 1]

\* The containers without a parent that hold an article, oldest first.
RootsOf(a) ==
    LET roots == {c \in 1..Size(a) : ParentOf(a, c) = 0 /\ FirstArticle(a, c) # 0}
    IN  SortedBy(roots, [c \in roots |-> FirstArticle(a, c)])

ReplyMarkers == {"re"}
ListTags == {"tag"}

\* normalise_subject(): the markers and tags in front are stripped.
Stripped(subject) ==
    Lowest({i \in 1..Len(subject) : subject[i] \notin ReplyMarkers \cup ListTags}
           \cup {Len(subject) + 1}) - 1
NormaliseSubject(subject) == SubSeq(subject, Stripped(subject) + 1, Len(subject))
IsReply(subject) == \E i \in 1..Stripped(subject) : subject[i] \in ReplyMarkers

\* The containers n levels below the roots.
AtLevel(a, roots, n) ==
    LET at[k \in 0..n] ==
            IF k = 0 THEN ToSet(roots)
            ELSE UNION {ToSet(ChildrenOf(a, c)) : c \in at[k - 1]}
    IN  at[n]

\* A node on the last level that may have replies adopts everything below it;
\* the adopted have no children left when they are sorted.
LastLevel == MaxDepth - 1

Clamped(a, roots) ==
    LET adopters == AtLevel(a, roots, LastLevel)
        below(c) == Subtree(a, c) \ {c}
        adopter(d) == CHOOSE c \in adopters : d \in below(c)
        adopted == UNION {below(c) : c \in adopters}
        sorted(c) == SortedBy(below(c), [d \in below(c) |-> ArticleOf(a, d)])
    IN  [a EXCEPT !.containers =
            [c \in 1..Size(a) |->
               CASE c \in adopters -> [@[c] EXCEPT !.children = sorted(c)]
                 [] c \in adopted ->
                      [@[c] EXCEPT !.parent = adopter(c), !.children = <<>>]
                 [] OTHER -> @[c]]]

Node(article, children) == [article |-> article, children |-> children]

\* The nodes of a ThreadNode down to n levels, itself included.
NodesWithin(node, n) ==
    LET nodes[k \in 0..n] ==
            IF k = 0 THEN {node}
            ELSE LET above == nodes[k - 1]
                 IN  above \cup UNION {ToSet(m.children) : m \in above}
    IN  nodes[n]

ArticlesWithin(node, n) == {m.article : m \in NodesWithin(node, n)} \ {0}

\* first_article(): a node is as old as the oldest article in it.
Oldest(a, node) == Lowest(ArticlesWithin(node, Size(a)))

\* filter_map() and sort_by_key(): of trees, each none or one, the ones there
\* are, oldest first.
Gathered(a, trees) ==
    LET kept == {i \in DOMAIN trees : trees[i] # <<>>}
        order == SortedBy(kept, [i \in kept |-> Oldest(a, trees[i][1])])
    IN  [j \in DOMAIN order |-> trees[order[j]][1]]

\* An empty container is dropped, or replaced by an only child.
Pruned(article, kids) ==
    IF article = 0 /\ Len(kids) <= 1 THEN kids ELSE <<Node(article, kids)>>

\* build(), the depth-first recursion by the height of what is left to build:
\* Trees(a)[n][c] is the tree, none or one, of container c and n levels below.
Trees(a) ==
    LET tree[n \in 0..Size(a)] ==
            [c \in 1..Size(a) |->
               IF n = 0 THEN Pruned(ArticleOf(a, c), <<>>)
               ELSE LET below == [i \in DOMAIN ChildrenOf(a, c) |-> tree[n - 1][ChildrenOf(a, c)[i]]]
                    IN  Pruned(ArticleOf(a, c), Gathered(a, below))]
    IN  tree

Built(a, root) == Trees(a)[Size(a)][root]

-----------------------------------------------------------------------------
(* thread() *)

NewArena == [containers |-> <<>>, by_id |-> <<>>, by_article |-> <<>>]

\* One reference of a record: its container, under the previous one.
Referred(a, previous, id) ==
    LET found == ContainerForId(a, id)
    IN  IF previous = 0 THEN found ELSE SetParent(found, found.by_id[id], previous)

\* The record itself, under its nearest reference.
Attached(a, index, previous) ==
    IF previous = 0 THEN a ELSE SetParent(a, a.by_article[index], previous)

Linked(a, index, references) ==
    LET refer(w, id) == LET next == Referred(w.arena, w.previous, id)
                        IN  [arena |-> next, previous |-> next.by_id[id]]
        end == FoldLeft(refer, [arena |-> a, previous |-> 0], Considered(references))
    IN  Attached(end.arena, index, end.previous)

\* thread() of records whose subjects all strip to nothing, so that no roots
\* are grouped by subject.
ThreadOf(records) ==
    LET indexes == [i \in DOMAIN records |-> i]
        inserted == FoldLeft(LAMBDA a, i : Inserted(a, i, records[i].id),
                             NewArena, indexes)
        linked == FoldLeft(LAMBDA a, i : Linked(a, i, records[i].references),
                           inserted, indexes)
        roots == RootsOf(linked)
        clamped == Clamped(linked, roots)
    IN  FlattenSeq([i \in DOMAIN roots |-> Built(clamped, roots[i])])

\* ThreadNode::walk() over a sequence of threads: every node before its replies,
\* with its depth.  One level at a time, a node not yet visited gives way to
\* itself and its children.
Walk(forest) ==
    LET wait(node, depth) == [node |-> node, depth |-> depth, visited |-> FALSE]
        visit(e) == <<[e EXCEPT !.visited = TRUE]>>
                    \o [i \in DOMAIN e.node.children |-> wait(e.node.children[i], e.depth + 1)]
        level[h \in 0..MaxDepth + 1] ==
            IF h = 0 THEN [i \in DOMAIN forest |-> wait(forest[i], 0)]
            ELSE LET above == level[h - 1]
                 IN  FlattenSeq([i \in DOMAIN above |->
                                   IF above[i].visited THEN <<above[i]>> ELSE visit(above[i])])
        all == level[MaxDepth + 1]
    IN  [i \in DOMAIN all |-> [article |-> all[i].node.article, depth |-> all[i].depth]]
=============================================================================
