------------------------------ MODULE Threading ------------------------------
(***************************************************************************)
(* nntp-proto/src/thread.rs: grouping a group's overview records into      *)
(* threads.  The records come from other people's headers, so ids may be   *)
(* missing or claimed twice and the References may describe loops.         *)
(*                                                                         *)
(* thread() is one call; it is cut here at its loop bodies, in the order   *)
(* the code runs them:                                                     *)
(*     insert each record            (InsertRecord)                        *)
(*     link each record's references (LinkReference, LinkChild)            *)
(*     collect the roots             (CollectRoots)                        *)
(*     group the roots by subject    (GroupRoot, RetainRoots)              *)
(*     clamp the depth               (ClampDepth)                          *)
(*     build the trees               (BuildRoot)                           *)
(***************************************************************************)
EXTENDS Threads

CONSTANT ThreadInputs   \* the record sequences the model threads

ASSUME ThreadInputsAssumption ==
    \A input \in ThreadInputs :
        input \in Seq([id : MessageIds \cup {NoId}, references : Seq(MessageIds),
                       subject : Seq(STRING)])

VARIABLES
    records,    \* the slice thread() was given
    arena,      \* Arena: containers, by_id, by_article
    walk,       \* where thread() is: phase, record, reference, previous
    roots,      \* the roots vector, in order
    subjects,   \* group_by_subject()'s holders and merged
    forest      \* what thread() has built so far, a sequence of ThreadNode

threadVars == <<records, arena, walk, roots, subjects, forest>>

InsertRecord ==
    /\ walk.phase = "insert"
    /\ walk.record <= Len(records)
    /\ arena' = Inserted(arena, walk.record, records[walk.record].id)
    /\ walk' = IF walk.record = Len(records)
               THEN [phase |-> "link", record |-> 1, reference |-> 1, previous |-> 0]
               ELSE [walk EXCEPT !.record = @ + 1]
    /\ UNCHANGED <<records, roots, subjects, forest>>

Linking == walk.phase = "link" /\ walk.record <= Len(records)

References == Considered(records[walk.record].references)

LinkReference ==
    /\ Linking
    /\ walk.reference <= Len(References)
    /\ LET id == References[walk.reference]
       IN  /\ arena' = Referred(arena, walk.previous, id)
           /\ walk' = [walk EXCEPT !.reference = @ + 1, !.previous = arena'.by_id[id]]
    /\ UNCHANGED <<records, roots, subjects, forest>>

LinkChild ==
    /\ Linking
    /\ walk.reference > Len(References)
    /\ arena' = Attached(arena, walk.record, walk.previous)
    /\ walk' = [phase |-> IF walk.record = Len(records) THEN "roots" ELSE "link",
                record |-> walk.record + 1, reference |-> 1, previous |-> 0]
    /\ UNCHANGED <<records, roots, subjects, forest>>

-----------------------------------------------------------------------------
(* roots() and group_by_subject() *)

CollectRoots ==
    /\ walk.phase = "roots"
    /\ roots' = RootsOf(arena)
    /\ walk' = [walk EXCEPT !.phase = "group", !.record = 1]
    /\ UNCHANGED <<records, arena, subjects, forest>>

\* The subject of a thread is that of its oldest article.
SubjectOf(c) == records[FirstArticle(arena, c)].subject

\* Which of two roots of one subject stays a root.
Holds(holder, id) ==
    IF IsReply(SubjectOf(holder)) # IsReply(SubjectOf(id))
    THEN IsReply(SubjectOf(id))
    ELSE FirstArticle(arena, holder) <= FirstArticle(arena, id)

GroupRoot ==
    /\ walk.phase = "group"
    /\ walk.record <= Len(roots)
    /\ LET id == roots[walk.record]
           subject == NormaliseSubject(SubjectOf(id))
           hold(c) == [s \in DOMAIN subjects.holders \cup {subject} |->
                         IF s = subject THEN c ELSE subjects.holders[s]]
           holder == subjects.holders[subject]
           parent == IF Holds(holder, id) THEN holder ELSE id
           child == IF Holds(holder, id) THEN id ELSE holder
       IN  CASE subject = <<>> -> UNCHANGED <<arena, subjects>>
             [] subject # <<>> /\ subject \notin DOMAIN subjects.holders ->
                    /\ subjects' = [subjects EXCEPT !.holders = hold(id)]
                    /\ UNCHANGED arena
             [] OTHER ->
                    /\ arena' = SetParent(arena, child, parent)
                    /\ subjects' = [holders |-> hold(parent),
                                    merged |-> subjects.merged \cup {child}]
    /\ walk' = [walk EXCEPT !.record = @ + 1]
    /\ UNCHANGED <<records, roots, forest>>

\* Vec::retain()
Unmerged(cs, merged) ==
    LET kept == {i \in DOMAIN cs : cs[i] \notin merged}
        order == SortedBy(kept, [i \in kept |-> i])
    IN  [j \in DOMAIN order |-> cs[order[j]]]

RetainRoots ==
    /\ walk.phase = "group"
    /\ walk.record > Len(roots)
    /\ roots' = Unmerged(roots, subjects.merged)
    /\ walk' = [walk EXCEPT !.phase = "clamp"]
    /\ UNCHANGED <<records, arena, subjects, forest>>

-----------------------------------------------------------------------------
(* clamp_depth() and build() *)

ClampDepth ==
    /\ walk.phase = "clamp"
    /\ arena' = Clamped(arena, roots)
    /\ walk' = [walk EXCEPT !.phase = "build", !.record = 1]
    /\ UNCHANGED <<records, roots, subjects, forest>>

BuildRoot ==
    /\ walk.phase = "build"
    /\ walk.record <= Len(roots)
    /\ forest' = forest \o Built(arena, roots[walk.record])
    /\ walk' = [walk EXCEPT !.record = @ + 1]
    /\ UNCHANGED <<records, arena, roots, subjects>>

ReturnThreads ==
    /\ walk.phase = "build"
    /\ walk.record > Len(roots)
    /\ walk' = [walk EXCEPT !.phase = "done"]
    /\ UNCHANGED <<records, arena, roots, subjects, forest>>

-----------------------------------------------------------------------------
ThreadInit ==
    /\ records \in ThreadInputs
    /\ arena = NewArena
    /\ walk = [phase |-> "insert", record |-> 1, reference |-> 1, previous |-> 0]
    /\ roots = <<>>
    /\ subjects = [holders |-> <<>>, merged |-> {}]
    /\ forest = <<>>

ThreadNext ==
    \/ InsertRecord
    \/ LinkReference
    \/ LinkChild
    \/ CollectRoots
    \/ GroupRoot
    \/ RetainRoots
    \/ ClampDepth
    \/ BuildRoot
    \/ ReturnThreads

ThreadSpec == ThreadInit /\ [][ThreadNext]_threadVars

-----------------------------------------------------------------------------
(* What threading promises. *)

\* The parent links have no loop and the children lists say the same thing as
\* the parent links, each child once, whatever the headers say and however far
\* thread() has come.  build() recurses along the children and is_ancestor()
\* climbs the parents, so both must be right (set_parent(), clamp_depth()).
Forest ==
    LET all == 1..Size(arena)
    IN  /\ \A S \in SUBSET all :
              S # {} => \E c \in S : ParentOf(arena, c) \notin S
        /\ \A c \in all :
              /\ ToSet(ChildrenOf(arena, c)) = {d \in all : ParentOf(arena, d) = c}
              /\ IsInjective(ChildrenOf(arena, c))

\* The nodes of a built thread, with their levels.
NodesAt(n) ==
    LET at[k \in 0..n] ==
            IF k = 0 THEN ToSet(forest)
            ELSE UNION {ToSet(m.children) : m \in at[k - 1]}
    IN  at[n]
Levels == 0..Size(arena)

\* How often an article is shown: its node's occurrences as a root or a child.
\* Two nodes with the same article count twice.
Shown(article) ==
    LET lists == {forest} \cup {m.children : m \in UNION {NodesAt(n) : n \in Levels}}
    IN  Cardinality({place \in lists \X (1..Len(records)) :
                       /\ place[2] \in DOMAIN place[1]
                       /\ place[1][place[2]].article = article})

\* Every record is in the result exactly once: none is lost to a loop, a
\* duplicate id, the subject grouping, the depth cap or the pruning, and none
\* is shown twice (thread()).
EveryArticleOnce ==
    walk.phase = "done" => \A i \in 1..Len(records) : Shown(i) = 1

\* No node is deeper than MAX_DEPTH, which is what makes build()'s and every
\* reader's recursion safe (clamp_depth()).
DepthBounded ==
    walk.phase = "done" => NodesAt(MaxDepth + 1) = {}

\* A node without an article holds at least two replies, and replies are listed
\* oldest first, a reply counting as old as the oldest article below it
\* (ThreadNode, build()).
RepliesInOrder ==
    walk.phase = "done" =>
        \A m \in UNION {NodesAt(n) : n \in Levels} :
            LET oldest(i) == Oldest(arena, m.children[i])
            IN  /\ m.article = 0 => Len(m.children) >= 2
                /\ \A i, j \in DOMAIN m.children : i < j => oldest(i) < oldest(j)

\* A record whose nearest reference is claimed by another record is in that
\* record's thread, unless a chain that goes on past the record's id gave it its
\* parent first (link_references(), set_parent(), group_by_subject()).
RootOf(a, c) == LET up == Climb(a, c)
                IN  up[CHOOSE k \in 0..Size(a) : up[k] # 0 /\ up[k + 1] = 0]
NamedInside(i) ==
    \E j \in 1..Len(records) :
        LET refs == Considered(records[j].references)
        IN  \E k \in 2..Len(refs) : refs[k] = records[i].id
RepliesJoinTheirParent ==
    walk.phase \in {"roots", "group", "clamp", "build", "done"} =>
        \A i \in 1..Len(records) :
            LET refs == records[i].references
            IN  refs # <<>> /\ ~NamedInside(i) =>
                    RootOf(arena, arena.by_article[i]) = RootOf(arena, arena.by_id[refs[Len(refs)]])

\* What thread() makes of the records holds every one of them once, in trees of
\* bounded depth with replies in order, and no reply apart from what it answers.
ThreadsWhole ==
    EveryArticleOnce /\ DepthBounded /\ RepliesInOrder /\ RepliesJoinTheirParent
=============================================================================
