------------------------------- MODULE Parts --------------------------------
(***************************************************************************)
(* The MIME parts of an article (body.rs): the tree its boundaries make,   *)
(* the part a reader is shown, and the parts it is told of.  Every part    *)
(* gets a number, a container before what is in it.  A line is text, a     *)
(* blank, a delimiter or a header that says what the part is; text lines   *)
(* are told apart by their tag.  The order in which containers are split   *)
(* does not matter: a split looks at the container's own lines only.       *)
(***************************************************************************)
EXTENDS Naturals, Sequences, FiniteSets, SequencesExt

CONSTANTS Messages,           \* articles: the kind of the root, and its lines
          MaxNesting,         \* MAX_DEPTH
          MaxParts            \* MAX_PARTS

VARIABLES message,            \* the article
          tree                \* its parts, the article itself first

partVars == <<message, tree>>

\* Content-Type and Content-Disposition, as far as the tree depends on them.
Kind(type, boundary, attachment) ==
    [type |-> type, boundary |-> boundary, attachment |-> attachment]

\* text/plain, the default of a part that does not say
Undeclared == Kind("plain", "", FALSE)

Multipart(part) == part.kind.type \in {"mixed", "alternative"}

NewPart(kind, lines, depth) ==
    [kind |-> kind, lines |-> lines, depth |-> depth, parts |-> <<>>, split |-> FALSE]

\* BodyPart::from_article, before it splits
PartsInit ==
    /\ message \in Messages
    /\ tree = <<NewPart(message.kind, message.lines, 0)>>

-----------------------------------------------------------------------------
(* split_on_boundary                                                       *)

IsOpen(line, boundary) == line.is = "open" /\ line.tag = boundary
IsClose(line, boundary) == line.is = "close" /\ line.tag = boundary

Pushed(acc) == IF acc.inside THEN Append(acc.chunks, acc.current) ELSE acc.chunks

\* Mutant: the chunk in hand is forgotten when the next one opens.
OpenedAnew(acc) == [acc EXCEPT !.current = <<>>, !.inside = TRUE]

\* A delimiter ends the part in hand, and starts another unless there are too many.
Opened(acc) ==
    IF Len(Pushed(acc)) >= MaxParts
    THEN [acc EXCEPT !.chunks = Pushed(acc), !.inside = FALSE, !.stopped = TRUE]
    ELSE [acc EXCEPT !.chunks = Pushed(acc), !.current = <<>>, !.inside = TRUE]

\* One line of the container.
Divide(acc, line, boundary) ==
    IF acc.stopped THEN acc
    ELSE IF IsClose(line, boundary)
    THEN [acc EXCEPT !.chunks = Pushed(acc), !.inside = FALSE, !.stopped = TRUE]
    ELSE IF IsOpen(line, boundary) THEN Opened(acc)
    ELSE IF acc.inside THEN [acc EXCEPT !.current = Append(@, line)]
    ELSE acc

\* What is in hand at the end is kept: a truncated article has no last delimiter.
SplitOnBoundary(lines, boundary) ==
    Pushed(FoldLeft(LAMBDA acc, line : Divide(acc, line, boundary),
                    [chunks |-> <<>>, current |-> <<>>, inside |-> FALSE, stopped |-> FALSE],
                    lines))

-----------------------------------------------------------------------------
(* BodyPart::split                                                         *)

FirstBlank(lines) == SelectInSeq(lines, LAMBDA line : line.is = "blank")

\* split_part_headers and without_splitting; without a blank line it is all body.
PartOf(lines, depth) ==
    LET blank == FirstBlank(lines)
        heads == SelectSeq(SubSeq(lines, 1, blank), LAMBDA line : line.is = "head")
    IN  NewPart(IF heads = <<>> THEN Undeclared ELSE heads[1].tag,
                SubSeq(lines, blank + 1, Len(lines)), depth)

Divides(part) == part.depth < MaxNesting /\ Multipart(part) /\ part.kind.boundary # ""

Unsplit == {i \in DOMAIN tree : ~tree[i].split /\ Divides(tree[i])}

SplitPart ==
    \E i \in Unsplit :
        LET chunks == SplitOnBoundary(tree[i].lines, tree[i].kind.boundary)
            children == [k \in DOMAIN chunks |-> PartOf(chunks[k], tree[i].depth + 1)]
        IN  /\ \A j \in Unsplit : i <= j
            /\ tree' = [tree EXCEPT ![i].split = TRUE,
                                    ![i].parts = [k \in DOMAIN chunks |-> Len(tree) + k]]
                       \o children
            /\ UNCHANGED message

-----------------------------------------------------------------------------
(* What is shown, and what is named                                        *)

IsSignature(part) == part.kind.type = "signature"

IsDisplayable(part) == part.kind.type \in {"plain", "html"} /\ ~part.kind.attachment

FirstNonZero(ids) == LET k == SelectInSeq(ids, LAMBDA i : i # 0) IN IF k = 0 THEN 0 ELSE ids[k]

\* Which of what its parts would show a container shows: plain text among
\* alternatives, otherwise the first.
Chosen(part, shown) ==
    LET plain == SelectSeq(shown, LAMBDA i : i # 0 /\ tree[i].kind.type = "plain")
    IN  IF part.kind.type = "alternative" /\ plain # <<>> THEN plain[1] ELSE FirstNonZero(shown)

\* BodyPart::display_part of part n, 0 for none
DisplayPart(n) ==
    LET display[i \in DOMAIN tree] ==
            LET part == tree[i] IN
            IF ~Multipart(part) THEN IF IsDisplayable(part) THEN i ELSE 0
            ELSE IF part.parts = <<>> THEN i
            ELSE Chosen(part, [k \in DOMAIN part.parts |-> display[part.parts[k]]])
    IN  display[n]

Leaves == {i \in DOMAIN tree : tree[i].parts = <<>>}

\* BodyPart::other_parts
OtherParts == {i \in Leaves : i # DisplayPart(1) /\ ~IsSignature(tree[i])}

-----------------------------------------------------------------------------
(* What the boundaries of a container say, line by line.                   *)

Before(lines, k, P(_)) == {j \in 1 .. k - 1 : P(lines[j])}

\* Line k is inside the part that starts at line o.
InPart(lines, k, o, boundary) ==
    /\ o < k /\ IsOpen(lines[o], boundary)
    /\ ~\E j \in o + 1 .. k : IsOpen(lines[j], boundary)
    /\ ~\E j \in 1 .. k : IsClose(lines[j], boundary)

\* It is read as body: past the blank line of its part, if there is one.
IsBody(lines, k, o, boundary) ==
    LET blanks == {j \in DOMAIN lines : InPart(lines, j, o, boundary) /\ lines[j].is = "blank"}
    IN  blanks = {} \/ \E j \in blanks : j < k

TextOf(lines) == {lines[k].tag : k \in {j \in DOMAIN lines : lines[j].is = "text"}}

\* The delimiters that start a part, the ones past the last delimiter left out.
Openings(lines, boundary) ==
    {o \in DOMAIN lines : /\ IsOpen(lines[o], boundary)
                          /\ Before(lines, o, LAMBDA l : IsClose(l, boundary)) = {}}

(***************************************************************************)
(* Splitting loses nothing and repeats nothing: what a container of up to  *)
(* MaxParts parts says in them, last delimiter missing or not, is divided  *)
(* among its children; no text is ever in two of them; and what is nested  *)
(* deeper than MaxNesting stays whole.  Nothing is said of the text past   *)
(* the parts of a container of more of them: the comment on MAX_PARTS      *)
(* keeps it in a final part, split_on_boundary drops it.                   *)
(***************************************************************************)
TextDivided ==
    \A i \in DOMAIN tree : tree[i].split =>
        LET lines == tree[i].lines
            b == tree[i].kind.boundary
            children == tree[i].parts
            inParts == {j \in DOMAIN lines : \E o \in 1 .. j :
                           InPart(lines, j, o, b) /\ IsBody(lines, j, o, b)}
        IN  /\ tree[i].depth < MaxNesting
            /\ Cardinality(Openings(lines, b)) <= MaxParts =>
                   UNION {TextOf(tree[children[c]].lines) : c \in DOMAIN children} =
                   {lines[k].tag : k \in {j \in inParts : lines[j].is = "text"}}
            /\ \A c, d \in DOMAIN children :
                  c # d => TextOf(tree[children[c]].lines) \cap TextOf(tree[children[d]].lines) = {}

(***************************************************************************)
(* A leaf is shown, or named among the other parts, or a signature, and    *)
(* only one of these; and where any leaf is text meant to be read, or a    *)
(* container that could not be split, something is shown.                  *)
(***************************************************************************)
ShownOrNamed ==
    Unsplit = {} =>
        LET shown == DisplayPart(1) IN
        /\ shown # 0 => shown \in Leaves
        /\ Leaves = OtherParts \cup {i \in Leaves : i = shown \/ IsSignature(tree[i])}
        /\ shown = 0 => \A i \in Leaves : ~IsDisplayable(tree[i]) /\ ~Multipart(tree[i])
        /\ shown # 0 => ~IsSignature(tree[shown])

(***************************************************************************)
(* Within the limit on parts everything of an article is accounted for:    *)
(* splitting divides its text among the parts, however deep they are       *)
(* nested, and every part is shown or named (split, display_part,          *)
(* other_parts).                                                           *)
(***************************************************************************)
PartsAccounted == TextDivided /\ ShownOrNamed

=============================================================================
