------------------------------- MODULE Blocks -------------------------------
(***************************************************************************)
(* An article from the editor to another reader's screen: Draft::parse,    *)
(* problems and to_lines, the dot-stuffed block, the server that reads it, *)
(* files it and sends it again, and the reader that splits it.  A line is  *)
(* a sequence of words: a header name, "x" for other text, a space or a    *)
(* leading dot.                                                            *)
(***************************************************************************)
EXTENDS Naturals, Sequences, SequencesExt

CONSTANTS Words,              \* what lines are made of
          Drafts              \* texts the editor leaves, as sequences of lines

ASSUME DraftsAssumption == {" ", "."} \subseteq Words /\ Drafts \subseteq Seq(Seq(Words))

HeaderNames == {"From:", "Newsgroups:", "Subject:", "Path:"}

VARIABLES text,               \* what was typed
          wire,               \* lines sent and not yet read
          got,                \* the DataBlock being read
          stage               \* typed, refused, posting, fetching, shown

blockVars == <<text, wire, got, stage>>

BlocksInit == text \in Drafts /\ wire = <<>> /\ got = <<>> /\ stage = "typed"

-----------------------------------------------------------------------------
(* Draft                                                                   *)

Blank(line) == \A i \in DOMAIN line : line[i] = " "

\* The line the headers end before, and the line the body starts after.
HeadEnd(t) == Min({i \in 1 .. Len(t) + 1 : i \in DOMAIN t => Blank(t[i])})

Separators(t) == {i \in 2 .. Len(t) - 1 : t[i] = <<>>}

\* split_once("\n\n"): after the first empty line with a line on either side.
DraftBody(t) ==
    IF Separators(t) = {} THEN <<>>
    ELSE SubSeq(t, Min(Separators(t)) + 1, Len(t))

Printed(line) == {i \in DOMAIN line : line[i] # " "}

Trimmed(line) == SubSeq(line, Min(Printed(line)), Max(Printed(line)))

\* A continuation line belongs to the header above it.
Unfold(headers, line) ==
    IF headers # <<>> /\ line[1] = " "
    THEN [headers EXCEPT ![Len(headers)] = @ \o <<" ">> \o Trimmed(line)]
    ELSE Append(headers, line)

\* A name and a value, each without the spaces around it; to_lines joins them again.
Header(line) ==
    LET field == Trimmed(line)
    IN  IF Blank(Tail(field)) THEN <<field[1]>> ELSE <<field[1]>> \o Trimmed(Tail(field))

DraftHeaders(t) ==
    LET unfolded == FoldLeft(Unfold, <<>>, SubSeq(t, 1, HeadEnd(t) - 1))
    IN  [i \in DOMAIN unfolded |-> Header(unfolded[i])]

\* Draft::problems: no headers but real ones the server does not own, the required
\* ones with a value, and something to read.
Problems(t) ==
    LET headers == DraftHeaders(t)
    IN  \/ \E i \in DOMAIN headers : headers[i][1] \notin HeaderNames \ {"Path:"}
        \/ \E required \in {"From:", "Newsgroups:", "Subject:"} :
              ~\E i \in DOMAIN headers :
                 /\ headers[i][1] = required /\ ~Blank(Tail(headers[i]))
                 /\ \A j \in 1 .. i - 1 : headers[j][1] # required
        \/ \A i \in DOMAIN DraftBody(t) : Blank(DraftBody(t)[i])

\* Empty lines at the end are not sent.
WithoutTrailing(lines) ==
    LET kept == {i \in DOMAIN lines : lines[i] # <<>>}
    IN  IF kept = {} THEN <<>>
        ELSE SubSeq(lines, 1, Max(kept))

ToLines(t) == DraftHeaders(t) \o << <<>> >> \o WithoutTrailing(DraftBody(t))

-----------------------------------------------------------------------------
(* block.rs                                                                *)

Terminator == <<".">>

\* Mutant: only the line that would end the block is doubled.
StuffTerminator(line) == IF line = Terminator THEN <<".">> \o line ELSE line

Stuff(line) == IF line # <<>> /\ line[1] = "." THEN <<".">> \o line ELSE line

Unstuff(line) == IF line # <<>> /\ line[1] = "." THEN Tail(line) ELSE line

\* send_block
Block(lines) == Append([i \in DOMAIN lines |-> Stuff(lines[i])], Terminator)

Offer ==
    /\ stage = "typed"
    /\ IF Problems(text) THEN stage' = "refused" /\ UNCHANGED wire
       ELSE stage' = "posting" /\ wire' = Block(ToLines(text))
    /\ UNCHANGED <<text, got>>

\* push_raw_line
ReadLine ==
    /\ stage \in {"posting", "fetching"} /\ wire # <<>> /\ Head(wire) # Terminator
    /\ got' = Append(got, Unstuff(Head(wire)))
    /\ wire' = Tail(wire)
    /\ UNCHANGED <<text, stage>>

\* The server has the whole article, files it, and sends it to who asks.
Relay ==
    /\ stage = "posting" /\ wire # <<>> /\ Head(wire) = Terminator
    /\ wire' = Tail(wire) \o Block(got)
    /\ got' = <<>>
    /\ stage' = "fetching"
    /\ UNCHANGED text

Show ==
    /\ stage = "fetching" /\ wire # <<>> /\ Head(wire) = Terminator
    /\ wire' = Tail(wire)
    /\ stage' = "shown"
    /\ UNCHANGED <<text, got>>

BlocksNext == Offer \/ ReadLine \/ Relay \/ Show

BlocksSpec == BlocksInit /\ [][BlocksNext]_blockVars

\* split_head_body
SplitAt(lines) == SelectInSeq(lines, LAMBDA line : line = <<>>)

HeadOf(lines) == IF SplitAt(lines) = 0 THEN lines ELSE SubSeq(lines, 1, SplitAt(lines) - 1)

BodyOf(lines) == IF SplitAt(lines) = 0 THEN <<>> ELSE SubSeq(lines, SplitAt(lines) + 1, Len(lines))

-----------------------------------------------------------------------------
(***************************************************************************)
(* What another reader is shown is what was typed: every header, and every *)
(* line below the empty line that ends them, dots at its start and empty   *)
(* lines between included, whatever to_lines, stuffing, filing, unstuffing *)
(* and splitting do to it on the way; and no line of it is left to be read *)
(* as an answer.  A separator of spaces alone is excluded: Draft::parse    *)
(* then drops the text up to the next empty line.                          *)
(***************************************************************************)
TypedIsShown ==
    /\ stage = "shown" /\ HeadEnd(text) \in DOMAIN text /\ text[HeadEnd(text)] = <<>>
    => /\ HeadOf(got) = DraftHeaders(text)
       /\ BodyOf(got) = WithoutTrailing(SubSeq(text, HeadEnd(text) + 1, Len(text)))
       /\ wire = <<>>

=============================================================================
