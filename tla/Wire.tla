-------------------------------- MODULE Wire --------------------------------
(***************************************************************************)
(* What crosses the connection: commands one way, lines the other.  Text   *)
(* is reduced to what either side acts on: a status line is its code and   *)
(* its arguments, a line of a block is its content, and the terminator of  *)
(* a block is a line of its own.  Dot-stuffing is the subject of Blocks.   *)
(***************************************************************************)
EXTENDS Integers, Sequences

\* Arguments and lines of a block are records whose fields name what they hold.
NoArg == [none |-> "argument"]

NoGroup == "no group"

NoArticle == 0

Named(name) == [group |-> name]

ReaderMode == [mode |-> "READER"]

Since(moment) == [since |-> moment]

Label(label) == [label |-> label]

Number(n) == [number |-> n]

Id(id) == [id |-> id]

\* The upper bound of an open-ended range, above every number.
Open == 1000

\* Which articles a command is about: one by number or by message-id, a range,
\* or the server's own position (ArticleSpec and RangeOrId).
ByNumber(n) == [by |-> "number", number |-> n]
ById(id) == [by |-> "id", id |-> id]
ByRange(low, high) == [by |-> "range", low |-> low, high |-> high]
Current == [by |-> "current"]
Junk == [by |-> "junk"]
NoHeader == [by |-> "no header name"]

\* Patterns are the set of names they match.
NoPattern == {"every group"}
BadPattern == {"not a wildmat"}

\* A NEWGROUPS date that is not one.
NoMoment == -1

Command(verb, arg) == [verb |-> verb, arg |-> arg]

\* StatusLine: three digits and the words after them.
Status(code, arg) == [kind |-> "status", code |-> code, arg |-> arg]

Data(text) == [kind |-> "data", text |-> text]

Dot == [kind |-> "dot"]

\* A line longer than any limit the client accepts.
Monster == [kind |-> "monster"]

DataLines(texts) == [i \in DOMAIN texts |-> Data(texts[i])]

\* ResponseCode::is_error
IsError(code) == code \in 400..599

\* The codes that announce a block whatever the command was.
AlwaysHasDataBlock(code) == code \in {100, 101, 215, 220, 221, 222, 224, 225, 230, 231}

=============================================================================
