---------------------------- MODULE ReadSetCalls ----------------------------
(***************************************************************************)
(* A ReadSet in use: any sequence of calls of its methods, starting from   *)
(* any text it may be parsed from.                                         *)
(***************************************************************************)
EXTENDS ReadSet

CONSTANT MaxPieces            \* longest text parsed

ASSUME PiecesAssumption == MaxPieces \in Nat

VARIABLES ranges, call        \* the set, and the call last made with its answer

callVars == <<ranges, call>>

Texts == BoundedSeq(Piece, MaxPieces)

CallInit == \E text \in Texts : /\ call = <<"parse", text>>
                            /\ ranges = Parse(text)

Change(c, new) == call' = c /\ ranges' = new

Answer(c) == call' = c /\ UNCHANGED ranges

InsertOne == \E n \in Number : Change(<<"insert", n>>, InsertRange(ranges, n, n))

RemoveOne == \E n \in Number : Change(<<"remove", n>>, RemoveNumber(ranges, n))

InsertMany == \E a, b \in Number :
    Change(<<"insert_range", a, b>>, InsertRange(ranges, a, b))

RemoveMany == \E a, b \in Number :
    Change(<<"remove_range", a, b>>, RemoveRange(ranges, a, b))

Lookup == \E n \in Number : Answer(<<"contains", n, ContainsNumber(ranges, n)>>)

CountRead == \E a, b \in Number : Answer(<<"read_in", a, b, ReadIn(ranges, a, b)>>)

CountUnread == \E a, b \in Number :
    Answer(<<"unread_in", a, b, UnreadIn(ranges, a, b)>>)

CountAll == Answer(<<"count", Count(ranges)>>)

\* The set is written as a newsrc range list and parsed again.
Reload == Change(<<"reload", Malformed(Display(ranges))>>, Parse(Display(ranges)))

CallNext == \/ InsertOne \/ RemoveOne \/ InsertMany \/ RemoveMany
        \/ Lookup \/ CountRead \/ CountUnread \/ CountAll \/ Reload

CallSpec == CallInit /\ [][CallNext]_callVars

-----------------------------------------------------------------------------
(***************************************************************************)
(* The ranges stay sorted, disjoint, separated by an unread number, and at *)
(* least 1, whatever is inserted, removed or parsed: what contains and the *)
(* merge of insert_range rely on to search.                                *)
(***************************************************************************)
RangesNormal == Normal(ranges)

(***************************************************************************)
(* Every sequence of calls changes and answers as a plain set of article   *)
(* numbers would: reversed bounds, zero, bounds at the width, splits and   *)
(* merges included; and what is written to a newsrc line is read back, with*)
(* nothing in it malformed.                                                *)
(***************************************************************************)
Plain == INSTANCE NumberSet WITH read <- Denotes(ranges)

ImplementsSet == Plain!Spec

=============================================================================
