------------------------------ MODULE ReadSet ------------------------------
(***************************************************************************)
(* The articles read in one group, as the ranges that readstate/set.rs     *)
(* keeps: a sequence of [low, high] pairs, sorted, disjoint, and with at   *)
(* least one unread number between neighbours.  The operators take such a  *)
(* sequence and return the next one or an answer.                          *)
(***************************************************************************)
EXTENDS Naturals, Sequences, SequencesExt, FiniteSetsExt

CONSTANT MaxNumber            \* u64::MAX, where saturating arithmetic stops

ASSUME MaxNumberAssumption == MaxNumber \in Nat \ {0}

Number == 0..MaxNumber

Span == [low: Number, high: Number]

(***************************************************************************)
(* What the representation stands for, and the shape it must keep.         *)
(***************************************************************************)
Denotes(r) == {n \in Number : \E i \in DOMAIN r : r[i].low <= n /\ n <= r[i].high}

\* The numbers a pair of bounds stands for, in either order; there is no article 0.
Between(a, b) == (a..b \cup b..a) \ {0}

Normal(r) ==
    /\ r \in Seq(Span)
    /\ \A i \in DOMAIN r : 1 <= r[i].low /\ r[i].low <= r[i].high
    /\ \A i, j \in DOMAIN r : i < j => r[i].high + 1 < r[j].low

(***************************************************************************)
(* partition_point and binary_search_by: how many ranges, from the front,  *)
(* end below n, and how many start at or below it.                         *)
(***************************************************************************)
EndingBelow(r, n) ==
    CHOOSE k \in 0..Len(r) : \A i \in DOMAIN r : r[i].high < n <=> i <= k

StartingUpTo(r, n) ==
    CHOOSE k \in 0..Len(r) : \A i \in DOMAIN r : r[i].low <= n <=> i <= k

(***************************************************************************)
(* A reversed pair is turned round and a zero bound raised to one.         *)
(***************************************************************************)
Lower(a, b)  == LET m == IF a <= b THEN a ELSE b IN IF m = 0 THEN 1 ELSE m
Higher(a, b) == IF a <= b THEN b ELSE a

SaturatingSucc(n) == IF n < MaxNumber THEN n + 1 ELSE n

(***************************************************************************)
(* The ranges `first`+1..`last` overlap or abut the new one and are        *)
(* replaced by their hull.  When there are none, `first` = `last` and the  *)
(* new range is inserted between its neighbours.                           *)
(***************************************************************************)
Merge(r, first, last, low, high) ==
    LET hull == [low  |-> Min({low} \cup {r[i].low : i \in (first + 1)..last}),
                 high |-> Max({high} \cup {r[i].high : i \in (first + 1)..last})]
    IN SubSeq(r, 1, first) \o <<hull>> \o SubSeq(r, last + 1, Len(r))

\* Mutant: neighbours that only abut are not merged.
InsertRangeApart(r, a, b) ==
    IF a = 0 /\ b = 0 THEN r
    ELSE LET low == Lower(a, b)  high == Higher(a, b)
         IN Merge(r, EndingBelow(r, low), StartingUpTo(r, high), low, high)

InsertRange(r, a, b) ==
    IF a = 0 /\ b = 0 THEN r
    ELSE LET low == Lower(a, b)  high == Higher(a, b)
         IN Merge(r, EndingBelow(r, low - 1),
                  StartingUpTo(r, SaturatingSucc(high)), low, high)

\* Mutant: the range found by the search is taken without looking at its end.
ContainsFromLow(r, n) == n # 0 /\ StartingUpTo(r, n) # 0

ContainsNumber(r, n) ==
    LET k == StartingUpTo(r, n)
    IN n # 0 /\ k # 0 /\ n <= r[k].high

(***************************************************************************)
(* What is left of a range on either side of a removed number or run.      *)
(***************************************************************************)
LeftPart(s, n)  == IF s.low < n THEN <<[low |-> s.low, high |-> n - 1]>> ELSE <<>>
RightPart(s, n) == IF n < s.high THEN <<[low |-> n + 1, high |-> s.high]>> ELSE <<>>

RemoveNumber(r, n) ==
    LET k == StartingUpTo(r, n)
    IN IF n = 0 \/ k = 0 THEN r
       ELSE IF r[k].high < n THEN r
       ELSE SubSeq(r, 1, k - 1) \o (LeftPart(r[k], n) \o RightPart(r[k], n))
                \o SubSeq(r, k + 1, Len(r))

\* The ranges kept so far, and what the loop of remove_range keeps of the next.
KeepOutside(low, high, kept, s) ==
    IF s.high < low \/ high < s.low THEN Append(kept, s)
    ELSE kept \o LeftPart(s, low) \o RightPart(s, high)

RemoveRange(r, a, b) ==
    IF a = 0 /\ b = 0 THEN r
    ELSE FoldLeft(LAMBDA kept, s : KeepOutside(Lower(a, b), Higher(a, b), kept, s), <<>>, r)

(***************************************************************************)
(* The counts shown in the group list.  A reversed pair counts nothing.    *)
(***************************************************************************)
Count(r) == MapThenSumSet(LAMBDA i : r[i].high - r[i].low + 1, DOMAIN r)

\* How many numbers of the range s lie from low to high.
Within(s, low, high) ==
    LET start == Max({s.low, low})
        end   == Min({s.high, high})
    IN IF start <= end THEN end - start + 1 ELSE 0

ReadIn(r, a, b) ==
    IF b = 0 \/ b < a THEN 0
    ELSE MapThenSumSet(LAMBDA i : Within(r[i], Max({a, 1}), b), DOMAIN r)

UnreadIn(r, a, b) ==
    LET low  == Max({a, 1})
        span == b - low + 1
        read == ReadIn(r, low, b)
    IN IF b = 0 \/ b < a THEN 0
       ELSE IF read <= span THEN span - read ELSE 0

(***************************************************************************)
(* The range list of a newsrc line.  A piece is the sequence of numbers    *)
(* written in it: <<n>> for `n`, <<l, h>> for `l-h`, and << >> for a piece *)
(* that cannot be read (`4240-`, letters, a number past the width).        *)
(***************************************************************************)
Piece == {<<>>} \cup {<<n>> : n \in Number} \cup (Number \X Number)

AbsorbPiece(r, p) == IF p = <<>> THEN r ELSE InsertRange(r, p[1], p[Len(p)])

Parse(text) == FoldLeft(AbsorbPiece, <<>>, text)

\* The pieces handed back for logging, by their place.
Malformed(text) == {i \in DOMAIN text : text[i] = <<>>}

Display(r) ==
    [i \in DOMAIN r |-> IF r[i].low = r[i].high THEN <<r[i].low>>
                        ELSE <<r[i].low, r[i].high>>]

=============================================================================
