------------------------------- MODULE Ranges -------------------------------
(***************************************************************************)
(* Range::between and Range::chunks: a range of article numbers cut into   *)
(* requests of at most so many numbers, near the top of their width too.   *)
(***************************************************************************)
EXTENDS Naturals, Sequences

CONSTANT Top                  \* u64::MAX

ASSUME TopAssumption == Top \in Nat

VARIABLES span,               \* the range and the chunk size asked for
          cut,                \* the chunks so far
          start               \* where the next one starts; Top + 1 when done

rangeVars == <<span, cut, start>>

ArticleNumbers == 0 .. Top

\* A reversed pair is put in order.
RangeBetween(low, high) ==
    IF low <= high THEN [low |-> low, high |-> high]
    ELSE [low |-> high, high |-> low]

Spans == {[range |-> RangeBetween(low, high), chunk |-> chunk] :
             low, high, chunk \in ArticleNumbers}

RangesInit ==
    /\ span \in Spans
    /\ cut = <<>>
    /\ start = span.range.low

\* Mutant: the sum wraps.
EndWrapping(from) ==
    LET sum == (from + span.chunk - 1) % (Top + 1)
    IN  IF sum < span.range.high THEN sum ELSE span.range.high

\* saturating_add, then no further than the range.
End(from) ==
    LET sum == from + span.chunk - 1
    IN  IF sum < span.range.high THEN sum ELSE span.range.high

CutChunk ==
    /\ start <= Top
    /\ IF span.chunk = 0
       THEN cut' = <<span.range>> /\ start' = Top + 1
       ELSE /\ cut' = Append(cut, RangeBetween(start, End(start)))
            /\ start' = IF End(start) >= span.range.high THEN Top + 1 ELSE End(start) + 1
    /\ Len(cut) <= Top        \* bound: a correct cut never has more chunks
    /\ UNCHANGED span

RangesSpec == RangesInit /\ [][CutChunk]_rangeVars

\* Range::contains and Range::count, whose sum overflows for all the numbers of the
\* width, 0 included; no chunk can be asked for that many.
RangeContains(range, n) == n >= range.low /\ n <= range.high

Spanned(range) == range.high - range.low + 1

-----------------------------------------------------------------------------
(***************************************************************************)
(* The chunks cover the range in order, each number once and none outside, *)
(* no chunk is longer than asked for, and the last one ends the range: at  *)
(* every turn of the loop, so that it ends.                                *)
(***************************************************************************)
ChunksCover ==
    LET done == {n \in ArticleNumbers : \E i \in DOMAIN cut : RangeContains(cut[i], n)}
    IN  /\ done = {n \in ArticleNumbers : RangeContains(span.range, n) /\ n < start}
        /\ \A i, j \in DOMAIN cut : i < j => cut[i].high < cut[j].low
        /\ span.chunk > 0 => \A i \in DOMAIN cut : Spanned(cut[i]) <= span.chunk

=============================================================================
