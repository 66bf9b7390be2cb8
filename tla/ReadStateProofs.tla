-------------------------- MODULE ReadStateProofs ---------------------------
(***************************************************************************)
(* Proofs about what has been read.  The operations of a read set mean     *)
(* what they should for every width: on ranges in normal form, insert_     *)
(* range, remove and contains do to the ranges what union, difference and  *)
(* membership do to the set of numbers they stand for, and leave them in   *)
(* normal form; so a set in use is a plain set, call by call.  What the    *)
(* store reads from any file is what the file says, what it writes says    *)
(* what it holds, the dirty flag misses nothing, and one reader on its own *)
(* only ever replaces the file as a whole, whatever fails.                 *)
(***************************************************************************)
EXTENDS ReadSetCalls, ReadStore, FiniteSetTheorems, WellFoundedInduction, TLAPS

(***************************************************************************)
(* The least-number principle for a set, from the well-foundedness of <.   *)
(***************************************************************************)
LEMMA LeastNumber ==
    ASSUME NEW S, S \subseteq Nat, S # {}
    PROVE  \E m \in S : \A x \in S : m <= x
PROOF
<1>1. PICK m \in S : \A y \in S : ~ (<<y, m>> \in OpToRel(<, Nat))
  BY NatLessThanWellFounded, WFMin
<1>2. \A y \in S : ~ (y < m)
  BY <1>1 DEF OpToRel
<1> QED
  BY <1>2

(***************************************************************************)
(* What normal form gives about one range and about two.                   *)
(***************************************************************************)
LEMMA NormalFacts ==
    ASSUME NEW r, Normal(r)
    PROVE  /\ r \in Seq(Span) /\ Len(r) \in Nat /\ DOMAIN r = 1..Len(r)
           /\ \A i \in 1..Len(r) :
                 /\ r[i] \in Span /\ r[i].low \in Nat /\ r[i].high \in Nat
                 /\ 1 <= r[i].low /\ r[i].low <= r[i].high /\ r[i].high <= MaxNumber
           /\ \A i, j \in 1..Len(r) : i < j => r[i].high + 1 < r[j].low
PROOF
<1>1. r \in Seq(Span) /\ Len(r) \in Nat /\ DOMAIN r = 1..Len(r)
  BY DEF Normal
<1>2. \A i \in 1..Len(r) : r[i] \in Span
  BY <1>1
<1>3. \A x \in Span : /\ x.low \in Nat /\ x.high \in Nat /\ x.high <= MaxNumber
                      /\ x.low <= MaxNumber
  BY MaxNumberAssumption DEF Span, Number
<1> QED
  BY <1>1, <1>2, <1>3 DEF Normal

(***************************************************************************)
(* In normal form the ranges that end below n are a prefix, so             *)
(* partition_point finds its end; so are those that start up to n.         *)
(***************************************************************************)
LEMMA EndingBelowIs ==
    ASSUME NEW r, Normal(r), NEW n \in Nat
    PROVE  /\ EndingBelow(r, n) \in 0..Len(r)
           /\ \A i \in DOMAIN r : r[i].high < n <=> i <= EndingBelow(r, n)
PROOF
<1> DEFINE S == {i \in 1..(Len(r) + 1) : i = Len(r) + 1 \/ ~(r[i].high < n)}
<1>1. S \subseteq Nat /\ Len(r) + 1 \in S
  BY NormalFacts
<1>2. PICK m \in S : \A x \in S : m <= x
  <2> HIDE DEF S
  <2> QED BY <1>1, LeastNumber
<1>3. m \in 1..(Len(r) + 1) /\ m - 1 \in 0..Len(r)
  BY NormalFacts
<1>4. \A i \in DOMAIN r : r[i].high < n <=> i <= m - 1
  <2> SUFFICES ASSUME NEW i \in DOMAIN r
               PROVE  r[i].high < n <=> i <= m - 1
    OBVIOUS
  <2>1. CASE i < m
    BY <1>2, <1>3, <2>1, NormalFacts
  <2>2. CASE i = m
    BY <1>2, <1>3, <2>2, NormalFacts
  <2>3. CASE i > m
    BY <1>2, <1>3, <2>3, NormalFacts
  <2> QED BY <1>3, <2>1, <2>2, <2>3, NormalFacts
<1> QED
  BY <1>3, <1>4 DEF EndingBelow

\* The search by lower bound finds the end of the prefix that starts up to n.
LEMMA StartingUpToIs ==
    ASSUME NEW r, Normal(r), NEW n \in Nat
    PROVE  /\ StartingUpTo(r, n) \in 0..Len(r)
           /\ \A i \in DOMAIN r : r[i].low <= n <=> i <= StartingUpTo(r, n)
PROOF
<1> DEFINE S == {i \in 1..(Len(r) + 1) : i = Len(r) + 1 \/ ~(r[i].low <= n)}
<1>1. S \subseteq Nat /\ Len(r) + 1 \in S
  BY NormalFacts
<1>2. PICK m \in S : \A x \in S : m <= x
  <2> HIDE DEF S
  <2> QED BY <1>1, LeastNumber
<1>3. m \in 1..(Len(r) + 1) /\ m - 1 \in 0..Len(r)
  BY NormalFacts
<1>4. \A i \in DOMAIN r : r[i].low <= n <=> i <= m - 1
  <2> SUFFICES ASSUME NEW i \in DOMAIN r
               PROVE  r[i].low <= n <=> i <= m - 1
    OBVIOUS
  <2>1. CASE i < m
    BY <1>2, <1>3, <2>1, NormalFacts
  <2>2. CASE i = m
    BY <1>2, <1>3, <2>2, NormalFacts
  <2>3. CASE i > m
    BY <1>2, <1>3, <2>3, NormalFacts, SMTT(30)
  <2> QED BY <1>3, <2>1, <2>2, <2>3, NormalFacts
<1> QED
  BY <1>3, <1>4 DEF StartingUpTo

(***************************************************************************)
(* contains answers membership: the binary search for the last range that  *)
(* starts at or below the number finds the only one that can hold it.      *)
(***************************************************************************)
THEOREM ContainsIsMembership ==
    ASSUME NEW r, Normal(r), NEW n \in Number
    PROVE  ContainsNumber(r, n) <=> n \in Denotes(r)
PROOF
<1> DEFINE k == StartingUpTo(r, n)
<1>1. n \in Nat
  BY MaxNumberAssumption DEF Number
<1>2. /\ k \in 0..Len(r)
      /\ \A i \in DOMAIN r : r[i].low <= n <=> i <= k
  BY <1>1, StartingUpToIs
<1>3. ASSUME ContainsNumber(r, n)
      PROVE  n \in Denotes(r)
  <2>1. k \in DOMAIN r /\ n <= r[k].high
    BY <1>2, <1>3, NormalFacts DEF ContainsNumber
  <2> QED BY <1>2, <2>1, NormalFacts DEF Denotes
<1>4. ASSUME n \in Denotes(r)
      PROVE  ContainsNumber(r, n)
  <2>1. PICK i \in DOMAIN r : r[i].low <= n /\ n <= r[i].high
    BY <1>4 DEF Denotes
  <2>2. i <= k /\ k \in DOMAIN r
    BY <1>2, <2>1, NormalFacts
  <2>3. i = k
    BY <1>1, <1>2, <2>1, <2>2, NormalFacts
  <2> QED BY <1>1, <2>1, <2>2, <2>3, NormalFacts DEF ContainsNumber
<1> QED
  BY <1>3, <1>4

(***************************************************************************)
(* The sequence that replaces the ranges first+1..last by one, element by  *)
(* element.                                                                *)
(***************************************************************************)
Splice(r, first, last, h) ==
    SubSeq(r, 1, first) \o <<h>> \o SubSeq(r, last + 1, Len(r))

IsSplice(t, r, first, last, h) ==
    /\ t \in Seq(Span)
    /\ Len(t) = first + 1 + Len(r) - last
    /\ \A i \in 1..first : t[i] = r[i]
    /\ t[first + 1] = h
    /\ \A i \in (first + 2)..Len(t) : t[i] = r[i - first - 1 + last]

\* Splice has the length and the elements IsSplice lists.
LEMMA SpliceIs ==
    ASSUME NEW r \in Seq(Span), NEW first \in 0..Len(r), NEW last \in first..Len(r),
           NEW h \in Span
    PROVE  IsSplice(Splice(r, first, last, h), r, first, last, h)
PROOF
<1> DEFINE u == SubSeq(r, 1, first)
           v == SubSeq(r, last + 1, Len(r))
<1>1. Len(r) \in Nat /\ first \in Nat /\ last \in Nat
  OBVIOUS
<1>2. u \in Seq(Span) /\ Len(u) = first /\ \A i \in 1..first : u[i] = r[i]
  BY <1>1
<1>3. v \in Seq(Span) /\ Len(v) = Len(r) - last
  BY <1>1
<1>4. \A i \in 1..Len(v) : v[i] = r[last + i]
  BY <1>1, <1>3
<1>5. <<h>> \in Seq(Span) /\ Len(<<h>>) = 1 /\ <<h>>[1] = h
  OBVIOUS
<1>6. u \o <<h>> \in Seq(Span) /\ Len(u \o <<h>>) = first + 1
  BY <1>2, <1>5
<1>7. \A i \in 1..(first + 1) : (u \o <<h>>)[i] = IF i <= first THEN u[i] ELSE h
  BY <1>1, <1>2, <1>5
<1> HIDE DEF u, v
<1> DEFINE w == u \o <<h>>
<1> DEFINE x == w \o v
<1>8. x \in Seq(Span) /\ Len(x) = first + 1 + Len(r) - last
  BY <1>1, <1>3, <1>6, SMTT(30)
<1>9. \A i \in 1..Len(x) : x[i] = IF i <= first + 1 THEN w[i] ELSE v[i - first - 1]
  BY <1>1, <1>3, <1>6
<1>w. \A i \in 1..(first + 1) : w[i] = IF i <= first THEN u[i] ELSE h
  BY <1>7
<1> HIDE DEF w, x
<1>10. \A i \in 1..first : x[i] = r[i]
  BY <1>1, <1>2, <1>w, <1>8, <1>9
<1>11. x[first + 1] = h
  BY <1>1, <1>w, <1>8, <1>9
<1>12. \A i \in (first + 2)..Len(x) : x[i] = r[i - first - 1 + last]
  <2> SUFFICES ASSUME NEW i \in (first + 2)..Len(x)
               PROVE  x[i] = r[i - first - 1 + last]
    OBVIOUS
  <2>1. i \in 1..Len(x) /\ ~(i <= first + 1) /\ i - first - 1 \in 1..Len(v)
    BY <1>1, <1>3, <1>8
  <2>2. x[i] = v[i - first - 1]
    BY <2>1, <1>9
  <2>3. last + (i - first - 1) = i - first - 1 + last
    BY <1>1, <2>1
  <2> QED BY <2>1, <2>2, <2>3, <1>4
<1>13. x = Splice(r, first, last, h)
  BY DEF u, v, w, x, Splice
<1> QED
  BY ONLY <1>8, <1>10, <1>11, <1>12, <1>13 DEF IsSplice

\* Min picks the element that is below all the others.
LEMMA LeastOf ==
    ASSUME NEW S, S \subseteq Nat, NEW m \in S, \A x \in S : m <= x
    PROVE  Min(S) = m
PROOF
<1>1. \A x \in S : (\A y \in S : x <= y) => x = m
  BY SMT
<1> QED
  BY <1>1 DEF Min

\* Max picks the element that is above all the others.
LEMMA GreatestOf ==
    ASSUME NEW S, S \subseteq Nat, NEW m \in S, \A x \in S : m >= x
    PROVE  Max(S) = m
PROOF
<1>1. \A x \in S : (\A y \in S : x >= y) => x = m
  BY SMT
<1> QED
  BY <1>1 DEF Max

(***************************************************************************)
(* The hull of the new range and those it touches: the touched ranges are  *)
(* sorted, so only the first can reach lower and only the last higher.     *)
(***************************************************************************)
HullLow(r, first, last, low) ==
    IF first < last /\ r[first + 1].low < low THEN r[first + 1].low ELSE low

HullHigh(r, first, last, high) ==
    IF first < last /\ r[last].high > high THEN r[last].high ELSE high

\* Merge replaces the touched ranges by the hull of the first and the last of them.
LEMMA HullIs ==
    ASSUME NEW r, Normal(r), NEW low \in Nat, NEW high \in Nat,
           NEW first \in 0..Len(r), NEW last \in first..Len(r)
    PROVE  Merge(r, first, last, low, high)
             = Splice(r, first, last, [low  |-> HullLow(r, first, last, low),
                                       high |-> HullHigh(r, first, last, high)])
PROOF
<1> DEFINE L == {low} \cup {r[i].low : i \in (first + 1)..last}
           H == {high} \cup {r[i].high : i \in (first + 1)..last}
           lo == HullLow(r, first, last, low)
           hi == HullHigh(r, first, last, high)
<1>1. /\ Len(r) \in Nat /\ first \in Nat /\ last \in Nat
      /\ \A i \in (first + 1)..last : i \in 1..Len(r)
      /\ first < last => first + 1 \in (first + 1)..last /\ last \in (first + 1)..last
  BY NormalFacts
<1>2. L \subseteq Nat /\ H \subseteq Nat
  BY <1>1, NormalFacts
<1>3. lo \in L /\ hi \in H
  BY <1>1 DEF HullLow, HullHigh
<1>4. \A x \in L : lo <= x
  <2>1. ASSUME NEW i \in (first + 1)..last
        PROVE  r[first + 1].low <= r[i].low
    <3>1. /\ i \in 1..Len(r) /\ first + 1 \in 1..Len(r)
          /\ (i = first + 1 \/ first + 1 < i)
      BY <1>1
    <3>2. /\ r[i].low \in Nat /\ r[first + 1].low \in Nat /\ r[first + 1].high \in Nat
          /\ r[first + 1].low <= r[first + 1].high
          /\ first + 1 < i => r[first + 1].high + 1 < r[i].low
      BY <3>1, NormalFacts
    <3> QED BY ONLY <3>1, <3>2, SMTT(30)
  <2> QED BY <1>1, <2>1, NormalFacts DEF HullLow, HullHigh
<1>5. \A x \in H : hi >= x
  <2>1. ASSUME NEW i \in (first + 1)..last
        PROVE  r[i].high <= r[last].high
    <3>1. i \in 1..Len(r) /\ last \in 1..Len(r) /\ (i = last \/ i < last)
      BY <1>1
    <3> QED BY <3>1, NormalFacts
  <2> QED BY <1>1, <2>1, NormalFacts DEF HullLow, HullHigh
<1> HIDE DEF L, H, lo, hi
<1>6. Min(L) = lo /\ Max(H) = hi
  BY <1>2, <1>3, <1>4, <1>5, LeastOf, GreatestOf
<1> QED
  BY <1>6 DEF L, H, lo, hi, Merge, Splice

(***************************************************************************)
(* Merging a range low..high into ranges in normal form, given where the   *)
(* ranges it touches begin and end.                                        *)
(***************************************************************************)
LEMMA MergeIsUnion ==
    ASSUME NEW r, Normal(r), NEW low \in Number, NEW high \in Number,
           1 <= low, low <= high,
           NEW first \in 0..Len(r), NEW last \in 0..Len(r),
           \A i \in DOMAIN r : r[i].high < low - 1 <=> i <= first,
           \A i \in DOMAIN r : r[i].low <= SaturatingSucc(high) <=> i <= last
    PROVE  /\ Normal(Merge(r, first, last, low, high))
           /\ Denotes(Merge(r, first, last, low, high)) = Denotes(r) \cup low..high
PROOF
<1> DEFINE hl == HullLow(r, first, last, low)
           hh == HullHigh(r, first, last, high)
           h  == [low |-> hl, high |-> hh]
           t  == Splice(r, first, last, h)
<1>0. Normal(r) /\ first \in 0..Len(r)
  OBVIOUS
<1>1. /\ low \in Nat /\ high \in Nat /\ high <= MaxNumber /\ MaxNumber \in Nat
      /\ first \in Nat /\ last \in Nat /\ Len(r) \in Nat
  BY MaxNumberAssumption, NormalFacts DEF Number
<1>2. last \in first..Len(r)
  <2>1. CASE first = 0
    BY <1>1, <2>1
  <2>2. CASE first # 0
    <3>1. first \in DOMAIN r /\ r[first].high < low - 1
      BY <1>1, <2>2, NormalFacts
    <3>2. r[first].low <= SaturatingSucc(high)
      BY <1>1, <3>1, NormalFacts DEF SaturatingSucc
    <3> QED BY <1>1, <3>1, <3>2
  <2> QED BY <2>1, <2>2
<1>3. Merge(r, first, last, low, high) = t
  BY ONLY <1>0, <1>1, <1>2, HullIs
<1>4. first < last => first + 1 \in DOMAIN r /\ last \in DOMAIN r
  BY <1>1, <1>2, NormalFacts
<1>5. /\ hl \in Nat /\ hh \in Nat /\ 1 <= hl /\ hl <= low /\ high <= hh
      /\ hh <= MaxNumber /\ hl <= hh
  BY <1>1, <1>4, NormalFacts, SMTT(30) DEF HullLow, HullHigh
<1>6. h \in Span /\ h.low = hl /\ h.high = hh
  BY <1>1, <1>5 DEF Span, Number
<1>7. /\ t \in Seq(Span)
      /\ Len(t) = first + 1 + Len(r) - last
      /\ \A i \in 1..first : t[i] = r[i]
      /\ t[first + 1] = h
      /\ \A i \in (first + 2)..Len(t) : t[i] = r[i - first - 1 + last]
  <2>1. r \in Seq(Span)
    BY NormalFacts
  <2> HIDE DEF h
  <2>2. IsSplice(t, r, first, last, h)
    BY ONLY <1>0, <1>2, <1>6, <2>1, SpliceIs
  <2> HIDE DEF t
  <2> QED BY ONLY <2>2 DEF IsSplice
<1> HIDE DEF t, h, hl, hh
<1>8. \A i \in 1..first : /\ i \in DOMAIN r
                          /\ r[i].high + 1 < hl
  <2> SUFFICES ASSUME NEW i \in 1..first
               PROVE  i \in DOMAIN r /\ r[i].high + 1 < hl
    OBVIOUS
  <2>1. i \in 1..Len(r) /\ DOMAIN r = 1..Len(r) /\ i <= first
    BY <1>1, NormalFacts
  <2>2. r[i].high \in Nat /\ r[i].high < low - 1
    BY <2>1, NormalFacts
  <2>3. first < last => r[i].high + 1 < r[first + 1].low /\ r[first + 1].low \in Nat
    BY <1>1, <1>4, <2>1, NormalFacts
  <2> QED BY <1>1, <2>1, <2>2, <2>3 DEF hl, HullLow
<1>9. \A i \in (last + 1)..Len(r) : /\ i \in DOMAIN r
                                    /\ hh + 1 < r[i].low
  <2> SUFFICES ASSUME NEW i \in (last + 1)..Len(r)
               PROVE  i \in DOMAIN r /\ hh + 1 < r[i].low
    OBVIOUS
  <2>1. i \in 1..Len(r) /\ DOMAIN r = 1..Len(r) /\ last < i
    BY <1>1, NormalFacts
  <2>2. r[i].low \in Nat /\ r[i].low <= MaxNumber
    BY <1>1, <2>1, NormalFacts
  <2>3. ~(r[i].low <= SaturatingSucc(high))
    BY <1>1, <2>1
  <2>4. high + 1 < r[i].low
    BY <1>1, <2>2, <2>3 DEF SaturatingSucc
  <2>5. first < last => r[last].high + 1 < r[i].low
    BY <1>1, <1>4, <2>1, NormalFacts
  <2> QED BY <2>1, <2>4, <2>5 DEF hh, HullHigh
<1>10. \A i \in (first + 2)..Len(t) : /\ i - first - 1 + last \in (last + 1)..Len(r)
                                      /\ t[i] = r[i - first - 1 + last]
  <2>1. \A i \in (first + 2)..Len(t) : i - first - 1 + last \in (last + 1)..Len(r)
    BY <1>1, <1>2, <1>7, SMTT(30)
  <2> QED BY <1>7, <2>1
<1>11. DOMAIN t = 1..Len(t) /\ Len(t) \in Nat
  BY <1>7
<1>12. \A i \in (last + 1)..Len(r) : i - last + first + 1 \in (first + 2)..Len(t)
                                     /\ t[i - last + first + 1] = r[i]
  BY <1>1, <1>2, <1>7
<1>13. Normal(t)
  <2>1. \A i \in DOMAIN t : 1 <= t[i].low /\ t[i].low <= t[i].high
    <3> SUFFICES ASSUME NEW i \in DOMAIN t
                 PROVE  1 <= t[i].low /\ t[i].low <= t[i].high
      OBVIOUS
    <3>1. CASE i \in 1..first
      BY <1>7, <1>8, <3>1, NormalFacts
    <3>2. CASE i = first + 1
      BY <1>5, <1>6, <1>7, <3>2
    <3>3. CASE i \in (first + 2)..Len(t)
      BY <1>9, <1>10, <3>3, NormalFacts
    <3> QED BY <1>1, <1>11, <3>1, <3>2, <3>3
  <2>2. ASSUME NEW i \in DOMAIN t, NEW j \in DOMAIN t, i < j
        PROVE  t[i].high + 1 < t[j].low
    <3>1. CASE i \in 1..first /\ j \in 1..first
      BY <1>7, <1>8, <2>2, <3>1, NormalFacts
    <3>2. CASE i \in 1..first /\ j = first + 1
      BY <1>6, <1>7, <1>8, <3>2
    <3>3. CASE i \in 1..first /\ j \in (first + 2)..Len(t)
      <4> DEFINE k == j - first - 1 + last
      <4>1. k \in (last + 1)..Len(r) /\ t[j] = r[k] /\ t[i] = r[i]
        BY <1>7, <1>10, <3>3
      <4>2. i \in DOMAIN r /\ k \in DOMAIN r /\ r[i].high + 1 < hl /\ hh + 1 < r[k].low
        BY <1>8, <1>9, <3>3, <4>1
      <4>3. r[i].high \in Nat /\ r[k].low \in Nat
        BY <4>2, NormalFacts
      <4> HIDE DEF k
      <4> QED BY <1>5, <4>1, <4>2, <4>3
    <3>4. CASE i = first + 1 /\ j \in (first + 2)..Len(t)
      BY <1>6, <1>7, <1>9, <1>10, <3>4
    <3>5. CASE i \in (first + 2)..Len(t) /\ j \in (first + 2)..Len(t)
      <4>1. i - first - 1 + last < j - first - 1 + last
        BY <1>1, <2>2, <3>5, SMTT(30)
      <4> QED BY <1>9, <1>10, <3>5, <4>1, NormalFacts
    <3> QED BY <1>1, <1>11, <2>2, <3>1, <3>2, <3>3, <3>4, <3>5
  <2> QED BY <1>7, <2>1, <2>2 DEF Normal
<1>14. ASSUME NEW n \in Denotes(t)
       PROVE  n \in Denotes(r) \cup low..high
  <2>1. n \in Number /\ n \in Nat
    BY <1>1 DEF Denotes, Number
  <2>2. PICK i \in DOMAIN t : t[i].low <= n /\ n <= t[i].high
    BY <1>14 DEF Denotes
  <2>3. CASE i \in 1..first
    BY <1>7, <1>8, <2>1, <2>2, <2>3 DEF Denotes
  <2>4. CASE i \in (first + 2)..Len(t)
    BY <1>9, <1>10, <2>1, <2>2, <2>4 DEF Denotes
  <2>5. CASE i = first + 1
    <3>1. hl <= n /\ n <= hh
      BY <1>6, <1>7, <2>2, <2>5
    <3>2. CASE n < low
      <4>1. first < last /\ r[first + 1].low <= n
        BY <1>1, <2>1, <3>1, <3>2 DEF hl, HullLow
      <4>2. n <= r[first + 1].high
        BY <1>1, <1>4, <2>1, <3>2, <4>1, NormalFacts
      <4> QED BY <1>4, <2>1, <4>1, <4>2 DEF Denotes
    <3>3. CASE n > high
      <4>1. first < last /\ n <= r[last].high
        BY <1>1, <2>1, <3>1, <3>3 DEF hh, HullHigh
      <4>2. r[last].low <= n
        BY <1>1, <1>4, <2>1, <3>3, <4>1, NormalFacts DEF SaturatingSucc
      <4> QED BY <1>4, <2>1, <4>1, <4>2 DEF Denotes
    <3>4. CASE low <= n /\ n <= high
      BY <1>1, <2>1, <3>4
    <3> QED BY <1>1, <2>1, <3>2, <3>3, <3>4
  <2> QED BY <1>1, <1>11, <2>3, <2>4, <2>5
<1>15. ASSUME NEW n \in Denotes(r) \cup low..high
       PROVE  n \in Denotes(t)
  <2>1. n \in Number /\ n \in Nat
    BY <1>1 DEF Denotes, Number
  <2>2. first + 1 \in DOMAIN t
    BY <1>1, <1>2, <1>7, <1>11
  <2>3. CASE n \in low..high
    BY <1>1, <1>5, <1>6, <1>7, <2>1, <2>2, <2>3, SMTT(30) DEF Denotes
  <2>4. CASE n \in Denotes(r)
    <3>1. PICK i \in DOMAIN r : r[i].low <= n /\ n <= r[i].high
      BY <2>4 DEF Denotes
    <3>2. CASE i \in 1..first
      <4>1. i \in DOMAIN t
        BY <1>1, <1>2, <1>7, <1>11, <3>2
      <4> QED BY <1>7, <2>1, <3>1, <3>2, <4>1 DEF Denotes
    <3>3. CASE i \in (last + 1)..Len(r)
      <4>1. i - last + first + 1 \in DOMAIN t
        BY <1>1, <1>11, <1>12, <3>3, SMTT(30)
      <4> QED BY <1>12, <2>1, <3>1, <3>3, <4>1 DEF Denotes
    <3>4. CASE i \in (first + 1)..last
      <4>0. /\ first < last /\ first + 1 \in 1..Len(r) /\ last \in 1..Len(r)
            /\ i \in 1..Len(r) /\ (i = last \/ i < last)
            /\ (i = first + 1 \/ first + 1 < i)
        BY <1>1, <1>2, <3>4
      <4>b. /\ \A j \in 1..Len(r) : r[j].low <= r[j].high
            /\ \A j, k \in 1..Len(r) : j < k => r[j].high + 1 < r[k].low
            /\ \A j \in 1..Len(r) : r[j].low \in Nat /\ r[j].high \in Nat
        BY NormalFacts
      <4>1. r[first + 1].low <= r[i].low /\ r[i].high <= r[last].high
        <5>1. r[first + 1].low <= r[i].low
          <6>1. CASE i = first + 1
            BY ONLY <4>0, <4>b, <6>1
          <6>2. CASE first + 1 < i
            <7>1. r[first + 1].low <= r[first + 1].high /\ r[first + 1].high + 1 < r[i].low
              BY ONLY <4>0, <4>b, <6>2
            <7> QED BY ONLY <4>0, <4>b, <7>1, SMTT(30)
          <6> QED BY ONLY <4>0, <6>1, <6>2
        <5>2. r[i].high <= r[last].high
          <6>1. CASE i = last
            BY ONLY <4>0, <4>b, <6>1
          <6>2. CASE i < last
            <7>1. r[i].high + 1 < r[last].low /\ r[last].low <= r[last].high
              BY ONLY <4>0, <4>b, <6>2
            <7> QED BY ONLY <4>0, <4>b, <7>1
          <6> QED BY ONLY <4>0, <6>1, <6>2
        <5> QED BY ONLY <5>1, <5>2
      <4>a. /\ r[first + 1].low \in Nat /\ r[last].high \in Nat
            /\ r[i].low \in Nat /\ r[i].high \in Nat
        BY <4>0, NormalFacts
      <4>2. hl <= n /\ n <= hh
        <5>1. r[first + 1].low <= n /\ n <= r[last].high
          BY ONLY <2>1, <3>1, <4>1, <4>a, SMTT(30)
        <5>2. hl <= r[first + 1].low
          BY ONLY <1>1, <4>0, <4>a DEF hl, HullLow
        <5>3. r[last].high <= hh
          BY ONLY <1>1, <4>0, <4>a DEF hh, HullHigh
        <5>4. hl \in Nat /\ hh \in Nat /\ n \in Nat
          BY <1>5, <2>1
        <5>5. r[first + 1].low \in Nat /\ r[last].high \in Nat
          BY <4>a
        <5> QED BY ONLY <5>1, <5>2, <5>3, <5>4, <5>5, SMTT(30)
      <4> QED BY <1>6, <1>7, <2>1, <2>2, <4>2 DEF Denotes
    <3> QED BY <1>1, <3>1, <3>2, <3>3, <3>4, NormalFacts
  <2> QED BY <1>15, <2>3, <2>4
<1> QED
  BY <1>3, <1>13, <1>14, <1>15

(***************************************************************************)
(* insert_range adds exactly the numbers between its bounds, in whichever  *)
(* order they come, never number 0, and keeps the ranges in normal form,   *)
(* up to and including the largest number.                                 *)
(***************************************************************************)
THEOREM InsertRangeIsUnion ==
    ASSUME NEW r, Normal(r), NEW a \in Number, NEW b \in Number
    PROVE  /\ Normal(InsertRange(r, a, b))
           /\ Denotes(InsertRange(r, a, b)) = Denotes(r) \cup Between(a, b)
PROOF
<1>1. a \in Nat /\ b \in Nat /\ a <= MaxNumber /\ b <= MaxNumber /\ MaxNumber \in Nat
  BY MaxNumberAssumption DEF Number
<1>2. CASE a = 0 /\ b = 0
  <2>1. Between(a, b) = {}
    BY <1>2 DEF Between
  <2> QED BY <1>2, <2>1 DEF InsertRange
<1>3. CASE ~(a = 0 /\ b = 0)
  <2> DEFINE low == Lower(a, b)
             high == Higher(a, b)
             first == EndingBelow(r, low - 1)
             last == StartingUpTo(r, SaturatingSucc(high))
  <2>1. low \in Number /\ high \in Number /\ 1 <= low /\ low <= high
    BY <1>1, <1>3, MaxNumberAssumption DEF Lower, Higher, Number
  <2>2. low - 1 \in Nat /\ SaturatingSucc(high) \in Nat
    BY <1>1, <2>1 DEF SaturatingSucc, Number
  <2>3. Between(a, b) = low..high
    BY <1>1, <1>3 DEF Between, Lower, Higher
  <2>4. InsertRange(r, a, b) = Merge(r, first, last, low, high)
    BY <1>3 DEF InsertRange
  <2>5. /\ first \in 0..Len(r)
        /\ \A i \in DOMAIN r : r[i].high < low - 1 <=> i <= first
    BY <2>2, EndingBelowIs
  <2>6. /\ last \in 0..Len(r)
        /\ \A i \in DOMAIN r : r[i].low <= SaturatingSucc(high) <=> i <= last
    BY <2>2, StartingUpToIs
  <2> HIDE DEF low, high, first, last
  <2> QED BY <2>1, <2>3, <2>4, <2>5, <2>6, MergeIsUnion
<1> QED
  BY <1>2, <1>3

-----------------------------------------------------------------------------
(***************************************************************************)
(* Ranges with the k-th replaced by others that lie within it.             *)
(***************************************************************************)
Replace(r, k, m) == SubSeq(r, 1, k - 1) \o m \o SubSeq(r, k + 1, Len(r))

IsReplaced(t, r, k, m) ==
    /\ t \in Seq(Span)
    /\ Len(t) = Len(r) - 1 + Len(m)
    /\ \A i \in 1..(k - 1) : t[i] = r[i]
    /\ \A i \in 1..Len(m) : t[k - 1 + i] = m[i]
    /\ \A i \in (k + Len(m))..Len(t) : t[i] = r[i - Len(m) + 1]

\* Replace has the length and the elements IsReplaced lists.
LEMMA ReplaceIs ==
    ASSUME NEW r \in Seq(Span), NEW k \in 1..Len(r), NEW m \in Seq(Span)
    PROVE  IsReplaced(Replace(r, k, m), r, k, m)
PROOF
<1> DEFINE u == SubSeq(r, 1, k - 1)
           v == SubSeq(r, k + 1, Len(r))
<1>1. Len(r) \in Nat /\ k \in Nat /\ k >= 1 /\ k <= Len(r) /\ Len(m) \in Nat
  OBVIOUS
<1>2. u \in Seq(Span) /\ Len(u) = k - 1 /\ \A i \in 1..(k - 1) : u[i] = r[i]
  BY <1>1
<1>3. v \in Seq(Span) /\ Len(v) = Len(r) - k
  BY <1>1
<1>4. \A i \in 1..Len(v) : v[i] = r[k + i]
  BY <1>1, <1>3
<1> HIDE DEF u, v
<1> DEFINE w == u \o m
<1>5. w \in Seq(Span) /\ Len(w) = k - 1 + Len(m)
  <2>1. w \in Seq(Span) /\ Len(w) = Len(u) + Len(m)
    BY <1>2, SMTT(30)
  <2> QED BY <1>1, <1>2, <2>1
<1>6. \A i \in 1..Len(w) : w[i] = IF i <= k - 1 THEN u[i] ELSE m[i - (k - 1)]
  BY <1>1, <1>2
<1> HIDE DEF w
<1> DEFINE x == w \o v
<1>7. x \in Seq(Span) /\ Len(x) = Len(r) - 1 + Len(m)
  <2>0. w \in Seq(Span) /\ v \in Seq(Span)
    BY <1>3, <1>5
  <2>1. x \in Seq(Span) /\ Len(x) = Len(w) + Len(v)
    BY ONLY <2>0
  <2> QED BY <1>1, <1>3, <1>5, <2>1
<1>8. \A i \in 1..Len(x) : x[i] = IF i <= Len(w) THEN w[i] ELSE v[i - Len(w)]
  BY <1>1, <1>3, <1>5
<1> HIDE DEF x
<1>9. ASSUME NEW i \in 1..(k - 1)
      PROVE  x[i] = r[i]
  <2>1. i \in 1..Len(w) /\ i \in 1..Len(x) /\ i <= k - 1 /\ i <= Len(w)
    BY <1>1, <1>5, <1>7
  <2> QED BY <1>2, <1>6, <1>8, <2>1
<1>10. ASSUME NEW i \in 1..Len(m)
       PROVE  x[k - 1 + i] = m[i]
  <2>1. /\ k - 1 + i \in 1..Len(w) /\ k - 1 + i \in 1..Len(x)
        /\ ~(k - 1 + i <= k - 1) /\ (k - 1 + i) - (k - 1) = i
    BY <1>1, <1>5, <1>7
  <2> QED BY <1>6, <1>8, <2>1
<1>11. ASSUME NEW i \in (k + Len(m))..Len(x)
       PROVE  x[i] = r[i - Len(m) + 1]
  <2>1. /\ i \in 1..Len(x) /\ ~(i <= Len(w)) /\ i - Len(w) \in 1..Len(v)
        /\ k + (i - Len(w)) = i - Len(m) + 1
    BY <1>1, <1>3, <1>5, <1>7
  <2> QED BY <1>4, <1>8, <2>1
<1>12. x = Replace(r, k, m)
  BY DEF u, v, w, x, Replace
<1> QED
  BY ONLY <1>7, <1>9, <1>10, <1>11, <1>12 DEF IsReplaced

(***************************************************************************)
(* Replacing a range by ranges in normal form that lie within it keeps     *)
(* normal form, and exchanges its numbers for theirs.                      *)
(***************************************************************************)
LEMMA ReplaceWithin ==
    ASSUME NEW r, Normal(r), NEW k \in 1..Len(r), NEW m, Normal(m),
           \A i \in 1..Len(m) : r[k].low <= m[i].low /\ m[i].high <= r[k].high
    PROVE  /\ Normal(Replace(r, k, m))
           /\ Denotes(Replace(r, k, m))
                = (Denotes(r) \ (r[k].low)..(r[k].high)) \cup Denotes(m)
PROOF
<1> DEFINE t == Replace(r, k, m)
<1>1. /\ Len(r) \in Nat /\ Len(m) \in Nat /\ k \in Nat /\ k >= 1 /\ k <= Len(r)
      /\ DOMAIN r = 1..Len(r) /\ DOMAIN m = 1..Len(m)
      /\ r \in Seq(Span) /\ m \in Seq(Span) /\ MaxNumber \in Nat
  BY NormalFacts, MaxNumberAssumption
<1>2. IsReplaced(t, r, k, m)
  BY ONLY <1>1, ReplaceIs
<1> HIDE DEF t
<1>3. /\ t \in Seq(Span) /\ Len(t) \in Nat /\ DOMAIN t = 1..Len(t)
      /\ Len(t) = Len(r) - 1 + Len(m)
  BY <1>1, <1>2 DEF IsReplaced
<1> DEFINE Before == 1..(k - 1)
           Middle == k..(k + Len(m) - 1)
           After  == (k + Len(m))..Len(t)
<1>4. \A i \in Before : i \in 1..Len(r) /\ i < k /\ t[i] = r[i]
  BY <1>1, <1>2 DEF IsReplaced
<1>5. ASSUME NEW i \in Middle
      PROVE  i - k + 1 \in 1..Len(m) /\ t[i] = m[i - k + 1]
  <2>1. i - k + 1 \in 1..Len(m) /\ k - 1 + (i - k + 1) = i
    BY <1>1
  <2> QED BY <1>2, <2>1 DEF IsReplaced
<1>6. ASSUME NEW i \in After
      PROVE  i - Len(m) + 1 \in 1..Len(r) /\ k < i - Len(m) + 1 /\ t[i] = r[i - Len(m) + 1]
  <2>1. i - Len(m) + 1 \in 1..Len(r) /\ k < i - Len(m) + 1
    BY <1>1, <1>3
  <2> QED BY <1>2, <2>1 DEF IsReplaced
<1>7. \A i \in 1..Len(t) : i \in Before \/ i \in Middle \/ i \in After
  BY <1>1, <1>3
<1>8. \A i \in 1..Len(m) : /\ m[i].low \in Nat /\ m[i].high \in Nat
                           /\ 1 <= m[i].low /\ m[i].low <= m[i].high
  BY NormalFacts
<1>9. \A i \in 1..Len(r) : /\ r[i].low \in Nat /\ r[i].high \in Nat
                           /\ 1 <= r[i].low /\ r[i].low <= r[i].high
  BY NormalFacts
<1>10. /\ \A i, j \in 1..Len(r) : i < j => r[i].high + 1 < r[j].low
       /\ \A i, j \in 1..Len(m) : i < j => m[i].high + 1 < m[j].low
  BY NormalFacts
<1>11. /\ \A i \in Middle : /\ t[i].low \in Nat /\ t[i].high \in Nat
                            /\ 1 <= t[i].low /\ t[i].low <= t[i].high
                            /\ r[k].low <= t[i].low /\ t[i].high <= r[k].high
  BY <1>5, <1>8
<1>12. \A i \in Before : /\ t[i].low \in Nat /\ t[i].high \in Nat
                         /\ 1 <= t[i].low /\ t[i].low <= t[i].high
                         /\ t[i].high + 1 < r[k].low
  BY <1>1, <1>4, <1>9, <1>10
<1>13. \A i \in After : /\ t[i].low \in Nat /\ t[i].high \in Nat
                        /\ 1 <= t[i].low /\ t[i].low <= t[i].high
                        /\ r[k].high + 1 < t[i].low
  BY <1>1, <1>6, <1>9, <1>10
<1>14. \A i \in 1..Len(t) : 1 <= t[i].low /\ t[i].low <= t[i].high
  BY <1>7, <1>11, <1>12, <1>13
<1>15. ASSUME NEW i \in 1..Len(t), NEW j \in 1..Len(t), i < j
       PROVE  t[i].high + 1 < t[j].low
  <2>0. r[k].low \in Nat /\ r[k].high \in Nat /\ r[k].low <= r[k].high
    BY <1>1, <1>9
  <2>1. CASE i \in Before /\ j \in Before
    BY <1>4, <1>10, <1>15, <2>1
  <2>2. CASE i \in Middle /\ j \in Middle
    <3>1. i - k + 1 < j - k + 1
      BY <1>1, <1>15, <2>2
    <3> QED BY <1>5, <1>10, <2>2, <3>1
  <2>3. CASE i \in After /\ j \in After
    <3>1. i - Len(m) + 1 < j - Len(m) + 1
      BY <1>1, <1>15, <2>3
    <3> QED BY <1>6, <1>10, <2>3, <3>1
  <2>4. CASE i \in Before /\ j \in Middle
    <3>1. t[i].high \in Nat /\ t[i].high + 1 < r[k].low
      BY ONLY <1>12, <2>4
    <3>2. t[j].low \in Nat /\ r[k].low <= t[j].low
      BY ONLY <1>11, <2>4
    <3> QED BY ONLY <2>0, <3>1, <3>2, SMTT(30)
  <2>5. CASE i \in Before /\ j \in After
    <3>1. t[i].high \in Nat /\ t[i].high + 1 < r[k].low
      BY ONLY <1>12, <2>5
    <3>2. t[j].low \in Nat /\ r[k].high + 1 < t[j].low
      BY ONLY <1>13, <2>5
    <3>3. \A a, b, c, d \in Nat : a + 1 < b /\ b <= c /\ c + 1 < d => a + 1 < d
      OBVIOUS
    <3> HIDE DEF Before, After
    <3> QED BY ONLY <2>0, <3>1, <3>2, <3>3
  <2>6. CASE i \in Middle /\ j \in After
    <3>1. t[i].high \in Nat /\ t[i].high <= r[k].high
      BY ONLY <1>11, <2>6
    <3>2. t[j].low \in Nat /\ r[k].high + 1 < t[j].low
      BY ONLY <1>13, <2>6
    <3> QED BY ONLY <2>0, <3>1, <3>2, SMTT(30)
  <2>7. ~(i \in Middle /\ j \in Before) /\ ~(i \in After /\ j \in Before)
        /\ ~(i \in After /\ j \in Middle)
    BY <1>1, <1>15
  <2> QED BY <1>7, <2>1, <2>2, <2>3, <2>4, <2>5, <2>6, <2>7
<1>16. Normal(t)
  BY <1>3, <1>14, <1>15 DEF Normal
<1> HIDE DEF Before, Middle, After
<1>17. ASSUME NEW n \in Denotes(t)
       PROVE  n \in (Denotes(r) \ (r[k].low)..(r[k].high)) \cup Denotes(m)
  <2>1. n \in Number /\ n \in Nat
    BY <1>1 DEF Denotes, Number
  <2>2. PICK i \in 1..Len(t) : t[i].low <= n /\ n <= t[i].high
    BY <1>3, <1>17 DEF Denotes
  <2>3. CASE i \in Before
    <3>1. n \in Denotes(r)
      BY <1>1, <1>4, <2>1, <2>2, <2>3 DEF Denotes
    <3>2. n < r[k].low
      BY <1>1, <1>9, <1>12, <2>1, <2>2, <2>3
    <3> QED BY <1>1, <1>9, <2>1, <3>1, <3>2
  <2>4. CASE i \in Middle
    BY <1>1, <1>5, <2>1, <2>2, <2>4 DEF Denotes
  <2>5. CASE i \in After
    <3>1. n \in Denotes(r)
      BY <1>1, <1>6, <2>1, <2>2, <2>5 DEF Denotes
    <3>2. r[k].high < n
      BY <1>1, <1>9, <1>13, <2>1, <2>2, <2>5
    <3> QED BY <1>1, <1>9, <2>1, <3>1, <3>2
  <2> QED BY <1>7, <2>3, <2>4, <2>5
<1>18. ASSUME NEW n \in Denotes(m)
       PROVE  n \in Denotes(t)
  <2>1. n \in Number
    BY DEF Denotes
  <2>2. PICK i \in 1..Len(m) : m[i].low <= n /\ n <= m[i].high
    BY <1>1, <1>18 DEF Denotes
  <2>3. k - 1 + i \in 1..Len(t) /\ t[k - 1 + i] = m[i]
    BY <1>1, <1>2, <1>3 DEF IsReplaced
  <2> QED BY <1>3, <2>1, <2>2, <2>3 DEF Denotes
<1>19. ASSUME NEW n \in Denotes(r), n \notin (r[k].low)..(r[k].high)
       PROVE  n \in Denotes(t)
  <2>1. n \in Number /\ n \in Nat
    BY <1>1 DEF Denotes, Number
  <2>2. PICK i \in 1..Len(r) : r[i].low <= n /\ n <= r[i].high
    BY <1>1, <1>19 DEF Denotes
  <2>3. i # k
    BY <1>1, <1>9, <1>19, <2>1, <2>2
  <2>4. CASE i < k
    <3>1. i \in 1..Len(t) /\ t[i] = r[i]
      BY <1>1, <1>2, <1>3, <2>4 DEF IsReplaced
    <3> QED BY <1>3, <2>1, <2>2, <3>1 DEF Denotes
  <2>5. CASE k < i
    <3> DEFINE j == i + Len(m) - 1
    <3>1. j \in 1..Len(t) /\ j \in (k + Len(m))..Len(t) /\ j - Len(m) + 1 = i
      BY <1>1, <1>3, <2>5
    <3>2. t[j] = r[i]
      BY <1>2, <3>1 DEF IsReplaced
    <3> HIDE DEF j
    <3> QED BY <1>3, <2>1, <2>2, <3>1, <3>2 DEF Denotes
  <2> QED BY <1>1, <2>3, <2>4, <2>5
<1> QED
  BY <1>16, <1>17, <1>18, <1>19 DEF t

(***************************************************************************)
(* remove takes out exactly the number it is given, splitting the range    *)
(* that holds it when it lies inside, and keeps the ranges in normal form. *)
(***************************************************************************)
THEOREM RemoveIsDifference ==
    ASSUME NEW r, Normal(r), NEW n \in Number
    PROVE  /\ Normal(RemoveNumber(r, n))
           /\ Denotes(RemoveNumber(r, n)) = Denotes(r) \ {n}
PROOF
<1> DEFINE k == StartingUpTo(r, n)
<1>1. n \in Nat /\ n <= MaxNumber /\ MaxNumber \in Nat
  BY MaxNumberAssumption DEF Number
<1>2. k \in 0..Len(r)
  BY <1>1, StartingUpToIs
<1>3. ContainsNumber(r, n) <=> n \in Denotes(r)
  BY ContainsIsMembership
<1>4. CASE ~ContainsNumber(r, n)
  <2>1. n = 0 \/ k = 0 \/ r[k].high < n
    BY <1>1, <1>2, <1>4, NormalFacts DEF ContainsNumber
  <2>2. RemoveNumber(r, n) = r
    BY <2>1 DEF RemoveNumber
  <2> QED BY <1>3, <1>4, <2>2
<1>5. CASE ContainsNumber(r, n)
  <2> DEFINE s == r[k]
             m == LeftPart(s, n) \o RightPart(s, n)
  <2>1. n # 0 /\ k \in 1..Len(r) /\ n <= s.high
    BY <1>2, <1>5, NormalFacts DEF ContainsNumber
  <2>2. s.low <= n
    <3>1. \A i \in DOMAIN r : r[i].low <= n <=> i <= k
      BY <1>1, StartingUpToIs
    <3> QED BY <2>1, <3>1, NormalFacts
  <2>3. s.low \in Nat /\ s.high \in Nat /\ 1 <= s.low /\ s.high <= MaxNumber
    BY <2>1, NormalFacts
  <2>4. RemoveNumber(r, n) = Replace(r, k, m)
    <3>1. n # 0 /\ k # 0 /\ ~(r[k].high < n)
      BY <1>1, <1>2, <2>1, <2>3
    <3> QED BY ONLY <3>1 DEF RemoveNumber, Replace
  <2> HIDE DEF s, k
  <2> DEFINE left == [low |-> s.low, high |-> n - 1]
             right == [low |-> n + 1, high |-> s.high]
  <2>5. /\ s.low < n => left \in Span /\ left.low = s.low /\ left.high = n - 1
        /\ n < s.high => right \in Span /\ right.low = n + 1 /\ right.high = s.high
    BY <1>1, <2>1, <2>2, <2>3 DEF Span, Number
  <2>6. /\ Normal(m)
        /\ \A i \in 1..Len(m) : s.low <= m[i].low /\ m[i].high <= s.high
        /\ Denotes(m) = (s.low)..(s.high) \ {n}
    <3>1. CASE s.low < n /\ n < s.high
      <4>1. LeftPart(s, n) = <<left>> /\ RightPart(s, n) = <<right>>
        BY <3>1 DEF LeftPart, RightPart
      <4>2. m = <<left>> \o <<right>>
        BY <4>1
      <4> HIDE DEF m, left, right
      <4>3. left \in Span /\ right \in Span
        BY <2>5, <3>1
      <4>4. /\ m \in Seq(Span) /\ Len(m) = 2 /\ DOMAIN m = 1..2
            /\ m[1] = left /\ m[2] = right
        BY ONLY <4>2, <4>3
      <4>5. \A i \in 1..2 : i = 1 \/ i = 2
        OBVIOUS
      <4>6. /\ m[1].low = s.low /\ m[1].high = n - 1
            /\ m[2].low = n + 1 /\ m[2].high = s.high
        BY <2>5, <3>1, <4>4
      <4>7. Normal(m)
        BY ONLY <1>1, <2>3, <3>1, <4>4, <4>5, <4>6 DEF Normal
      <4>8. \A i \in 1..Len(m) : s.low <= m[i].low /\ m[i].high <= s.high
        BY ONLY <1>1, <2>3, <3>1, <4>4, <4>5, <4>6
      <4>9. \A x \in Nat : (\E i \in DOMAIN m : m[i].low <= x /\ x <= m[i].high)
                            <=> x \in (s.low)..(s.high) \ {n}
        BY ONLY <1>1, <2>3, <3>1, <4>4, <4>5, <4>6
      <4>10. Denotes(m) = (s.low)..(s.high) \ {n}
        BY ONLY <1>1, <2>3, <4>9 DEF Denotes, Number
      <4> QED BY <4>7, <4>8, <4>10
    <3>2. CASE s.low < n /\ ~(n < s.high)
      <4>1. m = <<left>>
        BY <3>2 DEF LeftPart, RightPart
      <4> HIDE DEF m, left, right
      <4> QED BY <1>1, <2>1, <2>2, <2>3, <2>5, <3>2, <4>1 DEF Normal, Denotes, Number
    <3>3. CASE ~(s.low < n) /\ n < s.high
      <4>1. m = <<right>>
        BY <3>3 DEF LeftPart, RightPart
      <4> HIDE DEF m, left, right
      <4> QED BY <1>1, <2>1, <2>2, <2>3, <2>5, <3>3, <4>1, SMTT(30) DEF Normal, Denotes, Number
    <3>4. CASE ~(s.low < n) /\ ~(n < s.high)
      <4>1. m = <<>>
        BY <3>4 DEF LeftPart, RightPart
      <4> HIDE DEF m, left, right
      <4> QED BY <1>1, <2>1, <2>2, <2>3, <3>4, <4>1 DEF Normal, Denotes, Number
    <3> QED BY <3>1, <3>2, <3>3, <3>4
  <2>7. (s.low)..(s.high) \subseteq Denotes(r)
    BY <1>1, <2>1, <2>3, NormalFacts DEF Denotes, Number, s
  <2> HIDE DEF m
  <2>8. /\ Normal(Replace(r, k, m))
        /\ Denotes(Replace(r, k, m)) = (Denotes(r) \ (s.low)..(s.high)) \cup Denotes(m)
    BY <2>1, <2>6, ReplaceWithin DEF s
  <2>9. n \in (s.low)..(s.high)
    BY <1>1, <2>1, <2>2, <2>3
  <2> QED BY <2>4, <2>6, <2>7, <2>8, <2>9
<1> QED
  BY <1>4, <1>5

-----------------------------------------------------------------------------
(***************************************************************************)
(* The loops: remove_range over the ranges, parse over the pieces of a     *)
(* text, and the counts.  Each is a fold or a sum; what it has done after  *)
(* k turns is stated here, and FoldTheorems carries it to the end.         *)
(***************************************************************************)
Covered(r, k) == {n \in Number : \E i \in 1..k : r[i].low <= n /\ n <= r[i].high}

NoWeight(c, i) == 0

RemoveStep(c, kept, s) == KeepOutside(c.low, c.high, kept, s)

RemovedSoFar(c, k, kept) ==
    /\ Normal(kept)
    /\ k > 0 => \A i \in DOMAIN kept : kept[i].high <= c.r[k].high
    /\ k = 0 => kept = <<>>
    /\ Denotes(kept) = Covered(c.r, k) \ (c.low)..(c.high)

Removing == INSTANCE FoldTheorems WITH step <- RemoveStep, weigh <- NoWeight, Holds <- RemovedSoFar

(***************************************************************************)
(* A range that starts past a gap after the last one may be appended.      *)
(***************************************************************************)
LEMMA AppendIs ==
    ASSUME NEW r, Normal(r), NEW s \in Span, 1 <= s.low, s.low <= s.high,
           \A i \in DOMAIN r : r[i].high + 1 < s.low
    PROVE  /\ Normal(Append(r, s))
           /\ Denotes(Append(r, s)) = Denotes(r) \cup (s.low)..(s.high)
           /\ Len(Append(r, s)) = Len(r) + 1
           /\ \A i \in DOMAIN Append(r, s) : \/ i \in DOMAIN r /\ Append(r, s)[i] = r[i]
                                             \/ Append(r, s)[i] = s
PROOF
<1> DEFINE t == Append(r, s)
<1>1. r \in Seq(Span) /\ Len(r) \in Nat /\ DOMAIN r = 1..Len(r)
  BY NormalFacts
<1>2. /\ t \in Seq(Span) /\ Len(t) = Len(r) + 1 /\ DOMAIN t = 1..(Len(r) + 1)
      /\ \A i \in 1..Len(r) : t[i] = r[i]
      /\ t[Len(r) + 1] = s
  BY <1>1
<1>3. s.low \in Nat /\ s.high \in Nat /\ s.high <= MaxNumber /\ MaxNumber \in Nat
  BY MaxNumberAssumption DEF Span, Number
<1> HIDE DEF t
<1>4. \A i \in DOMAIN t : i \in 1..Len(r) \/ i = Len(r) + 1
  BY <1>1, <1>2
<1>5. \A i \in DOMAIN t : 1 <= t[i].low /\ t[i].low <= t[i].high
  BY <1>1, <1>2, <1>4, NormalFacts
<1>6. ASSUME NEW i \in DOMAIN t, NEW j \in DOMAIN t, i < j
      PROVE  t[i].high + 1 < t[j].low
  <2>1. i \in 1..Len(r) /\ t[i] = r[i]
    BY <1>1, <1>2, <1>4, <1>6
  <2>2. CASE j \in 1..Len(r)
    BY <1>2, <1>6, <2>1, <2>2, NormalFacts
  <2>3. CASE j = Len(r) + 1
    BY <1>1, <1>2, <2>1, <2>3
  <2> QED BY <1>4, <2>2, <2>3
<1>7. Normal(t)
  BY <1>2, <1>5, <1>6 DEF Normal
<1>8. \A n \in Number : (\E i \in DOMAIN t : t[i].low <= n /\ n <= t[i].high)
                          <=> \/ \E i \in DOMAIN r : r[i].low <= n /\ n <= r[i].high
                              \/ s.low <= n /\ n <= s.high
  BY <1>1, <1>2, <1>4
<1>9. (s.low)..(s.high) = {n \in Number : s.low <= n /\ n <= s.high}
  BY <1>3 DEF Number
<1>10. Denotes(t) = Denotes(r) \cup (s.low)..(s.high)
  BY <1>8, <1>9 DEF Denotes
<1> QED
  BY <1>1, <1>2, <1>4, <1>7, <1>10 DEF t

(***************************************************************************)
(* One turn of the loop in remove_range.                                   *)
(***************************************************************************)
LEMMA RemoveTurn ==
    ASSUME NEW r, Normal(r), NEW low \in Number, NEW high \in Number, 1 <= low, low <= high,
           NEW k \in 1..Len(r), NEW kept,
           RemovedSoFar([r |-> r, low |-> low, high |-> high], k - 1, kept)
    PROVE  RemovedSoFar([r |-> r, low |-> low, high |-> high], k,
                        KeepOutside(low, high, kept, r[k]))
PROOF
<1> DEFINE c == [r |-> r, low |-> low, high |-> high]
           s == r[k]
           out == KeepOutside(low, high, kept, s)
<1>1. /\ c.r = r /\ c.low = low /\ c.high = high
  OBVIOUS
<1>2. /\ Normal(kept)
      /\ k - 1 > 0 => \A i \in DOMAIN kept : kept[i].high <= r[k - 1].high
      /\ k - 1 = 0 => kept = <<>>
      /\ Denotes(kept) = Covered(r, k - 1) \ low..high
  BY <1>1 DEF RemovedSoFar
<1>3. /\ k \in Nat /\ low \in Nat /\ high \in Nat /\ low <= MaxNumber /\ high <= MaxNumber
      /\ MaxNumber \in Nat /\ s \in Span /\ s.low \in Nat /\ s.high \in Nat
      /\ 1 <= s.low /\ s.low <= s.high /\ s.high <= MaxNumber
  BY NormalFacts, MaxNumberAssumption DEF Number
<1>4. \A i \in DOMAIN kept : kept[i].high \in Nat /\ kept[i].high + 1 < s.low
  <2>1. CASE k - 1 = 0
    <3>1. DOMAIN kept = {}
      BY <1>2, <2>1
    <3> QED BY <3>1
  <2>2. CASE k - 1 # 0
    <3>1. k - 1 \in 1..Len(r) /\ k - 1 > 0 /\ k - 1 < k
      BY <1>3, <2>2, NormalFacts
    <3>2. r[k - 1].high + 1 < s.low /\ r[k - 1].high \in Nat
      BY <3>1, NormalFacts
    <3>3. \A i \in DOMAIN kept : kept[i].high \in Nat /\ kept[i].high <= r[k - 1].high
      BY <1>2, <3>1, NormalFacts
    <3>4. \A h \in Nat : h <= r[k - 1].high => h + 1 < s.low
      <4> HIDE DEF s
      <4> QED BY ONLY <1>3, <3>2
    <3> QED BY ONLY <3>3, <3>4
  <2> QED BY <2>1, <2>2
<1>5. Covered(r, k) = Covered(r, k - 1) \cup (s.low)..(s.high)
  <2>1. \A i \in 1..k : i \in 1..(k - 1) \/ i = k
    BY <1>3
  <2>2. \A i \in 1..(k - 1) : i \in 1..k
    BY <1>3
  <2>3. k \in 1..k
    BY <1>3
  <2>4. (s.low)..(s.high) = {n \in Number : s.low <= n /\ n <= s.high}
    BY <1>3 DEF Number
  <2> QED BY <2>1, <2>2, <2>3, <2>4 DEF Covered
<1> HIDE DEF s
<1>6. SUFFICES /\ Normal(out)
               /\ \A i \in DOMAIN out : out[i].high <= s.high
               /\ Denotes(out) = Denotes(kept) \cup ((s.low)..(s.high) \ low..high)
  <2> HIDE DEF out
  <2>1. k > 0 /\ k # 0
    BY <1>3
  <2>2. ASSUME Normal(out), \A i \in DOMAIN out : out[i].high <= s.high,
               Denotes(out) = Denotes(kept) \cup ((s.low)..(s.high) \ low..high)
        PROVE  RemovedSoFar(c, k, out)
    <3>1. Denotes(out) = Covered(r, k) \ low..high
      BY <1>2, <1>5, <2>2
    <3> QED BY <1>1, <2>1, <2>2, <3>1 DEF RemovedSoFar, s
  <2> QED BY <2>2 DEF out, s
<1> DEFINE left == [low |-> s.low, high |-> low - 1]
           right == [low |-> high + 1, high |-> s.high]
<1>7. \A i \in DOMAIN kept : kept[i].high <= s.high
  BY <1>3, <1>4
<1>8. CASE s.high < low \/ high < s.low
  <2>1. out = Append(kept, s)
    BY <1>8 DEF KeepOutside
  <2>2. (s.low)..(s.high) \ low..high = (s.low)..(s.high)
    BY <1>3, <1>8
  <2>3. /\ Normal(out) /\ Denotes(out) = Denotes(kept) \cup (s.low)..(s.high)
        /\ \A i \in DOMAIN out : (i \in DOMAIN kept /\ out[i] = kept[i]) \/ out[i] = s
    BY <1>2, <1>3, <1>4, <2>1, AppendIs
  <2> HIDE DEF out
  <2> QED BY <1>3, <1>7, <2>2, <2>3
<1>9. CASE ~(s.high < low \/ high < s.low)
  <2> DEFINE first == kept \o LeftPart(s, low)
  <2>1. out = first \o RightPart(s, high)
    BY <1>9 DEF KeepOutside
  <2>2. /\ Normal(first) /\ \A i \in DOMAIN first : first[i].high <= s.high /\ first[i].high < low
        /\ first \in Seq(Span)
        /\ Denotes(first) = Denotes(kept) \cup ((s.low)..(s.high) \cap 0..(low - 1))
    <3>0. kept \in Seq(Span)
      BY <1>2 DEF Normal
    <3>1. CASE s.low < low
      <4>1. first = Append(kept, left)
        <5>1. first = kept \o <<left>>
          BY <3>1 DEF LeftPart
        <5> HIDE DEF first, left
        <5> QED BY <3>0, <5>1
      <4>2. left \in Span /\ left.low = s.low /\ left.high = low - 1
        BY <1>3, <3>1 DEF Span, Number
      <4> HIDE DEF left
      <4>3. 1 <= left.low /\ left.low <= left.high /\ \A i \in DOMAIN kept : kept[i].high + 1 < left.low
        BY <1>3, <1>4, <3>1, <4>2
      <4>4. /\ Normal(first) /\ Denotes(first) = Denotes(kept) \cup (left.low)..(left.high)
            /\ \A i \in DOMAIN first : (i \in DOMAIN kept /\ first[i] = kept[i]) \/ first[i] = left
        BY <1>2, <4>1, <4>2, <4>3, AppendIs
      <4> HIDE DEF first
      <4>5. (left.low)..(left.high) = (s.low)..(s.high) \cap 0..(low - 1)
        BY <1>3, <1>9, <3>1, <4>2
      <4>6. \A i \in DOMAIN first : first[i].high <= s.high /\ first[i].high < low
        BY <1>3, <1>4, <1>9, <3>1, <4>2, <4>4
      <4> QED BY <4>4, <4>5, <4>6 DEF Normal
    <3>2. CASE ~(s.low < low)
      <4>1. first = kept
        BY <3>0, <3>2 DEF LeftPart
      <4>2. (s.low)..(s.high) \cap 0..(low - 1) = {}
        BY <1>3, <3>2
      <4>3. \A i \in DOMAIN kept : kept[i].high < low
        <5> SUFFICES ASSUME NEW i \in DOMAIN kept PROVE kept[i].high < low
          OBVIOUS
        <5>1. kept[i].high \in Denotes(kept)
          <6>1. /\ kept[i].low \in Nat /\ kept[i].high \in Nat /\ kept[i].low <= kept[i].high
                /\ kept[i].high <= MaxNumber
            BY <1>2, NormalFacts
          <6> QED BY <6>1, <1>3 DEF Denotes, Number
        <5>2. kept[i].high \notin low..high
          BY <1>2, <5>1
        <5>3. kept[i].high \in Nat /\ kept[i].high + 1 < s.low
          BY <1>4
        <5> QED BY <1>3, <1>9, <5>2, <5>3
      <4> QED BY <1>2, <1>7, <3>0, <4>1, <4>2, <4>3
    <3> QED BY <3>1, <3>2
  <2> HIDE DEF first
  <2>3. /\ Normal(out) /\ \A i \in DOMAIN out : out[i].high <= s.high
        /\ Denotes(out) = Denotes(first) \cup ((s.low)..(s.high) \cap (high + 1)..MaxNumber)
    <3>1. CASE high < s.high
      <4>1. out = Append(first, right)
        <5>1. out = first \o <<right>>
          BY <2>1, <3>1 DEF RightPart
        <5> HIDE DEF out, right
        <5> QED BY <2>2, <5>1
      <4>2. right \in Span /\ right.low = high + 1 /\ right.high = s.high
        BY <1>3, <3>1 DEF Span, Number
      <4> HIDE DEF right
      <4>3. /\ 1 <= right.low /\ right.low <= right.high
            /\ \A i \in DOMAIN first : first[i].high + 1 < right.low
        <5>1. \A i \in DOMAIN first : first[i].high \in Nat /\ first[i].high < low
          BY <2>2, NormalFacts
        <5> QED BY <1>3, <3>1, <4>2, <5>1
      <4>4. /\ Normal(out) /\ Denotes(out) = Denotes(first) \cup (right.low)..(right.high)
            /\ \A i \in DOMAIN out : (i \in DOMAIN first /\ out[i] = first[i]) \/ out[i] = right
        BY <2>2, <4>1, <4>2, <4>3, AppendIs
      <4> HIDE DEF out
      <4>5. (right.low)..(right.high) = (s.low)..(s.high) \cap (high + 1)..MaxNumber
        BY <1>3, <1>9, <3>1, <4>2
      <4> QED BY <1>3, <2>2, <4>2, <4>4, <4>5
    <3>2. CASE ~(high < s.high)
      <4>1. out = first
        BY <2>1, <2>2, <3>2 DEF RightPart
      <4>2. (s.low)..(s.high) \cap (high + 1)..MaxNumber = {}
        BY <1>3, <3>2
      <4> QED BY <2>2, <4>1, <4>2
    <3> QED BY <3>1, <3>2
  <2> HIDE DEF out
  <2>4. (s.low)..(s.high) \ low..high
           = ((s.low)..(s.high) \cap 0..(low - 1)) \cup ((s.low)..(s.high) \cap (high + 1)..MaxNumber)
    BY <1>3
  <2> QED BY <2>2, <2>3, <2>4
<1> QED BY <1>8, <1>9

(***************************************************************************)
(* remove_range takes out exactly the numbers between its bounds, in       *)
(* either order, and keeps the ranges in normal form.                      *)
(***************************************************************************)
THEOREM RemoveRangeIsDifference ==
    ASSUME NEW r, Normal(r), NEW a \in Number, NEW b \in Number
    PROVE  /\ Normal(RemoveRange(r, a, b))
           /\ Denotes(RemoveRange(r, a, b)) = Denotes(r) \ Between(a, b)
PROOF
<1>1. a \in Nat /\ b \in Nat /\ a <= MaxNumber /\ b <= MaxNumber /\ MaxNumber \in Nat
  BY MaxNumberAssumption DEF Number
<1>2. CASE a = 0 /\ b = 0
  <2>1. Between(a, b) = {}
    BY <1>2 DEF Between
  <2> QED BY <1>2, <2>1 DEF RemoveRange
<1>3. CASE ~(a = 0 /\ b = 0)
  <2> DEFINE low == Lower(a, b)
             high == Higher(a, b)
             c == [r |-> r, low |-> low, high |-> high]
  <2>1. low \in Number /\ high \in Number /\ 1 <= low /\ low <= high
    BY <1>1, <1>3, MaxNumberAssumption DEF Lower, Higher, Number
  <2>2. Between(a, b) = low..high
    BY <1>1, <1>3 DEF Between, Lower, Higher
  <2>3. RemoveRange(r, a, b) = Removing!Fold(c, <<>>, r)
    BY <1>3 DEF RemoveRange, RemoveStep, FoldLeft, MapThenFoldSet, Max,
                Removing!Fold, Removing!FoldLeft, Removing!MapThenFoldSet, Removing!Max
  <2>4. Len(r) \in Nat /\ DOMAIN r = 1..Len(r)
    BY NormalFacts
  <2> HIDE DEF low, high
  <2>5. RemovedSoFar(c, 0, <<>>)
    <3>1. Normal(<<>>) /\ Denotes(<<>>) = {} /\ Covered(r, 0) = {}
      BY DEF Normal, Denotes, Covered
    <3> QED BY <3>1 DEF RemovedSoFar
  <2>6. ASSUME NEW k \in 1..Len(r), NEW kept, RemovedSoFar(c, k - 1, kept)
        PROVE  RemovedSoFar(c, k, RemoveStep(c, kept, r[k]))
    <3>1. RemoveStep(c, kept, r[k]) = KeepOutside(low, high, kept, r[k])
      BY DEF RemoveStep
    <3> QED BY <2>1, <2>6, <3>1, RemoveTurn
  <2> HIDE DEF c
  <2>7. RemovedSoFar(c, Len(r), Removing!Fold(c, <<>>, r))
    BY <2>4, <2>5, <2>6, Removing!FoldKeeps
  <2>8. Covered(r, Len(r)) = Denotes(r)
    BY <2>4 DEF Covered, Denotes
  <2> QED BY <2>2, <2>3, <2>7, <2>8 DEF RemovedSoFar, c
<1> QED BY <1>2, <1>3

-----------------------------------------------------------------------------
(* parse                                                                   *)

\* The numbers the first k pieces of a text name.
NamedSoFar(text, k) ==
    UNION {Between(text[i][1], text[i][Len(text[i])]) : i \in {i \in 1..k : text[i] # <<>>}}

ParseStep(text, r, p) == AbsorbPiece(r, p)

ParsedSoFar(text, k, r) == Normal(r) /\ Denotes(r) = NamedSoFar(text, k)

Parsing == INSTANCE FoldTheorems WITH step <- ParseStep, weigh <- NoWeight, Holds <- ParsedSoFar

(***************************************************************************)
(* A piece that can be read has a first and a last number.                 *)
(***************************************************************************)
LEMMA PieceBounds ==
    ASSUME NEW p \in Piece, p # <<>>
    PROVE  p[1] \in Number /\ p[Len(p)] \in Number
PROOF
<1>1. CASE \E n \in Number : p = <<n>>
  <2>1. PICK n \in Number : p = <<n>>
    BY <1>1
  <2>2. Len(p) = 1 /\ p[1] = n
    BY <2>1
  <2> QED BY <2>2
<1>2. CASE p \in Number \X Number
  <2>1. PICK l \in Number, h \in Number : p = <<l, h>>
    BY <1>2
  <2>2. Len(p) = 2 /\ p[1] = l /\ p[2] = h
    BY <2>1
  <2> QED BY <2>2
<1> QED BY <1>1, <1>2 DEF Piece

(***************************************************************************)
(* What parse reads from any range list, out of order, overlapping,        *)
(* reversed or partly unreadable: the numbers its pieces name, in normal   *)
(* form.                                                                   *)
(***************************************************************************)
THEOREM ParseIsUnion ==
    ASSUME NEW text \in Seq(Piece)
    PROVE  Normal(Parse(text)) /\ Denotes(Parse(text)) = NamedSoFar(text, Len(text))
PROOF
<1>1. Len(text) \in Nat /\ DOMAIN text = 1..Len(text)
  OBVIOUS
<1>2. Parse(text) = Parsing!Fold(text, <<>>, text)
  BY DEF Parse, ParseStep, FoldLeft, MapThenFoldSet, Max,
         Parsing!Fold, Parsing!FoldLeft, Parsing!MapThenFoldSet, Parsing!Max
<1>3. ParsedSoFar(text, 0, <<>>)
  <2>1. Normal(<<>>) /\ Denotes(<<>>) = {}
    BY DEF Normal, Denotes
  <2>2. NamedSoFar(text, 0) = {}
    BY DEF NamedSoFar
  <2> QED BY <2>1, <2>2 DEF ParsedSoFar
<1>4. ASSUME NEW k \in 1..Len(text), NEW r, ParsedSoFar(text, k - 1, r)
      PROVE  ParsedSoFar(text, k, ParseStep(text, r, text[k]))
  <2> DEFINE p == text[k]
  <2>1. p \in Piece /\ k \in Nat
    BY <1>1
  <2>2. Normal(r) /\ Denotes(r) = NamedSoFar(text, k - 1)
    BY <1>4 DEF ParsedSoFar
  <2>3. 1..k = 1..(k - 1) \cup {k}
    BY <2>1
  <2>4. CASE p = <<>>
    <3>1. NamedSoFar(text, k) = NamedSoFar(text, k - 1)
      <4>1. {i \in 1..k : text[i] # <<>>} = {i \in 1..(k - 1) : text[i] # <<>>}
        BY <2>3, <2>4
      <4> QED BY <4>1 DEF NamedSoFar
    <3> QED BY <2>2, <2>4, <3>1 DEF ParsedSoFar, ParseStep, AbsorbPiece
  <2>5. CASE p # <<>>
    <3>1. NamedSoFar(text, k) = NamedSoFar(text, k - 1) \cup Between(p[1], p[Len(p)])
      <4>1. {i \in 1..k : text[i] # <<>>} = {i \in 1..(k - 1) : text[i] # <<>>} \cup {k}
        BY <2>3, <2>5
      <4> QED BY <4>1 DEF NamedSoFar
    <3>2. p[1] \in Number /\ p[Len(p)] \in Number
      BY <2>1, <2>5, PieceBounds
    <3>3. ParseStep(text, r, p) = InsertRange(r, p[1], p[Len(p)])
      BY <2>5 DEF ParseStep, AbsorbPiece
    <3>4. /\ Normal(InsertRange(r, p[1], p[Len(p)]))
          /\ Denotes(InsertRange(r, p[1], p[Len(p)])) = Denotes(r) \cup Between(p[1], p[Len(p)])
      BY <2>2, <3>2, InsertRangeIsUnion
    <3> QED BY <2>2, <3>1, <3>3, <3>4 DEF ParsedSoFar
  <2> QED BY <2>4, <2>5
<1>5. ParsedSoFar(text, Len(text), Parsing!Fold(text, <<>>, text))
  BY <1>1, <1>3, <1>4, Parsing!FoldKeeps
<1> QED BY <1>2, <1>5 DEF ParsedSoFar

(***************************************************************************)
(* What the pieces of a text name, whatever order they are taken in.       *)
(***************************************************************************)
LEMMA NamedIsUnion ==
    ASSUME NEW text \in Seq(Piece)
    PROVE  NamedSoFar(text, Len(text))
             = UNION {Between(p[1], p[Len(p)]) : p \in ToSet(text) \ {<<>>}}
PROOF
<1> DEFINE m == Len(text)
<1>1. m \in Nat /\ DOMAIN text = 1..m
  OBVIOUS
<1> HIDE DEF m
<1>2. ToSet(text) \ {<<>>} = {text[i] : i \in {i \in 1..m : text[i] # <<>>}}
  BY <1>1 DEF ToSet
<1>3. ASSUME NEW T, NEW I, T = {text[i] : i \in I}
      PROVE  UNION {Between(p[1], p[Len(p)]) : p \in T}
               = UNION {Between(text[i][1], text[i][Len(text[i])]) : i \in I}
  BY <1>3
<1>4. NamedSoFar(text, m)
        = UNION {Between(text[i][1], text[i][Len(text[i])]) : i \in {i \in 1..m : text[i] # <<>>}}
  BY DEF NamedSoFar
<1> QED BY <1>2, <1>3, <1>4 DEF m

(***************************************************************************)
(* What is written is read back: the range list of a set in normal form    *)
(* has no piece that cannot be read, and parses to the same numbers.       *)
(***************************************************************************)
THEOREM DisplayParses ==
    ASSUME NEW r, Normal(r)
    PROVE  /\ Display(r) \in Seq(Piece) /\ Malformed(Display(r)) = {}
           /\ Normal(Parse(Display(r))) /\ Denotes(Parse(Display(r))) = Denotes(r)
PROOF
<1> DEFINE d == Display(r)
<1>1. /\ Len(r) \in Nat /\ DOMAIN r = 1..Len(r)
      /\ \A i \in 1..Len(r) : /\ r[i].low \in Nat /\ r[i].high \in Nat /\ 1 <= r[i].low
                              /\ r[i].low <= r[i].high /\ r[i].high <= MaxNumber
                              /\ r[i].low \in Number /\ r[i].high \in Number
  BY NormalFacts, MaxNumberAssumption DEF Number
<1>2. \A i \in 1..Len(r) : d[i] = IF r[i].low = r[i].high THEN <<r[i].low>>
                                  ELSE <<r[i].low, r[i].high>>
  BY <1>1 DEF Display
<1>3. ASSUME NEW i \in 1..Len(r)
      PROVE  /\ d[i] \in Piece /\ d[i] # <<>>
             /\ d[i][1] = r[i].low /\ d[i][Len(d[i])] = r[i].high
  <2>1. CASE r[i].low = r[i].high
    <3>1. d[i] = <<r[i].low>>
      BY <1>2, <2>1
    <3>2. <<r[i].low>> \in Piece
      BY <1>1 DEF Piece
    <3>3. Len(<<r[i].low>>) = 1 /\ <<r[i].low>> # <<>>
      OBVIOUS
    <3> QED BY <2>1, <3>1, <3>2, <3>3
  <2>2. CASE r[i].low # r[i].high
    <3>1. d[i] = <<r[i].low, r[i].high>>
      BY <1>2, <2>2
    <3>2. <<r[i].low, r[i].high>> \in Piece
      BY <1>1 DEF Piece
    <3>3. Len(<<r[i].low, r[i].high>>) = 2 /\ <<r[i].low, r[i].high>> # <<>>
      OBVIOUS
    <3> QED BY <2>2, <3>1, <3>2, <3>3
  <2> QED BY <2>1, <2>2
<1>4. d = [i \in 1..Len(r) |-> d[i]]
  BY <1>1 DEF Display
<1> HIDE DEF d
<1>5. d \in Seq(Piece) /\ Len(d) = Len(r) /\ DOMAIN d = 1..Len(r)
  BY <1>1, <1>3, <1>4
<1>6. Malformed(d) = {}
  BY <1>3, <1>5 DEF Malformed
<1>7. NamedSoFar(d, Len(d)) = Denotes(r)
  <2>1. {i \in 1..Len(d) : d[i] # <<>>} = 1..Len(r)
    BY <1>3, <1>5
  <2>2. \A i \in 1..Len(r) : Between(d[i][1], d[i][Len(d[i])])
                               = {n \in Number : r[i].low <= n /\ n <= r[i].high}
    BY <1>1, <1>3, MaxNumberAssumption DEF Between, Number
  <2>3. NamedSoFar(d, Len(d)) = UNION {{n \in Number : r[i].low <= n /\ n <= r[i].high} : i \in 1..Len(r)}
    BY <2>1, <2>2 DEF NamedSoFar
  <2> QED BY <1>1, <2>3 DEF Denotes
<1>8. Normal(Parse(d)) /\ Denotes(Parse(d)) = NamedSoFar(d, Len(d))
  BY <1>5, ParseIsUnion
<1> QED BY <1>5, <1>6, <1>7, <1>8 DEF d


-----------------------------------------------------------------------------
(* The counts                                                              *)

CountWeight(r, i) == r[i].high - r[i].low + 1

CountedSoFar(r, k, x) == x = Cardinality(Covered(r, k))

Counting == INSTANCE FoldTheorems WITH step <- RemoveStep, weigh <- CountWeight, Holds <- CountedSoFar

\* What one range gives to the count of those from c.low to c.high.
WithinWeight(c, i) == Within(c.r[i], c.low, c.high)

ReadSoFar(c, k, x) == x = Cardinality((c.low)..(c.high) \cap Covered(c.r, k))

Reading == INSTANCE FoldTheorems WITH step <- RemoveStep, weigh <- WithinWeight, Holds <- ReadSoFar

(***************************************************************************)
(* The ranges are taken one by one, and no number is in two of them.       *)
(***************************************************************************)
LEMMA CoveredGrows ==
    ASSUME NEW r, Normal(r), NEW k \in 1..Len(r)
    PROVE  /\ IsFiniteSet(Covered(r, k - 1)) /\ IsFiniteSet(Covered(r, k))
           /\ Covered(r, k) = Covered(r, k - 1) \cup (r[k].low)..(r[k].high)
           /\ Covered(r, k - 1) \cap (r[k].low)..(r[k].high) = {}
PROOF
<1> DEFINE s == r[k]
<1>1. /\ k \in Nat /\ Len(r) \in Nat /\ k <= Len(r) /\ MaxNumber \in Nat
      /\ s \in Span /\ s.low \in Nat /\ s.high \in Nat
      /\ 1 <= s.low /\ s.low <= s.high /\ s.high <= MaxNumber
  BY NormalFacts, MaxNumberAssumption
<1>2. ASSUME NEW i \in 1..(k - 1)
      PROVE  i \in 1..Len(r) /\ i < k /\ r[i].high \in Nat /\ r[i].high + 1 < s.low
  <2>1. i \in 1..Len(r) /\ i < k
    BY <1>1
  <2> QED BY <1>1, <2>1, NormalFacts
<1>3. IsFiniteSet(Number)
  BY <1>1, FS_Interval DEF Number
<1>4. Covered(r, k - 1) \subseteq Number /\ Covered(r, k) \subseteq Number
  BY DEF Covered
<1> HIDE DEF s
<1>5. IsFiniteSet(Covered(r, k - 1)) /\ IsFiniteSet(Covered(r, k))
  BY <1>3, <1>4, FS_Subset
<1>6. Covered(r, k) = Covered(r, k - 1) \cup (s.low)..(s.high)
  <2>1. \A i \in 1..k : i \in 1..(k - 1) \/ i = k
    BY <1>1
  <2>2. \A i \in 1..(k - 1) : i \in 1..k
    BY <1>1
  <2>3. k \in 1..k
    BY <1>1
  <2>4. (s.low)..(s.high) = {n \in Number : s.low <= n /\ n <= s.high}
    BY <1>1 DEF Number
  <2> QED BY <2>1, <2>2, <2>3, <2>4 DEF Covered, s
<1>7. Covered(r, k - 1) \cap (s.low)..(s.high) = {}
  <2> SUFFICES ASSUME NEW n \in Covered(r, k - 1), n \in (s.low)..(s.high) PROVE FALSE
    OBVIOUS
  <2>1. PICK i \in 1..(k - 1) : r[i].low <= n /\ n <= r[i].high
    BY DEF Covered
  <2>2. n \in Nat
    BY DEF Covered, Number
  <2> QED BY <1>1, <1>2, <2>1, <2>2
<1> QED BY <1>5, <1>6, <1>7 DEF s

(***************************************************************************)
(* count: the number of articles the ranges stand for.                     *)
(***************************************************************************)
LEMMA CountIsSize ==
    ASSUME NEW r, Normal(r)
    PROVE  Count(r) \in Nat /\ Count(r) = Cardinality(Denotes(r))
PROOF
<1>1. /\ Len(r) \in Nat /\ DOMAIN r = 1..Len(r)
      /\ \A i \in 1..Len(r) : r[i].low \in Nat /\ r[i].high \in Nat /\ r[i].low <= r[i].high
  BY NormalFacts
<1>2. Count(r) = Counting!SumUpTo(r, Len(r))
  BY <1>1 DEF Count, CountWeight, MapThenSumSet, MapThenFoldSet,
         Counting!SumUpTo, Counting!MapThenSumSet, Counting!MapThenFoldSet
<1>3. \A k \in 1..Len(r) : CountWeight(r, k) \in Nat
  BY <1>1 DEF CountWeight
<1>4. CountedSoFar(r, 0, 0)
  <2>1. Covered(r, 0) = {}
    BY DEF Covered
  <2> QED BY <2>1, FS_EmptySet DEF CountedSoFar
<1>5. ASSUME NEW k \in 1..Len(r), NEW x \in Nat, CountedSoFar(r, k - 1, x)
      PROVE  CountedSoFar(r, k, x + CountWeight(r, k))
  <2> DEFINE A == Covered(r, k - 1)
             B == (r[k].low)..(r[k].high)
  <2>1. IsFiniteSet(A) /\ Covered(r, k) = A \cup B /\ A \cap B = {}
    BY CoveredGrows
  <2>2. IsFiniteSet(B) /\ Cardinality(B) = CountWeight(r, k)
    <3>1. r[k].low \in Int /\ r[k].high \in Int /\ ~(r[k].low > r[k].high)
      BY <1>1
    <3>2. IsFiniteSet(B) /\ Cardinality(B) = IF r[k].low > r[k].high THEN 0 ELSE r[k].high - r[k].low + 1
      BY <3>1, FS_Interval
    <3> QED BY <3>1, <3>2 DEF CountWeight
  <2>3. x = Cardinality(A)
    BY <1>5 DEF CountedSoFar
  <2>4. CountWeight(r, k) \in Nat
    BY <1>3
  <2> HIDE DEF A, B
  <2>5. Cardinality(A \cup B) = Cardinality(A) + Cardinality(B) - Cardinality({})
    BY <2>1, <2>2, FS_Union
  <2>6. Cardinality(A \cup B) = x + CountWeight(r, k)
    BY <2>2, <2>3, <2>4, <2>5, FS_EmptySet
  <2> QED BY <2>1, <2>6 DEF CountedSoFar
<1>6. Counting!SumUpTo(r, Len(r)) \in Nat /\ CountedSoFar(r, Len(r), Counting!SumUpTo(r, Len(r)))
  BY <1>1, <1>3, <1>4, <1>5, Counting!SumKeeps
<1>7. Covered(r, Len(r)) = Denotes(r)
  BY <1>1 DEF Covered, Denotes
<1> QED BY <1>2, <1>6, <1>7 DEF CountedSoFar

(***************************************************************************)
(* read_in is a sum over the ranges.                                       *)
(***************************************************************************)
LEMMA ReadInIs ==
    ASSUME NEW r, DOMAIN r = 1..Len(r), NEW a, NEW b, ~(b = 0 \/ b < a)
    PROVE  ReadIn(r, a, b) = Reading!SumUpTo([r |-> r, low |-> Max({a, 1}), high |-> b], Len(r))
PROOF
  BY DEF ReadIn, Within, WithinWeight, MapThenSumSet, MapThenFoldSet,
         Reading!SumUpTo, Reading!MapThenSumSet, Reading!MapThenFoldSet

(***************************************************************************)
(* read_in, once its bounds are set right: the articles read among those   *)
(* from low to high.                                                       *)
(***************************************************************************)
LEMMA ReadBetween ==
    ASSUME NEW r, Normal(r), NEW low \in Nat, NEW high \in Nat,
           NEW c, c = [r |-> r, low |-> low, high |-> high]
    PROVE  /\ Reading!SumUpTo(c, Len(r)) \in Nat
           /\ Reading!SumUpTo(c, Len(r)) = Cardinality(low..high \cap Denotes(r))
PROOF
<1>0. c.r = r /\ c.low = low /\ c.high = high
  OBVIOUS
<1>1. /\ Len(r) \in Nat /\ DOMAIN r = 1..Len(r)
      /\ \A i \in 1..Len(r) : r[i].low \in Nat /\ r[i].high \in Nat /\ r[i].low <= r[i].high
  BY NormalFacts
<1>3. ASSUME NEW k \in 1..Len(r)
      PROVE  /\ WithinWeight(c, k) \in Nat
             /\ WithinWeight(c, k) = Cardinality(low..high \cap (r[k].low)..(r[k].high))
  <2>1. r[k].low \in Nat /\ r[k].high \in Nat
    BY <1>1
  <2> DEFINE start == IF r[k].low <= low THEN low ELSE r[k].low
             end == IF r[k].high <= high THEN r[k].high ELSE high
  <2>2. Max({r[k].low, low}) = start
    <3>1. \A x \in {r[k].low, low} : start >= x
      BY <2>1
    <3>2. start \in {r[k].low, low} /\ {r[k].low, low} \subseteq Nat
      BY <2>1
    <3> HIDE DEF start
    <3> QED BY <3>1, <3>2, GreatestOf
  <2>3. Min({r[k].high, high}) = end
    <3>1. \A x \in {r[k].high, high} : end <= x
      BY <2>1
    <3>2. end \in {r[k].high, high} /\ {r[k].high, high} \subseteq Nat
      BY <2>1
    <3> DEFINE T == {r[k].high, high}
    <3>3. T \subseteq Nat /\ end \in T /\ \A x \in T : end <= x
      BY <3>1, <3>2
    <3> HIDE DEF end, T
    <3>4. Min(T) = end
      BY <3>3, LeastOf
    <3> QED BY <3>4 DEF T
  <2>4. low..high \cap (r[k].low)..(r[k].high) = start..end
    BY <2>1
  <2>5. start \in Nat /\ end \in Nat
    BY <2>1
  <2> HIDE DEF start, end
  <2>6. WithinWeight(c, k) = IF start <= end THEN end - start + 1 ELSE 0
    BY <1>0, <2>2, <2>3 DEF WithinWeight, Within
  <2>7. Cardinality(start..end) = IF start > end THEN 0 ELSE end - start + 1
    BY <2>5, FS_Interval
  <2>8. WithinWeight(c, k) \in Nat /\ WithinWeight(c, k) = Cardinality(start..end)
    BY ONLY <2>5, <2>6, <2>7
  <2> QED BY <2>4, <2>8
<1>4. ReadSoFar(c, 0, 0)
  <2>1. low..high \cap Covered(r, 0) = {}
    BY DEF Covered
  <2> QED BY <1>0, <2>1, FS_EmptySet DEF ReadSoFar
<1>5. ASSUME NEW k \in 1..Len(r), NEW x \in Nat, ReadSoFar(c, k - 1, x)
      PROVE  ReadSoFar(c, k, x + WithinWeight(c, k))
  <2> DEFINE A == low..high \cap Covered(r, k - 1)
             B == low..high \cap (r[k].low)..(r[k].high)
  <2>1. /\ IsFiniteSet(Covered(r, k - 1))
        /\ Covered(r, k) = Covered(r, k - 1) \cup (r[k].low)..(r[k].high)
        /\ Covered(r, k - 1) \cap (r[k].low)..(r[k].high) = {}
    BY CoveredGrows
  <2>2. low..high \cap Covered(r, k) = A \cup B /\ A \cap B = {}
    BY <2>1
  <2>3. IsFiniteSet(A) /\ IsFiniteSet(B)
    <3>1. IsFiniteSet(low..high)
      BY FS_Interval
    <3> QED BY <3>1, FS_Intersection
  <2>4. x = Cardinality(A)
    BY <1>0, <1>5 DEF ReadSoFar
  <2>5. WithinWeight(c, k) \in Nat /\ WithinWeight(c, k) = Cardinality(B)
    BY <1>3
  <2> HIDE DEF A, B
  <2>6. Cardinality(A \cup B) = Cardinality(A) + Cardinality(B) - Cardinality({})
    BY <2>2, <2>3, FS_Union
  <2>7. Cardinality(A \cup B) = x + WithinWeight(c, k)
    BY <2>4, <2>5, <2>6, FS_EmptySet
  <2> QED BY <1>0, <2>2, <2>7 DEF ReadSoFar
<1>6. /\ Reading!SumUpTo(c, Len(r)) \in Nat
      /\ ReadSoFar(c, Len(r), Reading!SumUpTo(c, Len(r)))
  BY <1>1, <1>3, <1>4, <1>5, Reading!SumKeeps
<1>7. Covered(r, Len(r)) = Denotes(r)
  BY <1>1 DEF Covered, Denotes
<1> QED BY <1>0, <1>6, <1>7 DEF ReadSoFar

(***************************************************************************)
(* The counts of the group list are the sizes of the sets they stand for:  *)
(* count, read_in and unread_in for any bounds, zero and reversed ones     *)
(* included.                                                               *)
(***************************************************************************)
THEOREM CountsAreSizes ==
    ASSUME NEW r, Normal(r), NEW a \in Number, NEW b \in Number
    PROVE  /\ Count(r) = Cardinality(Denotes(r))
           /\ ReadIn(r, a, b) = Cardinality((a..b \ {0}) \cap Denotes(r))
           /\ UnreadIn(r, a, b) = Cardinality((a..b \ {0}) \ Denotes(r))
PROOF
<1>1. a \in Nat /\ b \in Nat
  BY MaxNumberAssumption DEF Number
<1>2. Count(r) = Cardinality(Denotes(r))
  BY CountIsSize
<1>3. CASE b = 0 \/ b < a
  <2>1. a..b \ {0} = {}
    BY <1>1, <1>3
  <2>2. (a..b \ {0}) \cap Denotes(r) = {} /\ (a..b \ {0}) \ Denotes(r) = {}
    BY <2>1
  <2>3. ReadIn(r, a, b) = 0 /\ UnreadIn(r, a, b) = 0
    BY <1>3 DEF ReadIn, UnreadIn
  <2> QED BY <1>2, <2>2, <2>3, FS_EmptySet
<1>4. CASE ~(b = 0 \/ b < a)
  <2> DEFINE low == IF a = 0 THEN 1 ELSE a
             c == [r |-> r, low |-> low, high |-> b]
             S == low..b
  <2>1. low \in Nat /\ 1 <= low /\ low <= b /\ ~(b < low) /\ a..b \ {0} = S
    BY <1>1, <1>4
  <2>2. Max({a, 1}) = low
    <3>1. \A x \in {a, 1} : low >= x
      BY <1>1
    <3>2. low \in {a, 1} /\ {a, 1} \subseteq Nat
      BY <1>1
    <3> HIDE DEF low
    <3> QED BY <3>1, <3>2, GreatestOf
  <2>3. Max({low, 1}) = low
    <3>1. \A x \in {low, 1} : low >= x
      BY <2>1
    <3>2. low \in {low, 1} /\ {low, 1} \subseteq Nat
      BY <2>1
    <3> HIDE DEF low
    <3> QED BY <3>1, <3>2, GreatestOf
  <2> HIDE DEF low
  <2>4. DOMAIN r = 1..Len(r) /\ c.r = r /\ c.low = low /\ c.high = b
    BY NormalFacts
  <2>5. ReadIn(r, a, b) = Reading!SumUpTo(c, Len(r))
    <3>1. ReadIn(r, a, b) = Reading!SumUpTo([r |-> r, low |-> Max({a, 1}), high |-> b], Len(r))
      BY <1>4, <2>4, ReadInIs
    <3> QED BY <2>2, <3>1
  <2>6. ReadIn(r, low, b) = Reading!SumUpTo(c, Len(r))
    <3>1. ReadIn(r, low, b) = Reading!SumUpTo([r |-> r, low |-> Max({low, 1}), high |-> b], Len(r))
      BY <1>4, <2>1, <2>4, ReadInIs
    <3> QED BY <2>3, <3>1
  <2> HIDE DEF c, S
  <2>7. /\ Reading!SumUpTo(c, Len(r)) \in Nat
        /\ Reading!SumUpTo(c, Len(r)) = Cardinality(S \cap Denotes(r))
    BY <1>1, <2>1, ReadBetween DEF c, S
  <2>8. IsFiniteSet(S) /\ Cardinality(S) = b - low + 1
    BY <1>1, <2>1, FS_Interval DEF S
  <2>9. Cardinality(S \ Denotes(r)) = Cardinality(S) - Cardinality(S \cap Denotes(r))
    BY <2>8, FS_Difference
  <2>10. Cardinality(S \cap Denotes(r)) <= Cardinality(S)
    BY <2>8, FS_Intersection
  <2>11. UnreadIn(r, a, b) = (b - low + 1) - Cardinality(S \cap Denotes(r))
    BY <1>4, <2>2, <2>6, <2>7, <2>8, <2>10 DEF UnreadIn
  <2> QED BY <1>2, <2>1, <2>5, <2>7, <2>8, <2>9, <2>11
<1> QED BY <1>3, <1>4

-----------------------------------------------------------------------------
(* ReadSet, call by call                                                   *)

(***************************************************************************)
(* What parse starts from: pieces, and the numbers they name.              *)
(***************************************************************************)
LEMMA TextsNamed ==
    ASSUME NEW given \in Texts
    PROVE  given \in Seq(Piece) /\ NamedSoFar(given, Len(given)) = Plain!Said(given)
PROOF
<1>1. PICK m \in 0..MaxPieces : given \in [1..m -> Piece]
  BY DEF Texts, BoundedSeq, SeqOf
<1>2. m \in Nat
  BY <1>1, PiecesAssumption
<1>3. given \in Seq(Piece) /\ Len(given) = m /\ DOMAIN given = 1..m
  BY <1>1, <1>2
<1>4. \A a, b : Plain!Between(a, b) = Between(a, b)
  BY DEF Plain!Between, Between
<1>5. Plain!Said(given) = UNION {Between(p[1], p[Len(p)]) : p \in {given[i] : i \in 1..m} \ {<<>>}}
  BY <1>3, <1>4 DEF Plain!Said
<1>6. ToSet(given) = {given[i] : i \in 1..m}
  BY <1>3 DEF ToSet
<1> QED BY <1>3, <1>5, <1>6, NamedIsUnion

(***************************************************************************)
(* One call: the ranges stay in normal form, and the numbers they stand    *)
(* for change, or are answered about, as a plain set.                      *)
(***************************************************************************)
LEMMA CallIsPlain ==
    ASSUME RangesNormal, [CallNext]_callVars
    PROVE  RangesNormal' /\ [Plain!Next]_<<Denotes(ranges), call>>
PROOF
<1> DEFINE Goal == RangesNormal' /\ Plain!Next
<1>1. Normal(ranges)
  BY DEF RangesNormal
<1>2. Plain!Number = Number /\ \A a, b : Plain!Between(a, b) = Between(a, b)
  BY DEF Plain!Number, Number, Plain!Between, Between
<1>0. \A S : Plain!Cardinality(S) = Cardinality(S)
  BY DEF Plain!Cardinality, Cardinality
<1>3. CASE UNCHANGED callVars
  <2>1. ranges' = ranges /\ call' = call
    BY <1>3 DEF callVars
  <2>2. Denotes(ranges)' = Denotes(ranges)
    BY <2>1
  <2>3. Normal(ranges')
    BY <1>1, <2>1
  <2> QED BY <2>1, <2>2, <2>3 DEF RangesNormal
<1>4. CASE InsertOne
  <2>1. PICK n \in Number : call' = <<"insert", n>> /\ ranges' = InsertRange(ranges, n, n)
    BY <1>4 DEF InsertOne, Change
  <2>2. Normal(ranges') /\ Denotes(ranges') = Denotes(ranges) \cup Between(n, n)
    BY <1>1, <2>1, InsertRangeIsUnion
  <2>3. Plain!OnNumber(n)
    BY <1>2, <2>1, <2>2 DEF Plain!OnNumber, Plain!Change
  <2>4. Goal
    BY <1>2, <2>2, <2>3 DEF RangesNormal, Plain!Next
  <2> QED BY <2>4
<1>5. CASE RemoveOne
  <2>1. PICK n \in Number : call' = <<"remove", n>> /\ ranges' = RemoveNumber(ranges, n)
    BY <1>5 DEF RemoveOne, Change
  <2>2. Normal(ranges') /\ Denotes(ranges') = Denotes(ranges) \ {n}
    BY <1>1, <2>1, RemoveIsDifference
  <2>3. Plain!OnNumber(n)
    BY <1>2, <2>1, <2>2 DEF Plain!OnNumber, Plain!Change
  <2>4. Goal
    BY <1>2, <2>2, <2>3 DEF RangesNormal, Plain!Next
  <2> QED BY <2>4
<1>6. CASE InsertMany
  <2>1. PICK a \in Number, b \in Number :
           call' = <<"insert_range", a, b>> /\ ranges' = InsertRange(ranges, a, b)
    BY <1>6 DEF InsertMany, Change
  <2>2. Normal(ranges') /\ Denotes(ranges') = Denotes(ranges) \cup Between(a, b)
    BY <1>1, <2>1, InsertRangeIsUnion
  <2>3. Plain!OnRange(a, b)
    BY <1>2, <2>1, <2>2 DEF Plain!OnRange, Plain!Change
  <2>4. Goal
    BY <1>2, <2>2, <2>3 DEF RangesNormal, Plain!Next
  <2> QED BY <2>4
<1>7. CASE RemoveMany
  <2>1. PICK a \in Number, b \in Number :
           call' = <<"remove_range", a, b>> /\ ranges' = RemoveRange(ranges, a, b)
    BY <1>7 DEF RemoveMany, Change
  <2>2. Normal(ranges') /\ Denotes(ranges') = Denotes(ranges) \ Between(a, b)
    BY <1>1, <2>1, RemoveRangeIsDifference
  <2>3. Plain!OnRange(a, b)
    BY <1>2, <2>1, <2>2 DEF Plain!OnRange, Plain!Change
  <2>4. Goal
    BY <1>2, <2>2, <2>3 DEF RangesNormal, Plain!Next
  <2> QED BY <2>4
<1>8. ASSUME ranges' = ranges
      PROVE  RangesNormal' /\ Denotes(ranges)' = Denotes(ranges)
  BY <1>1, <1>8 DEF RangesNormal
<1>9. CASE Lookup
  <2>1. PICK n \in Number : call' = <<"contains", n, ContainsNumber(ranges, n)>> /\ ranges' = ranges
    BY <1>9 DEF Lookup, Answer
  <2>2. ContainsNumber(ranges, n) = (n \in Denotes(ranges))
    <3>1. ContainsNumber(ranges, n) <=> n \in Denotes(ranges)
      BY <1>1, ContainsIsMembership
    <3>2. ContainsNumber(ranges, n) \in BOOLEAN
      BY DEF ContainsNumber
    <3> QED BY <3>1, <3>2
  <2>3. Plain!OnNumber(n)
    BY <1>8, <2>1, <2>2 DEF Plain!OnNumber, Plain!Answer
  <2>4. Goal
    BY <1>2, <1>8, <2>1, <2>3 DEF Plain!Next
  <2> QED BY <2>4
<1>10. CASE CountRead
  <2>1. PICK a \in Number, b \in Number :
           call' = <<"read_in", a, b, ReadIn(ranges, a, b)>> /\ ranges' = ranges
    BY <1>10 DEF CountRead, Answer
  <2>2. ReadIn(ranges, a, b) = Cardinality((a..b \ {0}) \cap Denotes(ranges))
    BY <1>1, CountsAreSizes
  <2>3. Plain!OnRange(a, b)
    BY <1>0, <1>8, <2>1, <2>2 DEF Plain!OnRange, Plain!Answer
  <2>4. Goal
    BY <1>2, <1>8, <2>1, <2>3 DEF Plain!Next
  <2> QED BY <2>4
<1>11. CASE CountUnread
  <2>1. PICK a \in Number, b \in Number :
           call' = <<"unread_in", a, b, UnreadIn(ranges, a, b)>> /\ ranges' = ranges
    BY <1>11 DEF CountUnread, Answer
  <2>2. UnreadIn(ranges, a, b) = Cardinality((a..b \ {0}) \ Denotes(ranges))
    BY <1>1, CountsAreSizes
  <2>3. Plain!OnRange(a, b)
    BY <1>0, <1>8, <2>1, <2>2 DEF Plain!OnRange, Plain!Answer
  <2>4. Goal
    BY <1>2, <1>8, <2>1, <2>3 DEF Plain!Next
  <2> QED BY <2>4
<1>12. CASE CountAll
  <2>1. call' = <<"count", Count(ranges)>> /\ ranges' = ranges
    BY <1>12 DEF CountAll, Answer
  <2>2. Count(ranges) = Cardinality(Denotes(ranges))
    BY <1>1, CountIsSize
  <2>3. Plain!Total
    BY <1>0, <1>8, <2>1, <2>2 DEF Plain!Total, Plain!Answer
  <2>4. Goal
    BY <1>8, <2>1, <2>3 DEF Plain!Next
  <2> QED BY <2>4
<1>13. CASE Reload
  <2>1. call' = <<"reload", Malformed(Display(ranges))>> /\ ranges' = Parse(Display(ranges))
    BY <1>13 DEF Reload, Change
  <2>2. /\ Normal(ranges') /\ Denotes(ranges') = Denotes(ranges)
        /\ Malformed(Display(ranges)) = {}
    BY <1>1, <2>1, DisplayParses
  <2>3. Plain!Reload
    BY <2>1, <2>2 DEF Plain!Reload, Plain!Answer
  <2>4. Goal
    BY <2>2, <2>3 DEF RangesNormal, Plain!Next
  <2> QED BY <2>4
<1> QED
  BY <1>3, <1>4, <1>5, <1>6, <1>7, <1>9, <1>10, <1>11, <1>12, <1>13 DEF CallNext

(***************************************************************************)
(* What parse leaves is in normal form and says what the text names.       *)
(***************************************************************************)
LEMMA ParsedIsPlain ==
    ASSUME CallInit
    PROVE  RangesNormal /\ Plain!Init
PROOF
<1>1. PICK given \in Texts : call = <<"parse", given>> /\ ranges = Parse(given)
  BY DEF CallInit
<1>2. Normal(ranges) /\ Denotes(ranges) = NamedSoFar(given, Len(given))
  BY <1>1, TextsNamed, ParseIsUnion
<1>3. Denotes(ranges) = Plain!Said(given)
  BY <1>2, TextsNamed
<1> QED BY <1>1, <1>2, <1>3 DEF RangesNormal, Plain!Init

(***************************************************************************)
(* Whatever is parsed, inserted and removed, for every width, the ranges   *)
(* stay sorted, disjoint and apart: RangesNormal.                          *)
(***************************************************************************)
THEOREM RangesStayNormal == CallSpec => []RangesNormal
PROOF
<1>1. CallInit => RangesNormal
  BY ParsedIsPlain
<1>2. RangesNormal /\ [CallNext]_callVars => RangesNormal'
  BY CallIsPlain
<1> QED BY <1>1, <1>2, PTL DEF CallSpec

(***************************************************************************)
(* A ReadSet implements a plain set of article numbers, call by call and   *)
(* for every width: ImplementsSet.                                         *)
(***************************************************************************)
THEOREM SetImplemented == CallSpec => ImplementsSet
PROOF
<1>1. CallInit => Plain!Init
  BY ParsedIsPlain
<1>2. RangesNormal /\ [CallNext]_callVars => [Plain!Next]_<<Denotes(ranges), call>>
  BY CallIsPlain
<1> QED BY <1>1, <1>2, RangesStayNormal, PTL DEF CallSpec, ImplementsSet, Plain!Spec

-----------------------------------------------------------------------------
(* The store                                                               *)

IsStore(s) ==
    /\ DOMAIN s \subseteq Groups
    /\ \A g \in DOMAIN s : Normal(s[g].read) /\ s[g].subscribed \in BOOLEAN

-----------------------------------------------------------------------------
(* Loading                                                                 *)

InsertStep(c, r, x) == InsertRange(r, x.low, x.high)

InsertedSoFar(c, k, r) == Normal(r) /\ Denotes(r) = Denotes(c.old) \cup Covered(c.new, k)

Inserting == INSTANCE FoldTheorems WITH step <- InsertStep, weigh <- NoWeight, Holds <- InsertedSoFar

(***************************************************************************)
(* Merging one read set into another leaves their union, in normal form.   *)
(***************************************************************************)
LEMMA InsertAllIsUnion ==
    ASSUME NEW old, Normal(old), NEW new, Normal(new)
    PROVE  /\ Normal(InsertAll(old, new))
           /\ Denotes(InsertAll(old, new)) = Denotes(old) \cup Denotes(new)
PROOF
<1> DEFINE c == [old |-> old, new |-> new]
<1>1. c.old = old /\ c.new = new
  OBVIOUS
<1>2. /\ Len(new) \in Nat /\ DOMAIN new = 1..Len(new)
      /\ \A k \in 1..Len(new) : /\ new[k] \in Span /\ new[k].low \in Nat /\ new[k].high \in Nat
                                /\ 1 <= new[k].low /\ new[k].low <= new[k].high
  BY NormalFacts
<1>3. InsertAll(old, new) = Inserting!Fold(c, old, new)
  BY DEF InsertAll, InsertStep, FoldLeft, MapThenFoldSet, Max,
         Inserting!Fold, Inserting!FoldLeft, Inserting!MapThenFoldSet, Inserting!Max
<1> HIDE DEF c
<1>4. InsertedSoFar(c, 0, old)
  <2>1. Covered(new, 0) = {}
    BY DEF Covered
  <2> QED BY <1>1, <2>1 DEF InsertedSoFar
<1>5. ASSUME NEW k \in 1..Len(new), NEW r, InsertedSoFar(c, k - 1, r)
      PROVE  InsertedSoFar(c, k, InsertStep(c, r, new[k]))
  <2>1. Normal(r) /\ Denotes(r) = Denotes(old) \cup Covered(new, k - 1)
    BY <1>1, <1>5 DEF InsertedSoFar
  <2>2. new[k].low \in Number /\ new[k].high \in Number
    BY <1>2 DEF Span
  <2>3. Covered(new, k) = Covered(new, k - 1) \cup (new[k].low)..(new[k].high)
    BY CoveredGrows
  <2>4. Between(new[k].low, new[k].high) = (new[k].low)..(new[k].high)
    BY <1>2 DEF Between
  <2>5. /\ Normal(InsertRange(r, new[k].low, new[k].high))
        /\ Denotes(InsertRange(r, new[k].low, new[k].high))
             = Denotes(r) \cup Between(new[k].low, new[k].high)
    BY <2>1, <2>2, InsertRangeIsUnion
  <2> QED BY <1>1, <2>1, <2>3, <2>4, <2>5 DEF InsertedSoFar, InsertStep
<1>6. InsertedSoFar(c, Len(new), Inserting!Fold(c, old, new))
  BY <1>2, <1>4, <1>5, Inserting!FoldKeeps
<1>7. Covered(new, Len(new)) = Denotes(new)
  BY <1>2 DEF Covered, Denotes
<1> QED BY <1>1, <1>3, <1>6, <1>7 DEF InsertedSoFar

\* The places, among the first k lines, of the entries of a group.
Places(text, k, g) == {i \in 1..k : text[i] # Junk /\ text[i].group = g}

LoadStep(text, s, line) == AbsorbLine(s, line)

LoadedSoFar(text, k, s) ==
    /\ IsStore(s)
    /\ \A g \in Groups :
          /\ g \in DOMAIN s <=> Places(text, k, g) # {}
          /\ Denotes(ReadSetOf(s, g)) = UNION {Named(text[i]) : i \in Places(text, k, g)}
          /\ g \in DOMAIN s => (s[g].subscribed <=> \E i \in Places(text, k, g) : text[i].subscribed)

Loading == INSTANCE FoldTheorems WITH step <- LoadStep, weigh <- NoWeight, Holds <- LoadedSoFar

(***************************************************************************)
(* One line of the file.                                                   *)
(***************************************************************************)
LEMMA LoadTurn ==
    ASSUME NEW text \in Seq(Lines), NEW k \in 1..Len(text), NEW s, LoadedSoFar(text, k - 1, s)
    PROVE  LoadedSoFar(text, k, AbsorbLine(s, text[k]))
PROOF
<1> DEFINE line == text[k]
           h == line.group
           old == IF h \in DOMAIN s THEN s[h] ELSE [read |-> <<>>, subscribed |-> FALSE]
           e == [read |-> InsertAll(old.read, Parse(line.ranges)),
                 subscribed |-> old.subscribed \/ line.subscribed]
           t == AbsorbLine(s, line)
<1>1. /\ IsStore(s)
      /\ \A g \in Groups :
          /\ g \in DOMAIN s <=> Places(text, k - 1, g) # {}
          /\ Denotes(ReadSetOf(s, g)) = UNION {Named(text[i]) : i \in Places(text, k - 1, g)}
          /\ g \in DOMAIN s =>
                (s[g].subscribed <=> \E i \in Places(text, k - 1, g) : text[i].subscribed)
  BY DEF LoadedSoFar
<1>2. k \in Nat /\ 1..k = 1..(k - 1) \cup {k} /\ line \in Lines
  OBVIOUS
<1>3. CASE line = Junk
  <2>1. t = s
    BY <1>3 DEF AbsorbLine, SplitsLine
  <2>2. \A g : Places(text, k, g) = Places(text, k - 1, g)
    BY <1>2, <1>3 DEF Places
  <2> QED BY <1>1, <2>1, <2>2 DEF LoadedSoFar
<1>4. CASE line # Junk
  <2>1. line \in Entries /\ h \in Groups /\ line.subscribed \in BOOLEAN /\ line.ranges \in Seq(Piece)
    BY <1>2, <1>4 DEF Lines, Entries
  <2>2. t = WithEntry(s, h, e)
    BY <1>4 DEF AbsorbLine, SplitsLine
  <2>3. /\ DOMAIN t = {h} \cup DOMAIN s /\ t[h] = e
        /\ \A g \in DOMAIN s \ {h} : t[g] = s[g]
    <3> HIDE DEF e, h, t
    <3> QED BY <2>2 DEF WithEntry
  <2>4. /\ Normal(old.read) /\ old.subscribed \in BOOLEAN
        /\ old.read = ReadSetOf(s, h)
    <3>1. CASE h \in DOMAIN s
      BY <1>1, <3>1 DEF IsStore, ReadSetOf
    <3>2. CASE h \notin DOMAIN s
      <4>1. Normal(<<>>)
        BY DEF Normal
      <4> QED BY <3>2, <4>1 DEF ReadSetOf
    <3> QED BY <3>1, <3>2
  <2>5. Normal(Parse(line.ranges)) /\ Denotes(Parse(line.ranges)) = Named(line)
    BY <2>1, ParseIsUnion, NamedIsUnion DEF Named
  <2>6. /\ e.read = InsertAll(old.read, Parse(line.ranges))
        /\ e.subscribed = (old.subscribed \/ line.subscribed)
    OBVIOUS
  <2>7. Normal(e.read) /\ Denotes(e.read) = Denotes(ReadSetOf(s, h)) \cup Named(line)
    BY <2>4, <2>5, <2>6, InsertAllIsUnion
  <2>8. e.subscribed \in BOOLEAN
    BY <2>1, <2>4, <2>6
  <2>9. Places(text, k, h) = Places(text, k - 1, h) \cup {k}
    BY <1>2, <1>4 DEF Places
  <2>10. \A g : g # h => Places(text, k, g) = Places(text, k - 1, g)
    BY <1>2, <1>4 DEF Places
  <2>11. old.subscribed <=> \E i \in Places(text, k - 1, h) : text[i].subscribed
    <3>1. CASE h \in DOMAIN s
      BY <1>1, <2>1, <3>1
    <3>2. CASE h \notin DOMAIN s
      <4>1. Places(text, k - 1, h) = {}
        BY <1>1, <2>1, <3>2
      <4> QED BY <3>2, <4>1
    <3> QED BY <3>1, <3>2
  <2>12. e.subscribed <=> \E i \in Places(text, k, h) : text[i].subscribed
    BY <2>6, <2>9, <2>11
  <2>13. UNION {Named(text[i]) : i \in Places(text, k, h)}
           = (UNION {Named(text[i]) : i \in Places(text, k - 1, h)}) \cup Named(line)
    BY <2>9
  <2>14. Denotes(e.read) = UNION {Named(text[i]) : i \in Places(text, k, h)}
    BY <1>1, <2>1, <2>7, <2>13
  <2> HIDE DEF t, e, h, old
  <2>15. IsStore(t)
    BY <1>1, <2>1, <2>3, <2>7, <2>8 DEF IsStore
  <2>16. ASSUME NEW g \in Groups
         PROVE  /\ g \in DOMAIN t <=> Places(text, k, g) # {}
                /\ Denotes(ReadSetOf(t, g)) = UNION {Named(text[i]) : i \in Places(text, k, g)}
                /\ g \in DOMAIN t =>
                      (t[g].subscribed <=> \E i \in Places(text, k, g) : text[i].subscribed)
    <3>1. CASE g = h
      <4>1. ReadSetOf(t, g) = e.read /\ g \in DOMAIN t /\ t[g] = e
        BY <2>3, <3>1 DEF ReadSetOf
      <4> QED BY <2>9, <2>12, <2>14, <3>1, <4>1
    <3>2. CASE g # h
      <4>1. (g \in DOMAIN t <=> g \in DOMAIN s) /\ (g \in DOMAIN s => t[g] = s[g])
        BY <2>3, <3>2
      <4>2. ReadSetOf(t, g) = ReadSetOf(s, g)
        BY <4>1 DEF ReadSetOf
      <4>3. Places(text, k, g) = Places(text, k - 1, g)
        BY <2>10, <3>2
      <4> QED BY <1>1, <4>1, <4>2, <4>3
    <3> QED BY <3>1, <3>2
  <2> QED BY <2>15, <2>16 DEF LoadedSoFar, t
<1> QED BY <1>3, <1>4

(***************************************************************************)
(* What load makes of any file is what the file says: groups repeated,     *)
(* ranges reversed and overlapping, and lines that are none included.      *)
(***************************************************************************)
THEOREM LoadSaysText ==
    ASSUME NEW text \in Seq(Lines)
    PROVE  IsStore(Load(text)) /\ Says(Load(text)) = TextSays(text)
PROOF
<1>1. Len(text) \in Nat /\ DOMAIN text = 1..Len(text)
  OBVIOUS
<1>2. Load(text) = Loading!Fold(text, Nothing, text)
  BY DEF Load, LoadStep, FoldLeft, MapThenFoldSet, Max,
         Loading!Fold, Loading!FoldLeft, Loading!MapThenFoldSet, Loading!Max
<1>3. LoadedSoFar(text, 0, Nothing)
  <2>1. DOMAIN Nothing = {}
    BY DEF Nothing
  <2>2. \A g : Places(text, 0, g) = {} /\ ReadSetOf(Nothing, g) = <<>>
    BY <2>1 DEF Places, ReadSetOf
  <2>3. Denotes(<<>>) = {}
    BY DEF Denotes
  <2> QED BY <2>1, <2>2, <2>3 DEF LoadedSoFar, IsStore
<1>4. ASSUME NEW k \in 1..Len(text), NEW s, LoadedSoFar(text, k - 1, s)
      PROVE  LoadedSoFar(text, k, LoadStep(text, s, text[k]))
  BY <1>4, LoadTurn DEF LoadStep
<1> DEFINE s == Load(text)
<1>5. LoadedSoFar(text, Len(text), s)
  <2>1. LoadedSoFar(text, Len(text), Loading!Fold(text, Nothing, text))
    BY <1>1, <1>3, <1>4, Loading!FoldKeeps
  <2> QED BY <1>2, <2>1
<1> HIDE DEF s
<1>6. ASSUME NEW g \in Groups
      PROVE  Says(s)[g] = TextSays(text)[g]
  <2> DEFINE P == Places(text, Len(text), g)
  <2>1. LinesOf(text, g) = {text[i] : i \in P}
    BY <1>1 DEF LinesOf, ToSet, Places
  <2>2. /\ g \in DOMAIN s <=> P # {}
        /\ Denotes(ReadSetOf(s, g)) = UNION {Named(text[i]) : i \in P}
        /\ g \in DOMAIN s => (s[g].subscribed <=> \E i \in P : text[i].subscribed)
    BY <1>5 DEF LoadedSoFar
  <2> HIDE DEF P
  <2>3. UNION {Named(line) : line \in LinesOf(text, g)} = UNION {Named(text[i]) : i \in P}
    BY <2>1
  <2>4. (g \in DOMAIN s /\ ~s[g].subscribed)
          <=> (LinesOf(text, g) # {} /\ \A line \in LinesOf(text, g) : ~line.subscribed)
    BY <2>1, <2>2
  <2>5. Says(s)[g] = [read |-> Denotes(ReadSetOf(s, g)),
                      unsubscribed |-> g \in DOMAIN s /\ ~s[g].subscribed]
    BY DEF Says
  <2>6. TextSays(text)[g] = [read |-> UNION {Named(line) : line \in LinesOf(text, g)},
                             unsubscribed |-> /\ LinesOf(text, g) # {}
                                              /\ \A line \in LinesOf(text, g) : ~line.subscribed]
    BY DEF TextSays
  <2> QED BY <2>2, <2>3, <2>4, <2>5, <2>6
<1>7. Says(s) = [g \in Groups |-> Says(s)[g]] /\ TextSays(text) = [g \in Groups |-> TextSays(text)[g]]
  BY DEF Says, TextSays
<1>8. Says(s) = TextSays(text)
  BY <1>6, <1>7
<1> QED BY <1>5, <1>8 DEF LoadedSoFar, s

-----------------------------------------------------------------------------
(* Rendering                                                               *)

(***************************************************************************)
(* A finite set, in some order, once each.                                 *)
(***************************************************************************)
LEMMA SetToSeqIs ==
    ASSUME NEW S, IsFiniteSet(S)
    PROVE  /\ Cardinality(S) \in Nat
           /\ SetToSeq(S) \in [1..Cardinality(S) -> S]
           /\ ToSet(SetToSeq(S)) = S
PROOF
<1> DEFINE n == Cardinality(S)
           f == SetToSeq(S)
<1>1. n \in Nat /\ ExistsBijection(1..n, S)
  BY FS_CardinalityType
<1>2. \E h \in [1..n -> S] : IsInjective(h)
  BY <1>1 DEF ExistsBijection, Bijection, Injection
<1>3. f \in [1..n -> S] /\ IsInjective(f)
  BY <1>2 DEF SetToSeq
<1> HIDE DEF n, f
<1>4. f \in Injection(1..n, S)
  BY <1>3 DEF Injection
<1>5. Cardinality(1..n) = n
  <2>1. Cardinality(1..n) = IF 1 > n THEN 0 ELSE n - 1 + 1
    BY <1>1, FS_Interval
  <2> QED BY <1>1, <2>1
<1>6. f \in Surjection(1..n, S)
  BY <1>4, <1>5, FS_Injection DEF n
<1>7. ToSet(f) = S
  BY <1>3, <1>6 DEF Surjection, ToSet
<1> QED BY <1>1, <1>3, <1>7 DEF n, f

\* The groups that to_newsrc writes a line for.
WrittenGroups(s) == {g \in DOMAIN s : s[g].read # <<>> \/ ~s[g].subscribed}

(***************************************************************************)
(* One line for each of them, in some order, and nothing else.             *)
(***************************************************************************)
LEMMA NewsrcLines ==
    ASSUME NEW s, IsStore(s)
    PROVE  /\ ToNewsrc(s) \in Seq(Lines)
           /\ ToSet(ToNewsrc(s)) = {Line(s, g) : g \in WrittenGroups(s)}
           /\ \A g \in DOMAIN s :
                 /\ Line(s, g) \in Entries /\ Line(s, g) # Junk
                 /\ Line(s, g).group = g /\ Line(s, g).subscribed = s[g].subscribed
                 /\ Named(Line(s, g)) = Denotes(s[g].read)
PROOF
<1> DEFINE W == WrittenGroups(s)
           w == SetToSeq(W)
           n == Cardinality(W)
           t == ToNewsrc(s)
<1>1. ASSUME NEW g \in DOMAIN s
      PROVE  /\ Line(s, g) \in Entries /\ Line(s, g) # Junk
             /\ Line(s, g).group = g /\ Line(s, g).subscribed = s[g].subscribed
             /\ Named(Line(s, g)) = Denotes(s[g].read)
  <2> DEFINE d == Display(s[g].read)
             l == Line(s, g)
  <2>1. g \in Groups /\ Normal(s[g].read) /\ s[g].subscribed \in BOOLEAN
    BY DEF IsStore
  <2>2. d \in Seq(Piece) /\ Denotes(Parse(d)) = Denotes(s[g].read)
    BY <2>1, DisplayParses
  <2> HIDE DEF d
  <2>3. Denotes(Parse(d)) = UNION {Between(p[1], p[Len(p)]) : p \in ToSet(d) \ {<<>>}}
    BY <2>2, ParseIsUnion, NamedIsUnion
  <2>4. l.ranges = d /\ l.group = g /\ l.subscribed = s[g].subscribed
    BY DEF Line, d
  <2>5. Named(l) = Denotes(s[g].read)
    BY <2>2, <2>3, <2>4 DEF Named
  <2>6. l \in Entries
    BY <2>1, <2>2 DEF Entries, Line, d
  <2>7. l # Junk
    BY <2>6, StoreAssumption
  <2> QED BY <2>4, <2>5, <2>6, <2>7
<1>2. IsFiniteSet(W) /\ W \subseteq DOMAIN s
  <2>1. W \subseteq DOMAIN s /\ DOMAIN s \subseteq Groups
    BY DEF WrittenGroups, IsStore
  <2>2. W \in SUBSET Groups
    BY <2>1
  <2> QED BY <2>1, <2>2, FS_Subset, StoreAssumption
<1>3. n \in Nat /\ w \in [1..n -> W] /\ ToSet(w) = W
  BY <1>2, SetToSeqIs
<1>4. t = [i \in 1..n |-> Line(s, w[i])]
  BY <1>3 DEF ToNewsrc, WrittenGroups
<1> HIDE DEF t, w, W, n
<1>5. \A i \in 1..n : t[i] \in Lines
  BY <1>1, <1>2, <1>3, <1>4 DEF Lines
<1>6. t \in Seq(Lines) /\ DOMAIN t = 1..n
  BY <1>3, <1>4, <1>5
<1>7. W = {w[i] : i \in 1..n}
  BY <1>3 DEF ToSet
<1>8. ToSet(t) = {Line(s, w[i]) : i \in 1..n}
  BY <1>4, <1>6 DEF ToSet
<1>9. ToSet(t) = {Line(s, g) : g \in W}
  BY <1>7, <1>8
<1> QED BY <1>1, <1>6, <1>9 DEF t, W

(***************************************************************************)
(* What to_newsrc writes says what the store holds, to any newsreader: the *)
(* groups it leaves out have nothing to say.                               *)
(***************************************************************************)
THEOREM NewsrcSaysStore ==
    ASSUME NEW s, IsStore(s)
    PROVE  ToNewsrc(s) \in Seq(Lines) /\ TextSays(ToNewsrc(s)) = Says(s)
PROOF
<1> DEFINE t == ToNewsrc(s)
<1>1. /\ t \in Seq(Lines)
      /\ ToSet(t) = {Line(s, g) : g \in WrittenGroups(s)}
  BY NewsrcLines
<1>2. \A g \in DOMAIN s :
         /\ Line(s, g) # Junk /\ Line(s, g).group = g
         /\ Line(s, g).subscribed = s[g].subscribed
         /\ Named(Line(s, g)) = Denotes(s[g].read)
  BY NewsrcLines
<1> HIDE DEF t
<1>3. WrittenGroups(s) \subseteq DOMAIN s
  BY DEF WrittenGroups
<1>4. Denotes(<<>>) = {}
  BY DEF Denotes
<1>5. ASSUME NEW g \in Groups
      PROVE  Says(s)[g] = TextSays(t)[g]
  <2>1. Says(s)[g] = [read |-> Denotes(ReadSetOf(s, g)),
                      unsubscribed |-> g \in DOMAIN s /\ ~s[g].subscribed]
    BY DEF Says
  <2>2. TextSays(t)[g] = [read |-> UNION {Named(line) : line \in LinesOf(t, g)},
                          unsubscribed |-> /\ LinesOf(t, g) # {}
                                           /\ \A line \in LinesOf(t, g) : ~line.subscribed]
    BY DEF TextSays
  <2>3. CASE g \in WrittenGroups(s)
    <3>1. LinesOf(t, g) = {Line(s, g)}
      BY <1>1, <1>2, <1>3, <2>3 DEF LinesOf
    <3>2. UNION {Named(line) : line \in LinesOf(t, g)} = Named(Line(s, g))
      BY <3>1
    <3>3. ReadSetOf(s, g) = s[g].read /\ g \in DOMAIN s
      BY <1>3, <2>3 DEF ReadSetOf
    <3>4. (g \in DOMAIN s /\ ~s[g].subscribed)
            <=> (LinesOf(t, g) # {} /\ \A line \in LinesOf(t, g) : ~line.subscribed)
      BY <1>2, <3>1, <3>3
    <3> QED BY <1>2, <2>1, <2>2, <3>2, <3>3, <3>4
  <2>4. CASE g \notin WrittenGroups(s)
    <3>1. LinesOf(t, g) = {}
      BY <1>1, <1>2, <1>3, <2>4 DEF LinesOf
    <3>2. ReadSetOf(s, g) = <<>> /\ ~(g \in DOMAIN s /\ ~s[g].subscribed)
      BY <2>4 DEF WrittenGroups, ReadSetOf
    <3>3. UNION {Named(line) : line \in LinesOf(t, g)} = {}
      BY <3>1
    <3> QED BY <1>4, <2>1, <2>2, <3>1, <3>2, <3>3
  <2> QED BY <2>3, <2>4
<1>6. Says(s) = [g \in Groups |-> Says(s)[g]] /\ TextSays(t) = [g \in Groups |-> TextSays(t)[g]]
  BY DEF Says, TextSays
<1>7. Says(s) = TextSays(t)
  BY <1>5, <1>6
<1> QED BY <1>1, <1>7 DEF t

-----------------------------------------------------------------------------
(* Readers and disk, for any number of readers                             *)

Phases == {"off", "running", "writing", "renaming"}

\* Every reader holds a store; one that has left holds nothing, and only a
\* reader that is writing has a file open.
ReadersOK ==
    /\ phase \in [Readers -> Phases]
    /\ dirty \in [Readers -> BOOLEAN] /\ problem \in [Readers -> BOOLEAN]
    /\ fd \in [Readers -> {0} \cup Files]
    /\ store = [p \in Readers |-> store[p]]
    /\ \A p \in Readers :
          /\ IsStore(store[p])
          /\ phase[p] = "off" => store[p] = Nothing /\ ~dirty[p] /\ ~problem[p]
          /\ phase[p] = "writing" <=> fd[p] # 0

Contents == [text: Seq(Lines), whole: BOOLEAN]

\* Whatever is cut short or written over, a file holds lines.
DiskOK ==
    /\ file \in {0} \cup Files /\ temporary \in {0} \cup Files
    /\ data \in [Files -> Contents]

StoreTypeOK == ReadersOK /\ DiskOK

(***************************************************************************)
(* There is always a file number nobody uses.                              *)
(***************************************************************************)
LEMMA UnusedIsFree ==
    ASSUME StoreTypeOK, temporary = 0
    PROVE  Unused \in Files /\ Unused # file /\ Unused # 0
PROOF
<1> DEFINE T == {fd[p] : p \in Readers}
           N == Cardinality(Readers)
           U == {file, temporary} \cup T
<1>1. IsFiniteSet(Readers) /\ N \in Nat
  BY StoreAssumption, FS_CardinalityType
<1>2. IsFiniteSet(T) /\ Cardinality(T) <= N
  <2>1. fd \in Surjection(Readers, T)
    BY DEF StoreTypeOK, ReadersOK, Surjection
  <2> QED BY <1>1, <2>1, FS_Surjection
<1>3. Cardinality(T) \in Nat
  BY <1>2, FS_CardinalityType
<1> HIDE DEF T, N
<1>4. IsFiniteSet(T \cup {file}) /\ Cardinality(T \cup {file}) <= N + 1 /\ Cardinality(T \cup {file}) \in Nat
  <2>1. /\ IsFiniteSet(T \cup {file})
        /\ Cardinality(T \cup {file}) = IF file \in T THEN Cardinality(T) ELSE Cardinality(T) + 1
    BY <1>2, FS_AddElement
  <2> QED BY <1>1, <1>2, <1>3, <2>1
<1>5. IsFiniteSet(Files) /\ Cardinality(Files) = N + 2 /\ 0 \notin Files
  <2>1. IsFiniteSet(1..(N + 2)) /\ Cardinality(1..(N + 2)) = IF 1 > N + 2 THEN 0 ELSE (N + 2) - 1 + 1
    BY <1>1, FS_Interval
  <2> QED BY <1>1, <2>1 DEF Files, N
<1>6. \E i \in Files : i \notin U
  <2> SUFFICES ASSUME Files \subseteq U PROVE FALSE
    OBVIOUS
  <2>1. Files \in SUBSET (T \cup {file})
    BY <1>5
  <2>2. Cardinality(Files) <= Cardinality(T \cup {file})
    BY <1>4, <2>1, FS_Subset
  <2> QED BY <1>1, <1>4, <1>5, <2>2
<1>7. Unused \in Files /\ Unused \notin U
  BY <1>6 DEF Unused, T
<1> QED BY <1>5, <1>7

(***************************************************************************)
(* An empty store is one.                                                  *)
(***************************************************************************)
LEMMA NothingIsStore == IsStore(Nothing)
PROOF
<1>1. DOMAIN Nothing = {}
  BY DEF Nothing
<1> QED BY <1>1 DEF IsStore

(***************************************************************************)
(* The read set of a group is in normal form, and replacing it by another  *)
(* in normal form leaves a store.                                          *)
(***************************************************************************)
LEMMA EntryReplaced ==
    ASSUME NEW s, IsStore(s), NEW g \in Groups
    PROVE  /\ Normal(ReadSetOf(s, g))
           /\ \A r : Normal(r) =>
                 /\ IsStore(WithRead(s, g, r))
                 /\ ReadSetOf(WithRead(s, g, r), g) = r
                 /\ \A h : h # g => ReadSetOf(WithRead(s, g, r), h) = ReadSetOf(s, h)
                 /\ \A h : (h \in DOMAIN WithRead(s, g, r) /\ ~WithRead(s, g, r)[h].subscribed)
                              <=> (h \in DOMAIN s /\ ~s[h].subscribed)
PROOF
<1>1. Normal(ReadSetOf(s, g))
  <2>1. Normal(<<>>)
    BY DEF Normal
  <2> QED BY <2>1 DEF ReadSetOf, IsStore
<1>2. ASSUME NEW r, Normal(r)
      PROVE  /\ IsStore(WithRead(s, g, r))
             /\ ReadSetOf(WithRead(s, g, r), g) = r
             /\ \A h : h # g => ReadSetOf(WithRead(s, g, r), h) = ReadSetOf(s, h)
             /\ \A h : (h \in DOMAIN WithRead(s, g, r) /\ ~WithRead(s, g, r)[h].subscribed)
                          <=> (h \in DOMAIN s /\ ~s[h].subscribed)
  <2> DEFINE e == [read |-> r, subscribed |-> IF g \in DOMAIN s THEN s[g].subscribed ELSE TRUE]
             t == WithRead(s, g, r)
  <2>1. e.read = r /\ e.subscribed = IF g \in DOMAIN s THEN s[g].subscribed ELSE TRUE
    OBVIOUS
  <2>2. e.subscribed \in BOOLEAN
    BY <2>1 DEF IsStore
  <2>3. t = WithEntry(s, g, e)
    BY DEF WithRead
  <2> HIDE DEF e, t
  <2>4. DOMAIN t = DOMAIN s \cup {g} /\ t[g] = e /\ \A h \in DOMAIN s : h # g => t[h] = s[h]
    BY <2>3 DEF WithEntry
  <2>5. IsStore(t)
    BY <1>2, <2>1, <2>2, <2>4 DEF IsStore
  <2>6. ReadSetOf(t, g) = r
    BY <2>1, <2>4 DEF ReadSetOf
  <2>7. \A h : h # g => ReadSetOf(t, h) = ReadSetOf(s, h)
    BY <2>4 DEF ReadSetOf
  <2>8. \A h : (h \in DOMAIN t /\ ~t[h].subscribed) <=> (h \in DOMAIN s /\ ~s[h].subscribed)
    BY <2>1, <2>4
  <2> QED BY <2>5, <2>6, <2>7, <2>8 DEF t
<1> QED BY <1>1, <1>2

(***************************************************************************)
(* What a store says after that: the flags as before, and only that        *)
(* group's numbers new.                                                    *)
(***************************************************************************)
LEMMA WithReadSays ==
    ASSUME NEW s, IsStore(s), NEW g \in Groups, NEW r, Normal(r)
    PROVE  /\ \A h \in Groups :
                 Says(WithRead(s, g, r))[h].unsubscribed = Says(s)[h].unsubscribed
           /\ Denotes(r) = Denotes(ReadSetOf(s, g)) => Says(WithRead(s, g, r)) = Says(s)
PROOF
<1> DEFINE t == WithRead(s, g, r)
<1>1. /\ ReadSetOf(t, g) = r
      /\ \A h : h # g => ReadSetOf(t, h) = ReadSetOf(s, h)
      /\ \A h : (h \in DOMAIN t /\ ~t[h].subscribed) <=> (h \in DOMAIN s /\ ~s[h].subscribed)
  BY EntryReplaced
<1> HIDE DEF t
<1>2. \A h \in Groups : (h \in DOMAIN t /\ ~t[h].subscribed) = (h \in DOMAIN s /\ ~s[h].subscribed)
  BY <1>1
<1>3. \A h \in Groups : Says(t)[h].unsubscribed = Says(s)[h].unsubscribed
  BY <1>2 DEF Says
<1>4. ASSUME Denotes(r) = Denotes(ReadSetOf(s, g))
      PROVE  Says(t) = Says(s)
  <2>1. \A h \in Groups : Denotes(ReadSetOf(t, h)) = Denotes(ReadSetOf(s, h))
    BY <1>1, <1>4
  <2> QED BY <1>2, <2>1 DEF Says
<1> QED BY <1>3, <1>4 DEF t

\* A call replaces the read set of one group, and sets the flag if it changed.
Edited(p, g, r, isDirty) ==
    /\ Changes(p, g, r, isDirty)
    /\ g \in Groups /\ Normal(r) /\ isDirty \in BOOLEAN
    /\ Denotes(r) # Denotes(ReadSetOf(store[p], g)) => isDirty

(***************************************************************************)
(* So do the four calls that change a store.  forget_expired tells a       *)
(* change by the counts, which is enough because it only takes numbers out.*)
(***************************************************************************)
LEMMA UseIsEdited ==
    ASSUME StoreTypeOK, NEW p \in Readers, Use(p)
    PROVE  \E g, r, isDirty : Edited(p, g, r, isDirty)
PROOF
<1>1. PICK g \in Groups :
         \/ \E n \in 1..MaxNumber : MarkRead(p, g, n) \/ MarkUnread(p, g, n)
         \/ \E n \in 1..MaxNumber : ForgetExpired(p, g, n)
         \/ \E low, high \in 1..MaxNumber : low <= high /\ MarkRangeRead(p, g, low, high)
  BY DEF Use
<1> DEFINE before == ReadSetOf(store[p], g)
<1>2. IsStore(store[p]) /\ dirty[p] \in BOOLEAN
  BY DEF StoreTypeOK, ReadersOK
<1>3. Normal(before)
  BY <1>2, EntryReplaced
<1>4. \A n \in 1..MaxNumber : n \in Number /\ n \in Nat /\ n - 1 \in Number
  BY MaxNumberAssumption DEF Number
<1>4a. 1 \in Number
  BY MaxNumberAssumption DEF Number
<1> HIDE DEF before
<1>5. ASSUME NEW n \in 1..MaxNumber, MarkRead(p, g, n)
      PROVE  Edited(p, g, InsertRange(before, n, n), TRUE)
  <2>1. Normal(InsertRange(before, n, n))
    BY <1>3, <1>4, InsertRangeIsUnion
  <2> QED BY <1>5, <2>1 DEF Edited, MarkRead, before
<1>6. ASSUME NEW n \in 1..MaxNumber, MarkUnread(p, g, n)
      PROVE  Edited(p, g, RemoveNumber(before, n), TRUE)
  <2>1. Normal(RemoveNumber(before, n))
    BY <1>3, <1>4, RemoveIsDifference
  <2> QED BY <1>6, <2>1 DEF Edited, MarkUnread, before
<1>7. ASSUME NEW low \in 1..MaxNumber, NEW high \in 1..MaxNumber, MarkRangeRead(p, g, low, high)
      PROVE  Edited(p, g, InsertRange(before, low, high), TRUE)
  <2>1. Normal(InsertRange(before, low, high))
    BY <1>3, <1>4, InsertRangeIsUnion
  <2> QED BY <1>7, <2>1 DEF Edited, MarkRangeRead, before
<1>8. ASSUME NEW n \in 1..MaxNumber, ForgetExpired(p, g, n)
      PROVE  \E r, isDirty : Edited(p, g, r, isDirty)
  <2> DEFINE after == RemoveRange(before, 1, n - 1)
             flag == \/ dirty[p]
                     \/ Len(after) # Len(before)
                     \/ Count(after) # Count(before)
  <2>1. Normal(after) /\ Denotes(after) = Denotes(before) \ Between(1, n - 1)
    BY <1>3, <1>4, <1>4a, RemoveRangeIsDifference
  <2>2. Changes(p, g, after, flag)
    BY <1>8 DEF ForgetExpired, before
  <2>3. flag \in BOOLEAN
    BY <1>2
  <2>4. Count(after) = Cardinality(Denotes(after)) /\ Count(before) = Cardinality(Denotes(before))
    BY <1>3, <2>1, CountIsSize
  <2> HIDE DEF after
  <2>5. IsFiniteSet(Denotes(before))
    <3>1. IsFiniteSet(Number)
      BY MaxNumberAssumption, FS_Interval DEF Number
    <3>2. Denotes(before) \in SUBSET Number
      BY DEF Denotes
    <3> QED BY <3>1, <3>2, FS_Subset
  <2>6. Denotes(after) # Denotes(before) => Count(after) # Count(before)
    <3>1. Denotes(after) \in SUBSET Denotes(before)
      BY <2>1
    <3>2. Cardinality(Denotes(before)) = Cardinality(Denotes(after)) => Denotes(before) = Denotes(after)
      BY <2>5, <3>1, FS_Subset
    <3> QED BY <2>4, <3>2
  <2>7. Edited(p, g, after, flag)
    BY <2>1, <2>2, <2>3, <2>6 DEF Edited, before
  <2> HIDE DEF flag
  <2> QED BY <2>7
<1> QED BY <1>1, <1>5, <1>6, <1>7, <1>8

(***************************************************************************)
(* A reader that leaves holds nothing more.                                *)
(***************************************************************************)
LEMMA OffKeeps ==
    ASSUME ReadersOK, NEW p \in Readers, Off(p)
    PROVE  ReadersOK'
PROOF
<1>1. /\ phase' = [phase EXCEPT ![p] = "off"] /\ store' = [store EXCEPT ![p] = Nothing]
      /\ dirty' = [dirty EXCEPT ![p] = FALSE] /\ problem' = [problem EXCEPT ![p] = FALSE]
      /\ fd' = [fd EXCEPT ![p] = 0]
  BY DEF Off
<1>2. /\ phase' \in [Readers -> Phases] /\ dirty' \in [Readers -> BOOLEAN]
      /\ problem' \in [Readers -> BOOLEAN] /\ fd' \in [Readers -> {0} \cup Files]
      /\ store' = [q \in Readers |-> store'[q]]
  BY <1>1 DEF ReadersOK, Phases
<1>3. ASSUME NEW q \in Readers
      PROVE  /\ IsStore(store'[q])
             /\ phase'[q] = "off" => store'[q] = Nothing /\ ~dirty'[q] /\ ~problem'[q]
             /\ phase'[q] = "writing" <=> fd'[q] # 0
  <2>1. CASE q = p
    BY <1>1, <2>1, NothingIsStore DEF ReadersOK
  <2>2. CASE q # p
    BY <1>1, <2>2 DEF ReadersOK
  <2> QED BY <2>1, <2>2
<1> QED BY <1>2, <1>3 DEF ReadersOK

(***************************************************************************)
(* Part of a text, or a text written over another, still holds lines.      *)
(***************************************************************************)
LEMMA TextsKept ==
    ASSUME NEW text \in Seq(Lines)
    PROVE  /\ \A part \in Prefixes(text) : part \in Seq(Lines)
           /\ \A under \in Seq(Lines) \ {<<>>} : \A rest \in Suffixes(Tail(under)) :
                 text \o <<Junk>> \o rest \in Seq(Lines)
PROOF
<1>1. ASSUME NEW part \in Prefixes(text) PROVE part \in Seq(Lines)
  <2>1. PICK l \in 0..Len(text) : part = SubSeq(text, 1, l)
    BY DEF Prefixes
  <2> QED BY <2>1
<1>2. ASSUME NEW under \in Seq(Lines) \ {<<>>}, NEW rest \in Suffixes(Tail(under))
      PROVE  text \o <<Junk>> \o rest \in Seq(Lines)
  <2> DEFINE u == Tail(under)
  <2>1. u \in Seq(Lines) /\ Len(u) \in Nat
    OBVIOUS
  <2> HIDE DEF u
  <2>2. rest \in Seq(Lines)
    <3>1. CASE rest = <<>>
      BY <3>1
    <3>2. CASE rest # <<>>
      <4>1. PICK l \in 1..Len(u) : rest = SubSeq(u, l, Len(u))
        BY <3>2 DEF Suffixes, u
      <4> QED BY <2>1, <4>1
    <3> QED BY <3>1, <3>2
  <2>3. <<Junk>> \in Seq(Lines)
    BY DEF Lines
  <2> QED BY <2>2, <2>3
<1> QED BY <1>1, <1>2

(***************************************************************************)
(* Cutting a write short leaves lines in the file.                         *)
(***************************************************************************)
LEMMA CutShortKeeps ==
    ASSUME StoreTypeOK, NEW p \in Readers, phase[p] = "writing", CutShort(p)
    PROVE  /\ DiskOK' /\ file' = file /\ temporary' = temporary
           /\ \A i \in Files : i # fd[p] => data'[i] = data[i]
PROOF
<1>1. PICK text \in Prefixes(ToNewsrc(store[p])) :
         data' = [data EXCEPT ![fd[p]] = [text |-> text, whole |-> FALSE]]
  BY DEF CutShort, Written
<1>2. file' = file /\ temporary' = temporary
  BY DEF CutShort
<1>3. ToNewsrc(store[p]) \in Seq(Lines)
  BY NewsrcSaysStore DEF StoreTypeOK, ReadersOK
<1>4. text \in Seq(Lines)
  BY <1>3, TextsKept
<1>5. [text |-> text, whole |-> FALSE] \in Contents
  BY <1>4 DEF Contents
<1>6. data' \in [Files -> Contents]
  BY <1>1, <1>5 DEF StoreTypeOK, DiskOK
<1>7. \A i \in Files : i # fd[p] => data'[i] = data[i]
  BY <1>1 DEF StoreTypeOK, DiskOK
<1> QED BY <1>2, <1>6, <1>7 DEF StoreTypeOK, DiskOK

(***************************************************************************)
(* The shape of readers and disk is kept by every step of any reader.      *)
(***************************************************************************)
LEMMA StoreTypeStep ==
    ASSUME StoreTypeOK, [Next]_vars
    PROVE  StoreTypeOK'
PROOF
<1>1. CASE UNCHANGED vars
  BY <1>1 DEF vars, reader, disk, StoreTypeOK, ReadersOK, DiskOK
<1>2. CASE Next
  <2>1. PICK p \in Readers : Start(p) \/ Use(p) \/ Save(p) \/ SaveFails(p) \/ Crash(p)
    BY <1>2 DEF Next
  <2>2. ReadersOK /\ DiskOK
    BY DEF StoreTypeOK
  <2>3. ASSUME UNCHANGED disk PROVE DiskOK'
    BY <2>2, <2>3 DEF disk, DiskOK
  <2>4. CASE Start(p)
    <3>1. UNCHANGED <<dirty, fd, disk>> /\ phase[p] = "off" /\ phase' = [phase EXCEPT ![p] = "running"]
      BY <2>4 DEF Start
    <3>2. /\ store' = [q \in Readers |-> store'[q]] /\ IsStore(store'[p])
          /\ problem' \in [Readers -> BOOLEAN]
          /\ \A q \in Readers : q # p => store'[q] = store[q] /\ problem'[q] = problem[q]
      <4>1. CASE /\ store' = [store EXCEPT ![p] = IF file = 0 THEN Nothing ELSE Load(data[file].text)]
                 /\ problem' = problem
        <5>1. file # 0 => data[file].text \in Seq(Lines)
          BY <2>2 DEF DiskOK, Contents
        <5>2. IsStore(IF file = 0 THEN Nothing ELSE Load(data[file].text))
          BY <5>1, LoadSaysText, NothingIsStore
        <5> QED BY <2>2, <4>1, <5>2 DEF ReadersOK
      <4>2. CASE problem' = [problem EXCEPT ![p] = TRUE] /\ store' = store
        BY <2>2, <4>2 DEF ReadersOK
      <4> QED BY <2>4, <4>1, <4>2 DEF Start
    <3>3. phase' \in [Readers -> Phases] /\ phase'[p] = "running"
          /\ \A q \in Readers : q # p => phase'[q] = phase[q]
      BY <2>2, <3>1 DEF ReadersOK, Phases
    <3>4. ReadersOK'
      BY <2>2, <3>1, <3>2, <3>3 DEF ReadersOK
    <3> QED BY <2>3, <3>1, <3>4 DEF StoreTypeOK
  <2>5. CASE Use(p)
    <3>1. PICK g, r, isDirty : Edited(p, g, r, isDirty)
      BY <2>5, UseIsEdited
    <3>2. /\ phase[p] = "running" /\ UNCHANGED <<phase, problem, fd, disk>>
          /\ store' = [store EXCEPT ![p] = WithRead(store[p], g, r)]
          /\ dirty' = [dirty EXCEPT ![p] = isDirty]
          /\ g \in Groups /\ Normal(r) /\ isDirty \in BOOLEAN
      BY <3>1 DEF Edited, Changes
    <3>3. IsStore(WithRead(store[p], g, r))
      BY <2>2, <3>2, EntryReplaced DEF ReadersOK
    <3>4. ReadersOK'
      BY <2>2, <3>2, <3>3 DEF ReadersOK
    <3> QED BY <2>3, <3>2, <3>4 DEF StoreTypeOK
  <2>6. CASE LeaveClean(p)
    BY <2>2, <2>3, <2>6, OffKeeps DEF LeaveClean, StoreTypeOK
  <2>7. CASE CreateTemporary(p)
    <3> DEFINE i == IF temporary = 0 THEN Unused ELSE temporary
    <3>1. /\ phase' = [phase EXCEPT ![p] = "writing"] /\ fd' = [fd EXCEPT ![p] = i]
          /\ temporary' = i /\ data' = [data EXCEPT ![i] = Truncated]
          /\ UNCHANGED <<store, dirty, problem, file>>
      BY <2>7 DEF CreateTemporary
    <3>2. i \in Files /\ i # 0
      <4>1. CASE temporary = 0
        BY <4>1, UnusedIsFree
      <4>2. CASE temporary # 0
        BY <2>2, <4>2 DEF DiskOK
      <4> QED BY <4>1, <4>2
    <3> HIDE DEF i
    <3>3. Truncated \in Contents
      BY DEF Truncated, Contents
    <3>4. DiskOK'
      BY <2>2, <3>1, <3>2, <3>3 DEF DiskOK
    <3>5. ReadersOK'
      BY <2>2, <3>1, <3>2 DEF ReadersOK, Phases
    <3> QED BY <3>4, <3>5 DEF StoreTypeOK
  <2>8. CASE WriteTemporary(p)
    <3>1. /\ phase[p] = "writing" /\ phase' = [phase EXCEPT ![p] = "renaming"]
          /\ fd' = [fd EXCEPT ![p] = 0]
          /\ UNCHANGED <<store, dirty, problem, file, temporary>>
      BY <2>8 DEF WriteTemporary
    <3>2. ReadersOK'
      BY <2>2, <3>1 DEF ReadersOK, Phases
    <3>3. fd[p] \in Files
      BY <2>2, <3>1 DEF ReadersOK
    <3>4. PICK text, whole : Written(fd[p], text, whole) /\ text \in Seq(Lines) /\ whole \in BOOLEAN
      <4> DEFINE mine == ToNewsrc(store[p])
                 under == data[fd[p]].text
      <4>1. mine \in Seq(Lines)
        BY <2>2, NewsrcSaysStore DEF ReadersOK
      <4>2. under \in Seq(Lines)
        BY <2>2, <3>3 DEF DiskOK, Contents
      <4>3. CASE Written(fd[p], mine, TRUE)
        BY <4>1, <4>3
      <4>4. CASE under # <<>> /\ \E rest \in Suffixes(Tail(under)) :
                                    Written(fd[p], mine \o <<Junk>> \o rest, FALSE)
        <5> HIDE DEF mine, under
        <5>1. PICK rest \in Suffixes(Tail(under)) : Written(fd[p], mine \o <<Junk>> \o rest, FALSE)
          BY <4>4
        <5>2. mine \o <<Junk>> \o rest \in Seq(Lines)
          BY <4>1, <4>2, <4>4, TextsKept
        <5> QED BY <5>1, <5>2
      <4> QED BY <2>8, <4>3, <4>4 DEF WriteTemporary
    <3>5. [text |-> text, whole |-> whole] \in Contents
      BY <3>4 DEF Contents
    <3>6. DiskOK'
      BY <2>2, <3>1, <3>3, <3>4, <3>5 DEF DiskOK, Written
    <3> QED BY <3>2, <3>6 DEF StoreTypeOK
  <2>9. CASE Rename(p)
    <3>1. DiskOK'
      BY <2>2, <2>9 DEF Rename, DiskOK
    <3> QED BY <2>2, <2>9, <3>1, OffKeeps DEF Rename, StoreTypeOK
  <2>10. CASE RenameMissing(p)
    BY <2>2, <2>3, <2>10, OffKeeps DEF RenameMissing, StoreTypeOK
  <2>11. CASE SaveFails(p)
    <3>1. CASE UNCHANGED disk
      BY <2>2, <2>3, <2>11, <3>1, OffKeeps DEF SaveFails, StoreTypeOK
    <3>2. CASE phase[p] = "writing" /\ CutShort(p)
      BY <2>2, <2>11, <3>2, OffKeeps, CutShortKeeps DEF SaveFails, StoreTypeOK
    <3> QED BY <2>11, <3>1, <3>2 DEF SaveFails
  <2>12. CASE Crash(p)
    <3>1. CASE UNCHANGED disk
      BY <2>2, <2>3, <2>12, <3>1, OffKeeps DEF Crash, StoreTypeOK
    <3>2. CASE phase[p] = "writing" /\ CutShort(p)
      BY <2>2, <2>12, <3>2, OffKeeps, CutShortKeeps DEF Crash, StoreTypeOK
    <3> QED BY <2>12, <3>1, <3>2 DEF Crash
  <2> QED
    BY <2>1, <2>4, <2>5, <2>6, <2>7, <2>8, <2>9, <2>10, <2>11, <2>12 DEF Save
<1> QED BY <1>1, <1>2

(***************************************************************************)
(* No reader has started, and the file is missing or some initial text.    *)
(***************************************************************************)
LEMMA StoreTypeInit ==
    ASSUME Init
    PROVE  StoreTypeOK
PROOF
<1>1. 1 \in Files
  <2>1. Cardinality(Readers) \in Nat
    BY StoreAssumption, FS_CardinalityType
  <2> QED BY <2>1 DEF Files
<1>2. /\ phase = [p \in Readers |-> "off"] /\ store = [p \in Readers |-> Nothing]
      /\ dirty = [p \in Readers |-> FALSE] /\ problem = [p \in Readers |-> FALSE]
      /\ fd = [p \in Readers |-> 0] /\ temporary = 0
  BY DEF Init
<1>3. ReadersOK
  BY <1>2, NothingIsStore DEF ReadersOK, Phases
<1>4. <<>> \in Seq(Lines)
  OBVIOUS
<1>5. CASE file = 0 /\ data = [i \in Files |-> [text |-> <<>>, whole |-> TRUE]]
  <2>1. [text |-> <<>>, whole |-> TRUE] \in Contents
    BY <1>4 DEF Contents
  <2> QED BY <1>2, <1>3, <1>5, <2>1 DEF StoreTypeOK, DiskOK
<1>6. CASE file = 1 /\ \E text \in InitialTexts :
              data = [i \in Files |-> [text |-> IF i = 1 THEN text ELSE <<>>, whole |-> TRUE]]
  <2>1. PICK text \in InitialTexts :
           data = [i \in Files |-> [text |-> IF i = 1 THEN text ELSE <<>>, whole |-> TRUE]]
    BY <1>6
  <2>2. text \in Seq(Lines)
    BY StoreAssumption
  <2>3. \A i : [text |-> IF i = 1 THEN text ELSE <<>>, whole |-> TRUE] \in Contents
    BY <1>4, <2>2 DEF Contents
  <2> QED BY <1>1, <1>2, <1>3, <1>6, <2>1, <2>3 DEF StoreTypeOK, DiskOK
<1> QED BY <1>5, <1>6 DEF Init

(***************************************************************************)
(* Readers and disk keep their shape, however many readers run and         *)
(* whatever fails: StoreTypeOK, the base of every invariant below.         *)
(***************************************************************************)
THEOREM StoreTyped == Spec => []StoreTypeOK
PROOF
<1>1. Init => StoreTypeOK
  BY StoreTypeInit
<1>2. StoreTypeOK /\ [Next]_vars => StoreTypeOK'
  BY StoreTypeStep
<1> QED BY <1>1, <1>2, PTL DEF Spec

(***************************************************************************)
(* However many readers change and leave, and whatever fails, a change to  *)
(* what a running store says leaves its flag set: ChangesAreDirty.         *)
(***************************************************************************)
THEOREM NoChangeIsMissed == Spec => ChangesAreDirty
PROOF
<1> DEFINE Caught(p) == (/\ phase[p] = "running" /\ phase'[p] = "running"
                         /\ Says(store'[p]) # Says(store[p])) => dirty'[p]
<1>1. ASSUME StoreTypeOK, [Next]_vars
      PROVE  [\A p \in Readers : Caught(p)]_vars
  <2> SUFFICES ASSUME Next, NEW p \in Readers,
                      phase[p] = "running", phase'[p] = "running",
                      Says(store'[p]) # Says(store[p])
               PROVE  dirty'[p]
    BY <1>1
  <2>1. PICK q \in Readers : Start(q) \/ Use(q) \/ Save(q) \/ SaveFails(q) \/ Crash(q)
    BY DEF Next
  <2>2. ReadersOK
    BY <1>1 DEF StoreTypeOK
  <2>3. CASE Start(q)
    <3>1. phase[q] = "off"
      BY <2>3 DEF Start
    <3>2. store'[p] = store[p]
      BY <2>2, <2>3, <3>1 DEF Start, ReadersOK
    <3> QED BY <3>2
  <2>4. CASE Use(q)
    <3>1. PICK g, r, isDirty : Edited(q, g, r, isDirty)
      BY <1>1, <2>4, UseIsEdited
    <3>2. /\ store' = [store EXCEPT ![q] = WithRead(store[q], g, r)]
          /\ dirty' = [dirty EXCEPT ![q] = isDirty]
          /\ g \in Groups /\ Normal(r) /\ isDirty \in BOOLEAN
          /\ Denotes(r) # Denotes(ReadSetOf(store[q], g)) => isDirty
      BY <3>1 DEF Edited, Changes
    <3>3. q = p
      <4> SUFFICES ASSUME q # p PROVE store'[p] = store[p]
        OBVIOUS
      <4> QED BY <2>2, <3>2 DEF ReadersOK
    <3>4. store'[p] = WithRead(store[p], g, r) /\ dirty'[p] = isDirty /\ IsStore(store[p])
      BY <2>2, <3>2, <3>3 DEF ReadersOK
    <3>5. ASSUME Denotes(r) = Denotes(ReadSetOf(store[p], g))
          PROVE  Says(store'[p]) = Says(store[p])
      BY <3>2, <3>4, <3>5, WithReadSays
    <3> QED BY <3>2, <3>3, <3>4, <3>5
  <2>5. CASE Save(q) \/ SaveFails(q) \/ Crash(q)
    <3>1. CASE Off(q)
      <4>1. phase' = [phase EXCEPT ![q] = "off"] /\ store' = [store EXCEPT ![q] = Nothing]
        BY <3>1 DEF Off
      <4>2. p # q
        BY <2>2, <4>1 DEF ReadersOK
      <4>3. store'[p] = store[p]
        BY <2>2, <4>1, <4>2 DEF ReadersOK
      <4> QED BY <4>3
    <3>2. CASE CreateTemporary(q) \/ WriteTemporary(q)
      <4>1. store' = store
        BY <3>2 DEF CreateTemporary, WriteTemporary
      <4> QED BY <4>1
    <3> QED BY <2>5, <3>1, <3>2 DEF Save, LeaveClean, Rename, RenameMissing, SaveFails, Crash
  <2> QED BY <2>1, <2>3, <2>4, <2>5
<1> QED BY <1>1, StoreTyped, PTL DEF Spec, ChangesAreDirty

-----------------------------------------------------------------------------
(* The temporary file                                                      *)

\* A temporary file belongs to a save that is under way.
InUse == temporary # 0 => \E p \in Readers : phase[p] \in {"writing", "renaming"}

(***************************************************************************)
(* However the saves of any number of readers interleave, no temporary     *)
(* file is left once nobody is saving, as long as no save fails and nobody *)
(* crashes after the file is created: NoLitter.                            *)
(***************************************************************************)
THEOREM NothingLeftBehind ==
    ASSUME Faults \cap {"write", "rename", "crash"} = {}
    PROVE  Spec => []NoLitter
PROOF
<1>1. Init => InUse
  BY DEF Init, InUse
<1>2. ASSUME StoreTypeOK, InUse, [Next]_vars
      PROVE  InUse'
  <2>1. CASE UNCHANGED vars
    BY <1>2, <2>1 DEF vars, reader, disk, InUse
  <2>2. CASE Next
    <3>1. PICK p \in Readers : Start(p) \/ Use(p) \/ Save(p) \/ SaveFails(p) \/ Crash(p)
      BY <2>2 DEF Next
    <3>2. phase \in [Readers -> Phases]
      BY <1>2 DEF StoreTypeOK, ReadersOK
    <3>3. ASSUME temporary' = temporary, phase[p] \in {"off", "running"},
                 \A q \in Readers : q # p => phase'[q] = phase[q]
          PROVE  InUse'
      BY <1>2, <3>3 DEF InUse
    <3>4. CASE Start(p)
      BY <3>2, <3>3, <3>4 DEF Start, disk
    <3>5. CASE Use(p)
      <4>1. PICK g, r, isDirty : Edited(p, g, r, isDirty)
        BY <1>2, <3>5, UseIsEdited
      <4> QED BY <3>3, <4>1 DEF Edited, Changes, disk
    <3>6. CASE LeaveClean(p)
      BY <3>2, <3>3, <3>6 DEF LeaveClean, Off, disk
    <3>7. CASE CreateTemporary(p)
      <4>1. phase'[p] = "writing"
        BY <3>2, <3>7 DEF CreateTemporary
      <4> QED BY <4>1 DEF InUse
    <3>8. CASE WriteTemporary(p)
      <4>1. phase'[p] = "renaming"
        BY <3>2, <3>8 DEF WriteTemporary
      <4> QED BY <4>1 DEF InUse
    <3>9. CASE Rename(p)
      BY <3>9 DEF Rename, InUse
    <3>10. CASE RenameMissing(p)
      BY <3>10 DEF RenameMissing, disk, InUse
    <3>11. CASE SaveFails(p)
      BY <3>2, <3>3, <3>11 DEF SaveFails, Off, disk
    <3>12. CASE Crash(p)
      BY <3>12 DEF Crash
    <3> QED BY <3>1, <3>4, <3>5, <3>6, <3>7, <3>8, <3>9, <3>10, <3>11, <3>12 DEF Save
  <2> QED BY <1>2, <2>1, <2>2
<1>3. InUse => NoLitter
  BY DEF InUse, NoLitter
<1> QED BY <1>1, <1>2, <1>3, StoreTyped, PTL DEF Spec

-----------------------------------------------------------------------------
(* One reader at a time                                                    *)

Alone == \A p, q \in Readers : p = q

\* The file and the temporary file are two files; the latter is empty while it
\* is open and holds the reader's text, whole, before it is renamed.
OwnTemporary ==
    /\ temporary # 0 => temporary # file
    /\ \A p \in Readers :
          /\ phase[p] = "writing" => fd[p] = temporary /\ data[temporary].text = <<>>
          /\ phase[p] = "renaming" =>
                /\ temporary # 0
                /\ data[temporary].text = ToNewsrc(store[p]) /\ data[temporary].whole

Saved == TextSays(OnFile)

\* A reader that could read the file still holds its `!`s.
FlagsHeld ==
    \A p \in Readers : phase[p] # "off" /\ ~problem[p] =>
        \A g \in Groups : Saved[g].unsubscribed => Says(store[p])[g].unsubscribed

AloneInv == NeverHalfWritten /\ OwnTemporary /\ FlagsHeld

\* What a step of p does, seen from outside: it opens the saved state, goes on, or
\* leaves, and leaving may put what it held in place of the saved state.
Opens(p) == /\ phase[p] = "off" /\ phase'[p] # "off"
            /\ Saved' = Saved
            /\ Says(store'[p]) \in {Saved, Says(Nothing)}

GoesOn(p) == phase[p] # "off" /\ phase'[p] # "off" /\ Saved' = Saved

Leaves(p) == /\ phase[p] # "off" /\ phase'[p] = "off"
             /\ Saved' \in {Saved, Says(store[p])}

(***************************************************************************)
(* A missing file says what an empty store does.                           *)
(***************************************************************************)
LEMMA BlankSays == TextSays(<<>>) = Says(Nothing)
PROOF
<1>1. DOMAIN Nothing = {}
  BY DEF Nothing
<1>2. \A g : LinesOf(<<>>, g) = {} /\ ReadSetOf(Nothing, g) = <<>>
  BY <1>1 DEF LinesOf, ToSet, ReadSetOf
<1>3. Denotes(<<>>) = {}
  BY DEF Denotes
<1>4. \A g \in Groups : UNION {Named(line) : line \in LinesOf(<<>>, g)} = {}
  BY <1>2
<1>5. \A g \in Groups : TextSays(<<>>)[g] = [read |-> {}, unsubscribed |-> FALSE]
  BY <1>2, <1>4 DEF TextSays
<1>6. \A g \in Groups : Says(Nothing)[g] = [read |-> {}, unsubscribed |-> FALSE]
  BY <1>1, <1>2, <1>3 DEF Says
<1>7. /\ TextSays(<<>>) = [g \in Groups |-> TextSays(<<>>)[g]]
      /\ Says(Nothing) = [g \in Groups |-> Says(Nothing)[g]]
  BY DEF TextSays, Says
<1> QED BY <1>5, <1>6, <1>7

(***************************************************************************)
(* As long as the name and what it links to stay, so does what is saved.   *)
(***************************************************************************)
LEMMA FileKept ==
    ASSUME file' = file, file # 0 => data'[file] = data[file]
    PROVE  Saved' = Saved /\ (NeverHalfWritten => NeverHalfWritten')
PROOF
<1>1. OnFile' = OnFile
  BY DEF OnFile
<1> QED BY <1>1 DEF Saved, NeverHalfWritten

(***************************************************************************)
(* Leaving without a rename.                                               *)
(***************************************************************************)
LEMMA LeavesAsItWas ==
    ASSUME Alone, StoreTypeOK, AloneInv, NEW p \in Readers, phase[p] # "off", Off(p),
           \/ UNCHANGED disk
           \/ phase[p] = "writing" /\ CutShort(p)
    PROVE  AloneInv' /\ Leaves(p)
PROOF
<1>1. phase'[p] = "off"
  BY DEF Off, StoreTypeOK, ReadersOK
<1>2. file' = file /\ temporary' = temporary /\ (file # 0 => data'[file] = data[file])
  <2>1. CASE UNCHANGED disk
    BY <2>1 DEF disk
  <2>2. CASE phase[p] = "writing" /\ CutShort(p)
    <3>1. /\ file' = file /\ temporary' = temporary
          /\ \A i \in Files : i # fd[p] => data'[i] = data[i]
      BY <2>2, CutShortKeeps
    <3>2. fd[p] = temporary /\ fd[p] # 0
      BY <2>2 DEF AloneInv, OwnTemporary, StoreTypeOK, ReadersOK
    <3>3. file # 0 => file \in Files /\ file # fd[p]
      BY <3>2 DEF AloneInv, OwnTemporary, StoreTypeOK, DiskOK
    <3> QED BY <3>1, <3>3
  <2> QED BY <2>1, <2>2
<1>3. Saved' = Saved /\ NeverHalfWritten'
  BY <1>2, FileKept DEF AloneInv
<1>4. \A q \in Readers : phase'[q] = "off"
  BY <1>1 DEF Alone
<1>5. OwnTemporary' /\ FlagsHeld'
  BY <1>2, <1>4 DEF AloneInv, OwnTemporary, FlagsHeld
<1> QED BY <1>1, <1>3, <1>5 DEF AloneInv, Leaves

(***************************************************************************)
(* Every step of the only reader keeps the invariant, and is one of the    *)
(* three seen from outside.                                                *)
(***************************************************************************)
LEMMA AloneStep ==
    ASSUME Alone, StoreTypeOK, AloneInv, Next
    PROVE  AloneInv' /\ \E p \in Readers : Opens(p) \/ GoesOn(p) \/ Leaves(p)
PROOF
<1>1. PICK p \in Readers : Start(p) \/ Use(p) \/ Save(p) \/ SaveFails(p) \/ Crash(p)
  BY DEF Next
<1>2. ReadersOK /\ DiskOK
  BY DEF StoreTypeOK
<1>3. NeverHalfWritten /\ OwnTemporary /\ FlagsHeld
  BY DEF AloneInv
<1>4. \A q \in Readers : q = p
  BY DEF Alone
<1>5. 0 \notin Files
  BY DEF Files
<1>6. CASE Start(p)
  <2>1. phase[p] = "off" /\ phase' = [phase EXCEPT ![p] = "running"] /\ UNCHANGED disk
    BY <1>6 DEF Start
  <2>2. phase'[p] = "running"
    BY <1>2, <2>1 DEF ReadersOK
  <2>3. Saved' = Saved /\ NeverHalfWritten'
    BY <1>3, <2>1, FileKept DEF disk
  <2>4. OwnTemporary'
    BY <1>3, <1>4, <2>1, <2>2 DEF OwnTemporary, disk
  <2>5. CASE store' = [store EXCEPT ![p] = IF file = 0 THEN Nothing ELSE Load(data[file].text)]
    <3>1. store'[p] = IF file = 0 THEN Nothing ELSE Load(data[file].text)
      BY <1>2, <2>5 DEF ReadersOK
    <3>2. Says(store'[p]) = Saved
      <4>1. CASE file = 0
        BY <3>1, <4>1, BlankSays DEF Saved, OnFile
      <4>2. CASE file # 0
        <5>1. data[file].text \in Seq(Lines)
          BY <1>2, <4>2 DEF DiskOK, Contents
        <5> QED BY <3>1, <4>2, <5>1, LoadSaysText DEF Saved, OnFile
      <4> QED BY <4>1, <4>2
    <3>3. FlagsHeld'
      BY <1>4, <2>3, <3>2 DEF FlagsHeld
    <3>4. Opens(p)
      BY <2>1, <2>2, <2>3, <3>2 DEF Opens
    <3> QED BY <2>3, <2>4, <3>3, <3>4 DEF AloneInv
  <2>6. CASE problem' = [problem EXCEPT ![p] = TRUE] /\ store' = store
    <3>1. problem'[p] /\ store'[p] = Nothing
      BY <1>2, <2>1, <2>6 DEF ReadersOK
    <3>2. FlagsHeld'
      BY <1>4, <3>1 DEF FlagsHeld
    <3>3. Opens(p)
      BY <2>1, <2>2, <2>3, <3>1 DEF Opens
    <3> QED BY <2>3, <2>4, <3>2, <3>3 DEF AloneInv
  <2> QED BY <1>6, <2>5, <2>6 DEF Start
<1>7. CASE Use(p)
  <2>1. PICK g, r, isDirty : Edited(p, g, r, isDirty)
    BY <1>7, UseIsEdited
  <2>2. /\ phase[p] = "running" /\ UNCHANGED <<phase, problem, disk>>
        /\ store' = [store EXCEPT ![p] = WithRead(store[p], g, r)]
        /\ g \in Groups /\ Normal(r)
    BY <2>1 DEF Edited, Changes
  <2>3. store'[p] = WithRead(store[p], g, r) /\ IsStore(store[p])
    BY <1>2, <2>2 DEF ReadersOK
  <2>4. \A h \in Groups : Says(store'[p])[h].unsubscribed = Says(store[p])[h].unsubscribed
    BY <2>2, <2>3, WithReadSays
  <2>5. Saved' = Saved /\ NeverHalfWritten'
    BY <1>3, <2>2, FileKept DEF disk
  <2>6. OwnTemporary'
    BY <1>3, <1>4, <2>2 DEF OwnTemporary, disk
  <2>7. FlagsHeld'
    BY <1>3, <1>4, <2>2, <2>4, <2>5 DEF FlagsHeld
  <2>8. GoesOn(p)
    BY <2>2, <2>5 DEF GoesOn
  <2> QED BY <2>5, <2>6, <2>7, <2>8 DEF AloneInv
<1>8. CASE LeaveClean(p)
  BY <1>8, LeavesAsItWas DEF LeaveClean
<1>9. CASE CreateTemporary(p)
  <2> DEFINE i == IF temporary = 0 THEN Unused ELSE temporary
  <2>1. /\ phase[p] = "running" /\ phase' = [phase EXCEPT ![p] = "writing"]
        /\ fd' = [fd EXCEPT ![p] = i] /\ temporary' = i
        /\ data' = [data EXCEPT ![i] = Truncated]
        /\ UNCHANGED <<store, problem, file>>
    BY <1>9 DEF CreateTemporary
  <2>2. i \in Files /\ i # file
    <3>1. CASE temporary = 0
      BY <3>1, UnusedIsFree
    <3>2. CASE temporary # 0
      BY <1>2, <1>3, <3>2 DEF DiskOK, OwnTemporary
    <3> QED BY <3>1, <3>2
  <2> HIDE DEF i
  <2>3. /\ phase'[p] = "writing" /\ fd'[p] = i /\ data'[i].text = <<>>
        /\ file # 0 => data'[file] = data[file]
    BY <1>2, <2>1, <2>2 DEF ReadersOK, DiskOK, Truncated
  <2>4. Saved' = Saved /\ NeverHalfWritten'
    BY <1>3, <2>1, <2>3, FileKept
  <2>5. OwnTemporary'
    BY <1>4, <2>1, <2>2, <2>3 DEF OwnTemporary
  <2>6. FlagsHeld'
    BY <1>3, <1>4, <2>1, <2>4 DEF FlagsHeld
  <2>7. GoesOn(p)
    BY <2>1, <2>3, <2>4 DEF GoesOn
  <2> QED BY <2>4, <2>5, <2>6, <2>7 DEF AloneInv
<1>10. CASE WriteTemporary(p)
  <2>1. /\ phase[p] = "writing" /\ phase' = [phase EXCEPT ![p] = "renaming"]
        /\ UNCHANGED <<store, problem, file, temporary>>
    BY <1>10 DEF WriteTemporary
  <2>2. fd[p] = temporary /\ temporary \in Files /\ temporary # file /\ data[temporary].text = <<>>
    BY <1>2, <1>3, <1>5, <2>1 DEF ReadersOK, OwnTemporary
  <2>3. data' = [data EXCEPT ![temporary] = [text |-> ToNewsrc(store[p]), whole |-> TRUE]]
    BY <1>10, <2>2 DEF WriteTemporary, Written
  <2>4. /\ data'[temporary].text = ToNewsrc(store[p]) /\ data'[temporary].whole
        /\ file # 0 => data'[file] = data[file]
    BY <1>2, <2>2, <2>3 DEF DiskOK
  <2>5. phase'[p] = "renaming"
    BY <1>2, <2>1 DEF ReadersOK
  <2>6. Saved' = Saved /\ NeverHalfWritten'
    BY <1>3, <2>1, <2>4, FileKept
  <2>7. OwnTemporary'
    BY <1>4, <1>5, <2>1, <2>2, <2>4, <2>5 DEF OwnTemporary
  <2>8. FlagsHeld'
    BY <1>3, <1>4, <2>1, <2>6 DEF FlagsHeld
  <2>9. GoesOn(p)
    BY <2>1, <2>5, <2>6 DEF GoesOn
  <2> QED BY <2>6, <2>7, <2>8, <2>9 DEF AloneInv
<1>11. CASE Rename(p)
  <2>1. /\ phase[p] = "renaming" /\ temporary # 0 /\ file' = temporary /\ temporary' = 0
        /\ data' = data /\ Off(p)
    BY <1>11 DEF Rename
  <2>2. data[temporary].text = ToNewsrc(store[p]) /\ data[temporary].whole
    BY <1>3, <2>1 DEF OwnTemporary
  <2>3. phase'[p] = "off"
    BY <1>2, <2>1 DEF Off, ReadersOK
  <2>4. OnFile' = ToNewsrc(store[p]) /\ NeverHalfWritten'
    BY <2>1, <2>2 DEF OnFile, NeverHalfWritten
  <2>5. Saved' = Says(store[p])
    <3>1. Saved' = TextSays(ToNewsrc(store[p]))
      BY <2>4 DEF Saved
    <3> QED BY <1>2, <3>1, NewsrcSaysStore DEF ReadersOK
  <2>6. OwnTemporary' /\ FlagsHeld'
    BY <1>4, <2>1, <2>3 DEF OwnTemporary, FlagsHeld
  <2> QED BY <2>1, <2>3, <2>4, <2>5, <2>6 DEF AloneInv, Leaves
<1>12. CASE RenameMissing(p)
  BY <1>12, LeavesAsItWas DEF RenameMissing
<1>13. CASE SaveFails(p)
  <2>1. Off(p) /\ phase[p] # "off" /\ (UNCHANGED disk \/ (phase[p] = "writing" /\ CutShort(p)))
    BY <1>13 DEF SaveFails
  <2> QED BY <2>1, LeavesAsItWas
<1>14. CASE Crash(p)
  <2>1. Off(p) /\ phase[p] # "off" /\ (UNCHANGED disk \/ (phase[p] = "writing" /\ CutShort(p)))
    BY <1>14 DEF Crash
  <2> QED BY <2>1, LeavesAsItWas
<1> QED
  BY <1>1, <1>6, <1>7, <1>8, <1>9, <1>10, <1>11, <1>12, <1>13, <1>14 DEF Save

(***************************************************************************)
(* Nothing has been opened or written yet.                                 *)
(***************************************************************************)
LEMMA AloneInit ==
    ASSUME Init
    PROVE  AloneInv
PROOF
<1>1. temporary = 0 /\ phase = [p \in Readers |-> "off"] /\ (file = 0 \/ file = 1)
  BY DEF Init
<1>2. OwnTemporary /\ FlagsHeld
  BY <1>1 DEF OwnTemporary, FlagsHeld
<1>3. NeverHalfWritten
  <2> SUFFICES ASSUME file # 0 PROVE data[file].whole
    BY DEF NeverHalfWritten
  <2>1. file \in Files
    BY StoreTypeInit DEF StoreTypeOK, DiskOK
  <2>2. PICK text : data = [i \in Files |-> [text |-> IF i = 1 THEN text ELSE <<>>, whole |-> TRUE]]
    BY DEF Init
  <2> QED BY <2>1, <2>2
<1> QED BY <1>2, <1>3 DEF AloneInv

(***************************************************************************)
(* The invariant of the only reader.                                       *)
(***************************************************************************)
LEMMA AloneHolds ==
    ASSUME Alone
    PROVE  Spec => []AloneInv
PROOF
<1>1. Init => AloneInv
  BY AloneInit
<1>2. StoreTypeOK /\ AloneInv /\ [Next]_vars => AloneInv'
  <2>1. ASSUME AloneInv, UNCHANGED vars PROVE AloneInv'
    BY <2>1 DEF vars, reader, disk, AloneInv, NeverHalfWritten, OwnTemporary, FlagsHeld, Saved, OnFile
  <2> QED BY <2>1, AloneStep
<1> QED BY <1>1, <1>2, StoreTyped, PTL DEF Spec

(***************************************************************************)
(* One reader at a time, started and stopped any number of times: whatever *)
(* fails and wherever it crashes, the file is the old one or the new one,  *)
(* never half of one: NeverHalfWritten.                                    *)
(***************************************************************************)
THEOREM FileIsWhole ==
    ASSUME Alone
    PROVE  Spec => []NeverHalfWritten
PROOF
<1>1. AloneInv => NeverHalfWritten
  BY DEF AloneInv
<1> QED BY <1>1, AloneHolds, PTL

(***************************************************************************)
(* One reader at a time: a `!` in the file survives every session that     *)
(* could read the file: UnsubscribedKept.                                  *)
(***************************************************************************)
THEOREM FlagsSurvive ==
    ASSUME Alone
    PROVE  Spec => UnsubscribedKept
PROOF
<1>1. ASSUME StoreTypeOK, AloneInv, [Next]_vars
      PROVE  [\A g \in Groups : TextSays(OnFile)[g].unsubscribed
                 => \/ TextSays(OnFile)'[g].unsubscribed
                    \/ \E p \in Readers : problem[p]]_vars
  <2> SUFFICES ASSUME Next, NEW g \in Groups, Saved[g].unsubscribed,
                      \A p \in Readers : ~problem[p]
               PROVE  Saved'[g].unsubscribed
    BY <1>1 DEF Saved
  <2>1. PICK p \in Readers : Opens(p) \/ GoesOn(p) \/ Leaves(p)
    BY <1>1, AloneStep
  <2>2. CASE Saved' = Saved
    BY <2>2
  <2>3. CASE Leaves(p) /\ Saved' = Says(store[p])
    <3>1. phase[p] # "off" /\ ~problem[p]
      BY <2>3 DEF Leaves
    <3>2. Says(store[p])[g].unsubscribed
      BY <1>1, <3>1 DEF AloneInv, FlagsHeld
    <3> QED BY <2>3, <3>2
  <2> QED BY <2>1, <2>2, <2>3 DEF Opens, GoesOn, Leaves
<1> QED BY <1>1, StoreTyped, AloneHolds, PTL DEF Spec, UnsubscribedKept

(***************************************************************************)
(* What a store says is one of the states it may say.                      *)
(***************************************************************************)
LEMMA SaysIsState ==
    ASSUME NEW s, IsStore(s)
    PROVE  Says(s) \in States /\ Says(s) # None
PROOF
<1>1. MaxNumber \in Nat
  BY MaxNumberAssumption
<1>2. ASSUME NEW g \in Groups PROVE Denotes(ReadSetOf(s, g)) \in SUBSET (1..MaxNumber)
  <2>1. Normal(ReadSetOf(s, g))
    BY EntryReplaced
  <2> DEFINE r == ReadSetOf(s, g)
  <2>2. ASSUME NEW n \in Denotes(r) PROVE n \in 1..MaxNumber
    <3>1. n \in 0..MaxNumber
      BY DEF Denotes, Number
    <3>2. PICK i \in DOMAIN r : r[i].low <= n
      BY DEF Denotes
    <3>3. r[i].low \in Nat /\ 1 <= r[i].low
      BY <2>1, <3>2, NormalFacts
    <3> HIDE DEF r
    <3> QED BY <1>1, <3>1, <3>2, <3>3
  <2> QED BY <2>2
<1>3. ASSUME NEW g \in Groups
      PROVE  [read |-> Denotes(ReadSetOf(s, g)), unsubscribed |-> g \in DOMAIN s /\ ~s[g].subscribed]
                \in [read: SUBSET (1..MaxNumber), unsubscribed: BOOLEAN]
  BY <1>2
<1>4. Says(s) \in States
  BY <1>3 DEF Says, States
<1> QED BY <1>4, StoreAssumption

Memory == [p \in Readers |-> IF phase[p] = "off" THEN None ELSE Says(store[p])]

(***************************************************************************)
(* One reader at a time: the store with its file, its temporary file and   *)
(* everything that can go wrong between them is an atomic store:           *)
(* ImplementsAtomicStore.                                                  *)
(***************************************************************************)
THEOREM StoreIsAtomic ==
    ASSUME Alone
    PROVE  Spec => ImplementsAtomicStore
PROOF
<1>1. ASSUME Init PROVE Atomic!Init
  <2>1. phase = [p \in Readers |-> "off"] /\ StoreTypeOK
    BY <1>1, StoreTypeInit DEF Init
  <2>2. Memory = [p \in Readers |-> None]
    BY <2>1 DEF Memory
  <2>3. OnFile \in Seq(Lines)
    BY <2>1 DEF OnFile, StoreTypeOK, DiskOK, Contents
  <2>4. Saved \in States
    BY <2>3, LoadSaysText, SaysIsState DEF Saved
  <2> QED BY <2>2, <2>4 DEF Atomic!Init, Memory, Saved
<1>2. ASSUME StoreTypeOK, StoreTypeOK', AloneInv, [Next]_vars
      PROVE  [Atomic!Next]_<<Saved, Memory>>
  <2>1. CASE UNCHANGED vars
    BY <2>1 DEF vars, reader, disk, Saved, OnFile, Memory
  <2>2. CASE Next
    <3>1. PICK p \in Readers : Opens(p) \/ GoesOn(p) \/ Leaves(p)
      BY <1>2, <2>2, AloneStep
    <3>2. IsStore(store[p]) /\ IsStore(store'[p])
      BY <1>2 DEF StoreTypeOK, ReadersOK
    <3>3. Says(store[p]) # None /\ Says(store'[p]) \in States
      BY <3>2, SaysIsState
    <3>4. /\ Memory[p] = IF phase[p] = "off" THEN None ELSE Says(store[p])
          /\ Memory'[p] = IF phase'[p] = "off" THEN None ELSE Says(store'[p])
      BY DEF Memory
    <3>5. Memory' = [Memory EXCEPT ![p] = Memory'[p]]
      <4>1. \A q \in Readers : q = p
        BY DEF Alone
      <4>2. DOMAIN Memory = Readers /\ DOMAIN Memory' = Readers
        BY DEF Memory
      <4>3. Memory = [q \in Readers |-> Memory[q]] /\ Memory' = [q \in Readers |-> Memory'[q]]
        BY DEF Memory
      <4> QED BY <4>1, <4>2, <4>3
    <3>6. CASE Opens(p)
      <4>1. Atomic!Open(p)
        BY <3>4, <3>5, <3>6 DEF Opens, Atomic!Open, Atomic!Others, Memory, Saved
      <4> QED BY <4>1 DEF Atomic!Next
    <3>7. CASE GoesOn(p)
      <4>1. Atomic!Change(p)
        BY <3>3, <3>4, <3>5, <3>7 DEF GoesOn, Atomic!Change, Atomic!Others, Memory, Saved
      <4> QED BY <4>1 DEF Atomic!Next
    <3>8. CASE Leaves(p)
      <4>1. Atomic!Leave(p)
        BY <3>3, <3>4, <3>5, <3>8 DEF Leaves, Atomic!Leave, Memory, Saved
      <4> QED BY <4>1 DEF Atomic!Next
    <3> QED BY <3>1, <3>6, <3>7, <3>8
  <2> QED BY <1>2, <2>1, <2>2
<1> QED
  BY <1>1, <1>2, StoreTyped, AloneHolds, PTL DEF Spec, ImplementsAtomicStore, Atomic!Spec, Saved, Memory

=============================================================================
