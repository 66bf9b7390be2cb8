---------------------------- MODULE FoldTheorems ----------------------------
(***************************************************************************)
(* What a left fold over a sequence returns, for any step, and what a sum  *)
(* over positions returns, for any weight.  A loop of the code that reads  *)
(* its input once, from the front, is a FoldLeft in the model, and one     *)
(* that adds up is a MapThenSumSet: these facts say that either goes       *)
(* through a result for every prefix.  The step and the weight are         *)
(* parameters, so each loop takes its own instance.  The last section says *)
(* that a function defined by recursion on a number is what its equation   *)
(* says, so that a walk of that many steps can be followed.                *)
(***************************************************************************)
EXTENDS SequencesExt, FiniteSetTheorems, WellFoundedInduction, TLAPS

CONSTANTS step(_, _, _),      \* context, result so far, next element -> result
          weigh(_, _),        \* context, position -> a number
          Holds(_, _, _)      \* what is to hold of context, position and result

Fold(c, base, seq) == FoldLeft(LAMBDA x, y : step(c, x, y), base, seq)

(***************************************************************************)
(* The least-number principle, from the well-foundedness of < .            *)
(***************************************************************************)
LEMMA LeastNumber ==
    ASSUME NEW S, S \subseteq Nat, S # {}
    PROVE  \E m \in S : \A x \in S : m <= x
PROOF
<1>1. PICK m \in S : \A y \in S : ~ (<<y, m>> \in OpToRel(<, Nat))
  BY NatLessThanWellFounded, WFMin
<1>2. \A y \in S : ~ (y < m)
  BY <1>1 DEF OpToRel
<1> QED
  BY <1>2

(***************************************************************************)
(* The order a left fold takes its indices in, last one first.             *)
(***************************************************************************)
LEMMA GreatestIndex ==
    ASSUME NEW n \in Nat, NEW s \in SUBSET (1..n), s # {}
    PROVE  Max(s) \in s /\ \A y \in s : y <= Max(s)
PROOF
<1> DEFINE B == {b \in Nat : \A y \in s : y <= b}
<1>1. n \in B
  OBVIOUS
<1>2. PICK m \in B : \A x \in B : m <= x
  <2>1. B \subseteq Nat /\ B # {}
    BY <1>1
  <2> HIDE DEF B
  <2> QED BY <2>1, LeastNumber
<1>3. m \in s
  <2> SUFFICES ASSUME m \notin s PROVE FALSE
    OBVIOUS
  <2>1. PICK y \in s : TRUE
    OBVIOUS
  <2>2. m \in Nat /\ m >= 1 /\ \A x \in s : x <= m /\ x # m /\ x \in Nat
    BY <2>1
  <2>3. m - 1 \in B
    BY <2>2
  <2>4. m <= m - 1
    BY <1>2, <2>3
  <2> QED BY <2>2, <2>4
<1>4. \E x \in s : \A y \in s : x >= y
  BY <1>3
<1> QED
  BY <1>4 DEF Max

\* The equation that defines the fold, for the index sets in D.
Solves(it, c, base, seq, D) ==
    \A x \in D : it[x] = IF x = {} THEN base ELSE step(c, it[x \ {Max(x)}], seq[Max(x)])

(***************************************************************************)
(* The equation that defines the fold has a solution, built from the       *)
(* front: index sets up to m need only those up to m - 1.                  *)
(***************************************************************************)
LEMMA FoldDefined ==
    ASSUME NEW c, NEW base, NEW seq, NEW n \in Nat
    PROVE  \E it : /\ it = [x \in SUBSET (1..n) |-> it[x]]
                   /\ Solves(it, c, base, seq, SUBSET (1..n))
PROOF
<1> DEFINE All == SUBSET (1..n)
           Has(m) == \E it : it = [x \in All |-> it[x]] /\ Solves(it, c, base, seq, SUBSET (1..m))
           Bad == {m \in 0..n : ~Has(m)}
<1>1. CASE Bad = {}
  <2>1. Has(n)
    <3>1. n \in 0..n
      OBVIOUS
    <3> HIDE DEF Has
    <3> QED BY <1>1, <3>1
  <2> QED BY <2>1
<1>2. CASE Bad # {}
  <2>1. PICK m \in Bad : \A x \in Bad : m <= x
    <3>1. Bad \subseteq Nat
      OBVIOUS
    <3> HIDE DEF Bad
    <3> QED BY <1>2, <3>1, LeastNumber
  <2>2. m \in 0..n /\ ~Has(m)
    OBVIOUS
  <2>3. CASE m = 0
    <3> DEFINE it == [x \in All |-> base]
    <3>1. \A x \in SUBSET (1..0) : x = {}
      OBVIOUS
    <3>2. it = [x \in All |-> it[x]] /\ {} \in All
      OBVIOUS
    <3>3. Solves(it, c, base, seq, SUBSET (1..0))
      BY <3>1, <3>2 DEF Solves
    <3>4. Has(0)
      <4> HIDE DEF it
      <4> QED BY <3>2, <3>3
    <3> QED BY <2>2, <2>3, <3>4
  <2>4. CASE m # 0
    <3>1. m - 1 \in 0..n /\ m \in 1..n /\ m - 1 \notin Bad
      <4>1. m \in Nat /\ m - 1 \in 0..n /\ m \in 1..n
        BY <2>2, <2>4
      <4>2. m - 1 \in Bad => m <= m - 1
        BY <2>1
      <4> HIDE DEF Bad
      <4> QED BY <4>1, <4>2
    <3>2. Has(m - 1)
      BY <3>1
    <3>3. PICK f : f = [x \in All |-> f[x]] /\ Solves(f, c, base, seq, SUBSET (1..(m - 1)))
      BY <3>2
    <3> DEFINE it == [x \in All |-> IF x \in SUBSET (1..(m - 1)) THEN f[x]
                                    ELSE step(c, f[x \ {Max(x)}], seq[Max(x)])]
    <3>4. it = [x \in All |-> it[x]]
      OBVIOUS
    <3>5. ASSUME NEW x \in SUBSET (1..m)
          PROVE  it[x] = IF x = {} THEN base ELSE step(c, it[x \ {Max(x)}], seq[Max(x)])
      <4>1. x \in All
        BY <3>1
      <4>2. CASE x = {}
        <5>1. x \in SUBSET (1..(m - 1))
          BY <4>2
        <5>2. it[x] = f[x]
          BY <4>1, <5>1
        <5>3. f[x] = base
          BY <3>3, <4>2, <5>1 DEF Solves
        <5> QED BY <4>2, <5>2, <5>3
      <4>3. CASE x # {}
        <5> DEFINE r == x \ {Max(x)}
        <5>1. m \in Nat /\ Max(x) \in x /\ \A y \in x : y <= Max(x)
          BY <3>1, <4>3, GreatestIndex
        <5>2. r \in SUBSET (1..(m - 1)) /\ r \in All
          BY <3>1, <4>1, <5>1
        <5>3. it[r] = f[r]
          BY <5>2
        <5>4. it[x] = step(c, f[r], seq[Max(x)])
          <6>1. CASE x \in SUBSET (1..(m - 1))
            <7>1. it[x] = f[x]
              BY <4>1, <6>1
            <7>2. f[x] = step(c, f[r], seq[Max(x)])
              BY <3>3, <4>3, <6>1 DEF Solves
            <7> QED BY <7>1, <7>2
          <6>2. CASE x \notin SUBSET (1..(m - 1))
            BY <4>1, <6>2
          <6> QED BY <6>1, <6>2
        <5> QED BY <4>3, <5>3, <5>4
      <4> QED BY <4>2, <4>3
    <3>6. Has(m)
      <4>1. Solves(it, c, base, seq, SUBSET (1..m))
        BY <3>5 DEF Solves
      <4> HIDE DEF it
      <4> QED BY <3>4, <4>1
    <3> QED BY <2>2, <3>6
  <2> QED BY <2>3, <2>4
<1> QED BY <1>1, <1>2

\* The results for the prefixes of seq, the last one that of the fold.
Traces(it, c, base, seq, n) ==
    /\ it[0] = base
    /\ \A k \in 1..n : it[k] = step(c, it[k - 1], seq[k])
    /\ Fold(c, base, seq) = it[n]

(***************************************************************************)
(* A left fold goes through one result per prefix.                         *)
(***************************************************************************)
LEMMA FoldTrace ==
    ASSUME NEW c, NEW base, NEW seq, NEW n \in Nat, DOMAIN seq = 1..n
    PROVE  \E it : Traces(it, c, base, seq, n)
PROOF
<1>1. n \in Nat /\ DOMAIN seq = 1..n
  OBVIOUS
<1>2. \E f : f = [x \in SUBSET DOMAIN seq |->
                     IF x = {} THEN base ELSE step(c, f[x \ {Max(x)}], seq[Max(x)])]
  <2>1. PICK f : f = [x \in SUBSET (1..n) |-> f[x]] /\ Solves(f, c, base, seq, SUBSET (1..n))
    BY <1>1, FoldDefined
  <2>2. f = [x \in SUBSET (1..n) |-> IF x = {} THEN base ELSE step(c, f[x \ {Max(x)}], seq[Max(x)])]
    BY <2>1 DEF Solves
  <2> QED BY <1>1, <2>2
<1>3. PICK f : /\ f = [x \in SUBSET DOMAIN seq |->
                          IF x = {} THEN base ELSE step(c, f[x \ {Max(x)}], seq[Max(x)])]
               /\ Fold(c, base, seq) = f[DOMAIN seq]
  BY <1>2 DEF Fold, FoldLeft, MapThenFoldSet
<1> DEFINE it == [k \in 0..n |-> f[1..k]]
<1>4. it[0] = base
  <2>1. 1..0 = {} /\ {} \in SUBSET DOMAIN seq /\ 0 \in 0..n
    BY <1>1
  <2>2. f[{}] = base
    BY <1>3, <2>1
  <2> QED BY <2>1, <2>2
<1>5. ASSUME NEW k \in 1..n
      PROVE  it[k] = step(c, it[k - 1], seq[k])
  <2>1. k \in 0..n /\ k - 1 \in 0..n /\ 1..k \in SUBSET DOMAIN seq /\ k \in 1..k /\ k \in Nat
    BY <1>1
  <2>2. Max(1..k) = k
    <3>1. Max(1..k) \in 1..k /\ \A y \in 1..k : y <= Max(1..k)
      BY <2>1, GreatestIndex
    <3> QED BY <2>1, <3>1
  <2>3. (1..k) \ {k} = 1..(k - 1)
    BY <2>1
  <2>4. f[1..k] = step(c, f[(1..k) \ {Max(1..k)}], seq[Max(1..k)])
    BY <1>3, <2>1
  <2> QED BY <2>1, <2>2, <2>3, <2>4
<1>6. it[n] = f[1..n]
  BY <1>1
<1> HIDE DEF it
<1>7. Traces(it, c, base, seq, n)
  BY <1>1, <1>3, <1>4, <1>5, <1>6 DEF Traces
<1> QED BY <1>7

(***************************************************************************)
(* What holds of the start, and is kept by each step, holds of the result. *)
(***************************************************************************)
THEOREM FoldKeeps ==
    ASSUME NEW c, NEW base, NEW seq, NEW n \in Nat, DOMAIN seq = 1..n,
           Holds(c, 0, base),
           \A k \in 1..n : \A x : Holds(c, k - 1, x) => Holds(c, k, step(c, x, seq[k]))
    PROVE  Holds(c, n, Fold(c, base, seq))
PROOF
<1>0. PICK it : Traces(it, c, base, seq, n)
  BY FoldTrace
<1>1. /\ it[0] = base
      /\ \A k \in 1..n : it[k] = step(c, it[k - 1], seq[k])
      /\ Fold(c, base, seq) = it[n]
  BY <1>0 DEF Traces
<1> DEFINE Bad == {k \in 0..n : ~Holds(c, k, it[k])}
<1>2. n \in Nat
  OBVIOUS
<1>3. Bad = {}
  <2> SUFFICES ASSUME Bad # {} PROVE FALSE
    OBVIOUS
  <2>1. PICK m \in Bad : \A x \in Bad : m <= x
    <3>1. Bad \subseteq Nat
      BY <1>2
    <3> HIDE DEF Bad
    <3> QED BY <3>1, LeastNumber
  <2>2. m \in 0..n /\ ~Holds(c, m, it[m])
    OBVIOUS
  <2>3. m # 0
    BY <1>1, <2>2
  <2>4. m \in 1..n /\ m - 1 \in 0..n /\ m \in Nat
    BY <1>2, <2>2, <2>3
  <2>5. m - 1 \notin Bad
    <3>1. m - 1 \in Bad => m <= m - 1
      BY <2>1
    <3> QED BY <2>4, <3>1
  <2>6. Holds(c, m - 1, it[m - 1])
    BY <2>4, <2>5
  <2>7. Holds(c, m, step(c, it[m - 1], seq[m]))
    BY <2>4, <2>6
  <2> QED BY <1>1, <2>2, <2>4, <2>7
<1>4. Holds(c, n, it[n])
  BY <1>2, <1>3
<1> QED BY <1>1, <1>4

-----------------------------------------------------------------------------
(* Recursion on a number                                                   *)

(***************************************************************************)
(* A set of numbers that holds the first and, after one, the next, holds   *)
(* them all.                                                               *)
(***************************************************************************)
LEMMA Upward ==
    ASSUME NEW n \in Nat, NEW G, 0 \in G, \A k \in 1..n : k - 1 \in G => k \in G
    PROVE  0..n \subseteq G
PROOF
<1> DEFINE Bad == (0..n) \ G
<1> SUFFICES ASSUME Bad # {} PROVE FALSE
  OBVIOUS
<1>1. PICK m \in Bad : \A x \in Bad : m <= x
  <2>1. Bad \subseteq Nat
    OBVIOUS
  <2> HIDE DEF Bad
  <2> QED BY <2>1, LeastNumber
<1>2. m \in Nat /\ m # 0 /\ m <= n /\ m \notin G
  OBVIOUS
<1>3. m - 1 \in 0..n /\ m \in 1..n
  BY <1>2
<1>4. m - 1 \notin Bad
  <2>1. m - 1 \in Bad => m <= m - 1
    BY <1>1
  <2> HIDE DEF Bad
  <2> QED BY <1>2, <2>1
<1>5. m - 1 \in G
  BY <1>3, <1>4
<1> QED BY <1>2, <1>3, <1>5

\* The values of f, each made of the one before.
Iterates(f, F, base, n) == f[0] = base /\ \A k \in 1..n : f[k] = F[k][f[k - 1]]

(***************************************************************************)
(* A function on numbers may be defined by its first value and a step from *)
(* each value to the next, for steps that stay in a set.                   *)
(***************************************************************************)
LEMMA IterationDefined ==
    ASSUME NEW T, NEW n \in Nat, NEW F, \A k \in 1..n : \A x \in T : F[k][x] \in T,
           NEW base \in T
    PROVE  \E f \in [0..n -> T] : Iterates(f, F, base, n)
PROOF
<1> DEFINE G == {m \in 0..n : \E f \in [0..n -> T] : Iterates(f, F, base, m)}
<1>1. 0 \in G
  <2> DEFINE f == [k \in 0..n |-> base]
  <2>1. f \in [0..n -> T] /\ Iterates(f, F, base, 0)
    BY DEF Iterates
  <2> HIDE DEF f
  <2> QED BY <2>1
<1>2. ASSUME NEW m \in 1..n, m - 1 \in G
      PROVE  m \in G
  <2>1. PICK g \in [0..n -> T] : Iterates(g, F, base, m - 1)
    BY <1>2
  <2> DEFINE f == [k \in 0..n |-> IF k = m THEN F[m][g[m - 1]] ELSE g[k]]
  <2>2. g[m - 1] \in T /\ F[m][g[m - 1]] \in T
    BY <2>1
  <2>3. f \in [0..n -> T]
    BY <2>1, <2>2
  <2>4. f[m] = F[m][f[m - 1]] /\ f[0] = base
    BY <2>1 DEF Iterates
  <2>5. ASSUME NEW k \in 1..(m - 1)
        PROVE  f[k] = F[k][f[k - 1]]
    BY <2>1 DEF Iterates
  <2> HIDE DEF f
  <2>6. \A k \in 1..m : k = m \/ k \in 1..(m - 1)
    OBVIOUS
  <2>7. Iterates(f, F, base, m)
    BY <2>4, <2>5, <2>6 DEF Iterates
  <2> QED BY <2>3, <2>7
<1>3. 0..n \subseteq G
  <2> HIDE DEF G
  <2> QED BY <1>1, <1>2, Upward
<1>4. n \in G
  BY <1>3
<1> QED BY <1>4

\* f solves a recursion on a number.
Recurses(f, c, base, n) ==
    /\ f = [k \in 0..n |-> f[k]]
    /\ \A k \in 0..n : f[k] = IF k = 0 THEN base ELSE step(c, f[k - 1], k)

(***************************************************************************)
(* A function on numbers may be defined by its first value and a step from *)
(* each value to the next, whatever the values are.                        *)
(***************************************************************************)
LEMMA RecursionDefined ==
    ASSUME NEW n \in Nat, NEW c, NEW base
    PROVE  \E f : Recurses(f, c, base, n)
PROOF
<1> DEFINE G == {m \in 0..n : \E f : Recurses(f, c, base, m)}
<1>1. 0 \in G
  <2> DEFINE f == [k \in 0..0 |-> base]
  <2>1. \A k \in 0..0 : f[k] = IF k = 0 THEN base ELSE step(c, f[k - 1], k)
    OBVIOUS
  <2>2. f = [k \in 0..0 |-> f[k]]
    OBVIOUS
  <2> HIDE DEF f
  <2>3. Recurses(f, c, base, 0)
    BY <2>1, <2>2 DEF Recurses
  <2> QED BY <2>3
<1>2. ASSUME NEW m \in 1..n, m - 1 \in G
      PROVE  m \in G
  <2>1. PICK g : Recurses(g, c, base, m - 1)
    BY <1>2
  <2> DEFINE f == [k \in 0..m |-> IF k = m THEN step(c, g[m - 1], m) ELSE g[k]]
  <2>2. f = [k \in 0..m |-> f[k]]
    OBVIOUS
  <2>3. \A k \in 0..(m - 1) : g[k] = IF k = 0 THEN base ELSE step(c, g[k - 1], k)
    BY <2>1 DEF Recurses
  <2>4. ASSUME NEW k \in 0..m
        PROVE  f[k] = IF k = 0 THEN base ELSE step(c, f[k - 1], k)
    <3>1. CASE k = m
      BY <3>1
    <3>2. CASE k # m
      <4>1. k \in 0..(m - 1) /\ (k # 0 => k - 1 \in 0..m /\ k - 1 # m)
        BY <3>2
      <4>2. f[k] = g[k] /\ (k # 0 => f[k - 1] = g[k - 1])
        BY <3>2, <4>1
      <4> QED BY <2>3, <4>1, <4>2
    <3> QED BY <3>1, <3>2
  <2> HIDE DEF f
  <2>5. Recurses(f, c, base, m)
    BY <2>2, <2>4 DEF Recurses
  <2> QED BY <2>5
<1>3. 0..n \subseteq G
  <2> HIDE DEF G
  <2> QED BY <1>1, <1>2, Upward
<1>4. n \in G
  BY <1>3
<1> QED BY <1>4

-----------------------------------------------------------------------------
(* Sums                                                                    *)

SumUpTo(c, n) == MapThenSumSet(LAMBDA i : weigh(c, i), 1..n)

\* The element MapThenSumSet takes next.
Picked(x) == CHOOSE y \in x : TRUE

\* The equation that defines the sum, for the index sets in D.
Adds(it, c, D) ==
    \A x \in D : it[x] = IF x = {} THEN 0 ELSE weigh(c, Picked(x)) + it[x \ {Picked(x)}]

(***************************************************************************)
(* Index sets are finite, and one without an element is smaller by one.    *)
(***************************************************************************)
LEMMA IndexSets ==
    ASSUME NEW n \in Nat, NEW x \in SUBSET (1..n)
    PROVE  /\ IsFiniteSet(x) /\ Cardinality(x) \in Nat /\ Cardinality(x) <= n
           /\ Cardinality(x) = 0 <=> x = {}
           /\ \A y \in x : Cardinality(x \ {y}) = Cardinality(x) - 1
PROOF
<1>1. IsFiniteSet(1..n) /\ Cardinality(1..n) = n
  BY FS_Interval
<1>2. IsFiniteSet(x) /\ Cardinality(x) <= n
  BY <1>1, FS_Subset
<1>3. Cardinality(x) \in Nat
  BY <1>2, FS_CardinalityType
<1>4. Cardinality(x) = 0 <=> x = {}
  BY <1>2, FS_EmptySet
<1>5. \A y \in x : Cardinality(x \ {y}) = Cardinality(x) - 1
  BY <1>2, FS_RemoveElement
<1> QED BY <1>2, <1>3, <1>4, <1>5

(***************************************************************************)
(* The equation that defines the sum has a solution, built up by size.     *)
(***************************************************************************)
LEMMA SumDefined ==
    ASSUME NEW c, NEW n \in Nat
    PROVE  \E it : /\ it = [x \in SUBSET (1..n) |-> it[x]]
                   /\ Adds(it, c, SUBSET (1..n))
PROOF
<1> DEFINE All == SUBSET (1..n)
           Small(m) == {x \in All : Cardinality(x) <= m}
           Has(m) == \E it : it = [x \in All |-> it[x]] /\ Adds(it, c, Small(m))
           Bad == {m \in 0..n : ~Has(m)}
<1>1. CASE Bad = {}
  <2>1. Has(n)
    <3>1. n \in 0..n
      OBVIOUS
    <3> HIDE DEF Has
    <3> QED BY <1>1, <3>1
  <2>2. Small(n) = All
    BY IndexSets
  <2> HIDE DEF Small
  <2> QED BY <2>1, <2>2
<1>2. CASE Bad # {}
  <2>1. PICK m \in Bad : \A x \in Bad : m <= x
    <3>1. Bad \subseteq Nat
      OBVIOUS
    <3> HIDE DEF Bad
    <3> QED BY <1>2, <3>1, LeastNumber
  <2>2. m \in 0..n /\ ~Has(m)
    OBVIOUS
  <2>3. CASE m = 0
    <3> DEFINE it == [x \in All |-> 0]
    <3>1. \A x \in Small(0) : x = {} /\ x \in All
      BY IndexSets
    <3>2. it = [x \in All |-> it[x]]
      OBVIOUS
    <3>3. Adds(it, c, Small(0))
      <4> HIDE DEF Small
      <4> QED BY <3>1 DEF Adds
    <3>4. Has(0)
      <4> HIDE DEF it, Small
      <4> QED BY <3>2, <3>3
    <3> HIDE DEF Has
    <3> QED BY <2>2, <2>3, <3>4
  <2>4. CASE m # 0
    <3>1. m - 1 \in 0..n /\ m \in 1..n /\ m - 1 \notin Bad
      <4>1. m \in Nat /\ m - 1 \in 0..n /\ m \in 1..n
        BY <2>2, <2>4
      <4>2. m - 1 \in Bad => m <= m - 1
        BY <2>1
      <4> HIDE DEF Bad
      <4> QED BY <4>1, <4>2
    <3>2. Has(m - 1)
      <4> HIDE DEF Has
      <4> QED BY <3>1
    <3>3. PICK f : f = [x \in All |-> f[x]] /\ Adds(f, c, Small(m - 1))
      BY <3>2
    <3> DEFINE it == [x \in All |-> IF x \in Small(m - 1) THEN f[x]
                                    ELSE weigh(c, Picked(x)) + f[x \ {Picked(x)}]]
    <3>4. it = [x \in All |-> it[x]]
      OBVIOUS
    <3>5. ASSUME NEW x \in Small(m)
          PROVE  it[x] = IF x = {} THEN 0 ELSE weigh(c, Picked(x)) + it[x \ {Picked(x)}]
      <4>1. x \in All /\ Cardinality(x) <= m
        OBVIOUS
      <4>2. CASE x = {}
        <5>1. x \in Small(m - 1)
          <6>1. Cardinality(x) = 0
            BY <4>2, <4>1, IndexSets
          <6> QED BY <6>1, <4>1, <3>1
        <5> HIDE DEF Small
        <5>2. it[x] = f[x]
          BY <4>1, <5>1
        <5>3. f[x] = 0
          BY <3>3, <4>2, <5>1 DEF Adds
        <5> QED BY <4>2, <5>2, <5>3
      <4>3. CASE x # {}
        <5> DEFINE r == x \ {Picked(x)}
        <5>1. Picked(x) \in x
          BY <4>3 DEF Picked
        <5>2. r \in Small(m - 1) /\ r \in All
          <6>1. Cardinality(r) = Cardinality(x) - 1 /\ Cardinality(x) \in Nat
            BY <4>1, <5>1, IndexSets
          <6> QED BY <6>1, <4>1, <3>1
        <5> HIDE DEF Small
        <5>3. it[r] = f[r]
          BY <5>2
        <5>4. it[x] = weigh(c, Picked(x)) + f[r]
          <6>1. CASE x \in Small(m - 1)
            <7>1. it[x] = f[x]
              BY <4>1, <6>1
            <7>2. f[x] = weigh(c, Picked(x)) + f[r]
              BY <3>3, <4>3, <6>1 DEF Adds
            <7> QED BY <7>1, <7>2
          <6>2. CASE x \notin Small(m - 1)
            BY <4>1, <6>2
          <6> QED BY <6>1, <6>2
        <5> QED BY <4>3, <5>3, <5>4
      <4> QED BY <4>2, <4>3
    <3>6. Has(m)
      <4>1. Adds(it, c, Small(m))
        <5> HIDE DEF Small
        <5> QED BY <3>5 DEF Adds
      <4> HIDE DEF it, Small
      <4> QED BY <3>4, <4>1
    <3> HIDE DEF Has
    <3> QED BY <2>2, <3>6
  <2> QED BY <2>3, <2>4
<1> QED BY <1>1, <1>2

\* The weights are naturals, and the sum may take any of its elements first.
Weights(c, n) == \A k \in 1..n : weigh(c, k) \in Nat

Orderless(it, c, n) ==
    \A x \in SUBSET (1..n) :
        it[x] \in Nat /\ \A y \in x : it[x] = weigh(c, y) + it[x \ {y}]

(***************************************************************************)
(* A sum of naturals may take any of its elements first.                   *)
(***************************************************************************)
LEMMA AnyFirst ==
    ASSUME NEW c, NEW n \in Nat, Weights(c, n), NEW it, Adds(it, c, SUBSET (1..n))
    PROVE  Orderless(it, c, n)
PROOF
<1> USE DEF Weights, Orderless
<1> DEFINE Good(x) == it[x] \in Nat /\ \A y \in x : it[x] = weigh(c, y) + it[x \ {y}]
           Bad == {m \in Nat : \E x \in SUBSET (1..n) : Cardinality(x) = m /\ ~Good(x)}
<1>1. CASE Bad = {}
  <2>1. ASSUME NEW x \in SUBSET (1..n) PROVE Good(x)
    <3>1. Cardinality(x) \in Nat
      BY IndexSets
    <3> HIDE DEF Good
    <3> QED BY <1>1, <3>1
  <2> QED BY <2>1
<1>2. CASE Bad # {}
  <2>1. PICK m \in Bad : \A z \in Bad : m <= z
    <3>1. Bad \subseteq Nat
      OBVIOUS
    <3> HIDE DEF Bad
    <3> QED BY <1>2, <3>1, LeastNumber
  <2>2. PICK x \in SUBSET (1..n) : Cardinality(x) = m /\ ~Good(x)
    OBVIOUS
  <2>3. ASSUME NEW w \in SUBSET (1..n), Cardinality(w) = m - 1
        PROVE  Good(w)
    <3>1. Cardinality(w) \in Nat /\ m \in Nat
      BY IndexSets
    <3>2. SUFFICES ASSUME ~Good(w) PROVE FALSE
      OBVIOUS
    <3>3. m - 1 \in Bad
      <4> HIDE DEF Good
      <4> QED BY <2>3, <3>1, <3>2
    <3>4. m <= m - 1
      BY <2>1, <3>3
    <3> QED BY <3>1, <3>4
  <2>4. Good(x)
    <3>1. CASE x = {}
      <4>1. it[x] = 0
        BY <3>1 DEF Adds
      <4> QED BY <3>1, <4>1
    <3>2. CASE x # {}
      <4> DEFINE p == Picked(x)
      <4>1. p \in x
        BY <3>2 DEF Picked
      <4>2. it[x] = weigh(c, p) + it[x \ {p}]
        BY <3>2 DEF Adds
      <4> HIDE DEF p
      <4>3. \A y \in x : x \ {y} \in SUBSET (1..n) /\ Cardinality(x \ {y}) = m - 1
        BY <2>2, IndexSets
      <4>4. \A y \in x : Good(x \ {y}) /\ weigh(c, y) \in Nat
        <5> HIDE DEF Good
        <5> QED BY <2>3, <4>3
      <4>5. it[x] \in Nat
        <5>1. it[x \ {p}] \in Nat /\ weigh(c, p) \in Nat
          BY <4>1, <4>4
        <5> QED BY ONLY <4>2, <5>1
      <4>6. ASSUME NEW y \in x PROVE it[x] = weigh(c, y) + it[x \ {y}]
        <5>1. CASE y = p
          BY <4>2, <5>1
        <5>2. CASE y # p
          <6>1. y \in x \ {p} /\ p \in x \ {y} /\ (x \ {p}) \ {y} = (x \ {y}) \ {p}
            BY <4>1, <5>2
          <6>2. it[x \ {p}] = weigh(c, y) + it[(x \ {p}) \ {y}]
            BY <4>1, <4>4, <6>1
          <6>3. it[x \ {y}] = weigh(c, p) + it[(x \ {y}) \ {p}]
            BY <4>4, <6>1
          <6>4. it[(x \ {p}) \ {y}] \in Nat
            <7>1. (x \ {p}) \ {y} \in SUBSET (1..n) /\ x \ {p} \in SUBSET (1..n)
              OBVIOUS
            <7>2. Cardinality((x \ {p}) \ {y}) = m - 2
              <8>1. Cardinality(x \ {p}) = m - 1
                BY <4>1, <4>3
              <8>2. Cardinality((x \ {p}) \ {y}) = Cardinality(x \ {p}) - 1
                BY <6>1, <7>1, IndexSets
              <8> QED BY <8>1, <8>2
            <7>3. Cardinality((x \ {p}) \ {y}) \in Nat /\ m \in Nat
              BY <7>1, IndexSets
            <7>4. (m - 2) \notin Bad
              <8>1. m - 2 \in Bad => m <= m - 2
                BY <2>1
              <8> HIDE DEF Bad
              <8> QED BY <7>3, <8>1
            <7>5. Good((x \ {p}) \ {y})
              <8> HIDE DEF Good
              <8> QED BY <7>1, <7>2, <7>3, <7>4
            <7> QED BY <7>5
          <6>5. weigh(c, p) \in Nat /\ weigh(c, y) \in Nat
            BY <4>1, <4>4
          <6> DEFINE rest == it[(x \ {p}) \ {y}]
          <6>6. it[x] = weigh(c, p) + (weigh(c, y) + rest)
            BY <4>2, <6>2
          <6>7. it[x \ {y}] = weigh(c, p) + rest
            BY <6>1, <6>3
          <6>8. rest \in Nat
            BY <6>4
          <6> HIDE DEF rest
          <6> QED BY ONLY <6>5, <6>6, <6>7, <6>8
        <5> QED BY <5>1, <5>2
      <4> QED BY <4>5, <4>6
    <3> QED BY <3>1, <3>2
  <2> QED BY <2>2, <2>4
<1> QED BY <1>1, <1>2

(***************************************************************************)
(* What holds of zero, and is kept as each weight is added from the first  *)
(* position on, holds of the sum, although the sum is taken in any order.  *)
(***************************************************************************)
THEOREM SumKeeps ==
    ASSUME NEW c, NEW n \in Nat, \A k \in 1..n : weigh(c, k) \in Nat,
           Holds(c, 0, 0),
           \A k \in 1..n : \A x \in Nat : Holds(c, k - 1, x) => Holds(c, k, x + weigh(c, k))
    PROVE  SumUpTo(c, n) \in Nat /\ Holds(c, n, SumUpTo(c, n))
PROOF
<1>1. \E f : f = [x \in SUBSET (1..n) |->
                     IF x = {} THEN 0 ELSE weigh(c, Picked(x)) + f[x \ {Picked(x)}]]
  <2>1. PICK f : f = [x \in SUBSET (1..n) |-> f[x]] /\ Adds(f, c, SUBSET (1..n))
    BY SumDefined
  <2>2. f = [x \in SUBSET (1..n) |-> IF x = {} THEN 0 ELSE weigh(c, Picked(x)) + f[x \ {Picked(x)}]]
    BY <2>1 DEF Adds
  <2> QED BY <2>2
<1>2. PICK f : /\ f = [x \in SUBSET (1..n) |->
                          IF x = {} THEN 0 ELSE weigh(c, Picked(x)) + f[x \ {Picked(x)}]]
               /\ SumUpTo(c, n) = f[1..n]
  BY <1>1 DEF SumUpTo, MapThenSumSet, MapThenFoldSet, Picked
<1>3. Adds(f, c, SUBSET (1..n))
  BY <1>2 DEF Adds
<1>4. \A x \in SUBSET (1..n) :
         f[x] \in Nat /\ \A y \in x : f[x] = weigh(c, y) + f[x \ {y}]
  <2>1. Weights(c, n)
    BY DEF Weights
  <2>2. Orderless(f, c, n)
    BY <1>3, <2>1, AnyFirst
  <2> QED BY <2>2 DEF Orderless
<1> DEFINE Bad == {k \in 0..n : ~Holds(c, k, f[1..k])}
<1>5. Bad = {}
  <2> SUFFICES ASSUME Bad # {} PROVE FALSE
    OBVIOUS
  <2>1. PICK m \in Bad : \A x \in Bad : m <= x
    <3>1. Bad \subseteq Nat
      OBVIOUS
    <3> HIDE DEF Bad
    <3> QED BY <3>1, LeastNumber
  <2>2. m \in 0..n /\ ~Holds(c, m, f[1..m]) /\ m \in Nat
    OBVIOUS
  <2>3. m # 0
    <3>1. 1..0 = {} /\ {} \in SUBSET (1..n)
      OBVIOUS
    <3>2. f[{}] = 0
      BY <1>3, <3>1 DEF Adds
    <3> QED BY <2>2, <3>1, <3>2
  <2>4. m \in 1..n /\ m - 1 \in 0..n
    BY <2>2, <2>3
  <2>5. m - 1 \notin Bad
    <3>1. m - 1 \in Bad => m <= m - 1
      BY <2>1
    <3> HIDE DEF Bad
    <3> QED BY <2>2, <3>1
  <2>6. Holds(c, m - 1, f[1..(m - 1)])
    BY <2>4, <2>5
  <2>7. f[1..m] = weigh(c, m) + f[1..(m - 1)] /\ f[1..(m - 1)] \in Nat /\ weigh(c, m) \in Nat
    <3>1. 1..m \in SUBSET (1..n) /\ m \in 1..m /\ (1..m) \ {m} = 1..(m - 1)
          /\ 1..(m - 1) \in SUBSET (1..n)
      BY <2>4
    <3> QED BY <1>4, <2>4, <3>1
  <2>8. Holds(c, m, f[1..(m - 1)] + weigh(c, m))
    BY <2>4, <2>6, <2>7
  <2>9. f[1..(m - 1)] + weigh(c, m) = f[1..m]
    BY <2>7
  <2> QED BY <2>2, <2>8, <2>9
<1>6. n \in 0..n /\ 1..n \in SUBSET (1..n)
  OBVIOUS
<1>7. Holds(c, n, f[1..n]) /\ f[1..n] \in Nat
  BY <1>4, <1>5, <1>6
<1> QED BY <1>2, <1>7

=============================================================================
