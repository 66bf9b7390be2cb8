----------------------------- MODULE SessionProofs -----------------------------
(***************************************************************************)
(* The test server's corpus and one session on it, whoever asks and        *)
(* however many articles there are: filing keeps what is filed, a lookup   *)
(* finds the group it is asked for, no command but STARTTLS changes        *)
(* whether the link is encrypted, and every command is answered with what  *)
(* the client that sent it reads to the end.                               *)
(***************************************************************************)
EXTENDS ServerSession, SequenceTheorems, FiniteSetTheorems, WellFoundedInduction, TLAPS


(***************************************************************************)
(* Bounds of sets of numbers.                                              *)
(***************************************************************************)

\* A set of naturals that is not empty has a least element, which Min picks.
LEMMA LeastOf ==
    ASSUME NEW S, S \subseteq Nat, S # {}
    PROVE  Min(S) \in S /\ \A y \in S : Min(S) <= y
PROOF
<1>1. PICK m \in S : \A y \in S : ~ (<<y, m>> \in OpToRel(<, Nat))
  BY NatLessThanWellFounded, WFMin
<1>2. \A y \in S : ~ (y < m)
  BY <1>1 DEF OpToRel
<1>3. \A y \in S : m <= y
  BY <1>2
<1> QED
  BY <1>3 DEF Min

\* Finite sets of naturals with n elements or fewer have a bound.
Bounded(n) ==
    \A T : (T \subseteq Nat /\ IsFiniteSet(T) /\ Cardinality(T) <= n)
               => \E b \in Nat : \A y \in T : y <= b

\* A finite set of naturals has a bound, by induction on how many there are.
LEMMA FiniteBounded ==
    ASSUME NEW S, S \subseteq Nat, IsFiniteSet(S)
    PROVE  \E b \in Nat : \A y \in S : y <= b
PROOF
<1>1. Cardinality(S) \in Nat
  BY FS_CardinalityType
<1> DEFINE Bad == {n \in Nat : ~Bounded(n)}
<1>2. CASE Bad = {}
  <2>1. Bounded(Cardinality(S))
    BY <1>1, <1>2
  <2>2. Cardinality(S) <= Cardinality(S)
    BY <1>1
  <2> QED BY <2>1, <2>2 DEF Bounded
<1>3. CASE Bad # {}
  <2>1. Min(Bad) \in Bad /\ \A y \in Bad : Min(Bad) <= y
    <3>1. Bad \subseteq Nat
      OBVIOUS
    <3> HIDE DEF Bad
    <3> QED BY <1>3, <3>1, LeastOf
  <2> DEFINE m == Min(Bad)
  <2>2. m \in Nat /\ ~Bounded(m) /\ (m - 1 \in Nat => Bounded(m - 1))
    <3>1. m - 1 \in Bad => m <= m - 1
      BY <2>1
    <3>2. m \in Nat /\ ~Bounded(m)
      BY <2>1
    <3> HIDE DEF m
    <3> QED BY <3>1, <3>2
  <2> HIDE DEF m
  <2>3. PICK T : /\ T \subseteq Nat /\ IsFiniteSet(T) /\ Cardinality(T) <= m
                 /\ ~ \E b \in Nat : \A y \in T : y <= b
    BY <2>2 DEF Bounded
  <2>4. T # {}
    <3>1. T = {} => \A y \in T : y <= 0
      OBVIOUS
    <3> QED BY <2>3, <3>1
  <2>5. PICK t \in T : TRUE
    BY <2>4
  <2>6. /\ IsFiniteSet(T \ {t}) /\ Cardinality(T \ {t}) = Cardinality(T) - 1
        /\ Cardinality(T \ {t}) \in Nat
    BY <2>3, <2>5, FS_RemoveElement, FS_CardinalityType
  <2>7. m - 1 \in Nat /\ Cardinality(T \ {t}) <= m - 1
    <3>1. Cardinality(T) \in Nat
      BY <2>3, FS_CardinalityType
    <3> QED BY <2>2, <2>3, <2>6, <3>1
  <2>8. PICK b \in Nat : \A y \in T \ {t} : y <= b
    <3>1. Bounded(m - 1)
      BY <2>2, <2>7
    <3>2. T \ {t} \subseteq Nat
      BY <2>3
    <3> QED BY <2>6, <2>7, <3>1, <3>2 DEF Bounded
  <2>9. t \in Nat /\ b + t \in Nat /\ \A y \in T : y <= b + t
    <3>1. t \in Nat
      BY <2>3, <2>5
    <3>2. ASSUME NEW y \in T PROVE y <= b + t
      <4>1. y \in Nat
        BY <2>3
      <4>2. CASE y = t
        BY <3>1, <4>2
      <4>3. CASE y # t
        BY <2>8, <3>1, <4>1, <4>3
      <4> QED BY <4>2, <4>3
    <3> QED BY <3>1, <3>2
  <2> QED BY <2>3, <2>9
<1> QED BY <1>2, <1>3

\* A finite set of naturals that is not empty has a greatest, which Max picks.
LEMMA GreatestOf ==
    ASSUME NEW S, S \subseteq Nat, IsFiniteSet(S), S # {}
    PROVE  Max(S) \in S /\ \A y \in S : y <= Max(S)
PROOF
<1> DEFINE B == {b \in Nat : \A y \in S : y <= b}
<1>1. B # {} /\ B \subseteq Nat
  BY FiniteBounded
<1>2. Min(B) \in B /\ \A y \in B : Min(B) <= y
  <2> HIDE DEF B
  <2> QED BY <1>1, LeastOf
<1> DEFINE m == Min(B)
<1>3. m \in Nat /\ \A y \in S : y <= m
  BY <1>2
<1>4. m \in S
  <2> SUFFICES ASSUME m \notin S PROVE FALSE
    OBVIOUS
  <2>1. PICK y \in S : TRUE
    OBVIOUS
  <2>2. y \in Nat /\ y <= m /\ y # m
    BY <1>3, <2>1
  <2>3. m - 1 \in Nat
    <3> HIDE DEF m
    <3> QED BY <1>3, <2>2
  <2>4. \A z \in S : z <= m - 1
    <3> HIDE DEF m
    <3> QED BY <1>3
  <2>5. m - 1 \in B
    BY <2>3, <2>4
  <2>6. m <= m - 1
    BY <1>2, <2>5
  <2> HIDE DEF m
  <2> QED BY <1>3, <2>6
<1> HIDE DEF m
<1> QED BY <1>3, <1>4 DEF Max
-------------------------------------------------------------------------------
(* Groups and the corpus.                                                      *)

\* The highest number of a group is a number, and none is above it.
LEMMA HighIsTop ==
    ASSUME NEW g, IsGroup(g)
    PROVE  High(g) \in Nat /\ \A n \in Numbers(g) : n <= High(g)
PROOF
<1>1. Numbers(g) \subseteq Nat /\ IsFiniteSet(Numbers(g))
  BY DEF IsGroup
<1>2. CASE Numbers(g) = {}
  BY <1>2 DEF High, NoArticle
<1>3. CASE Numbers(g) # {}
  BY <1>1, <1>3, GreatestOf DEF High
<1> QED BY <1>2, <1>3

\* Filing takes one number, a new one, and touches no other.
LEMMA FileAdds ==
    ASSUME NEW g, NEW id, IsGroup(g)
    PROVE  /\ IsGroup(File(g, id))
           /\ File(g, id).name = g.name
           /\ Numbers(File(g, id)) = Numbers(g) \cup {High(g) + 1}
           /\ High(g) + 1 \in Nat \ Numbers(g)
           /\ \A n \in Numbers(g) : File(g, id).articles[n] = g.articles[n]
PROOF
<1> DEFINE number == High(g) + 1
           new == [n \in Numbers(g) \cup {number} |-> IF n = number THEN id ELSE g.articles[n]]
<1>1. number \in Nat \ Numbers(g)
  BY HighIsTop
<1>2. g = [name |-> g.name, created |-> g.created, articles |-> g.articles]
  BY DEF IsGroup, Group
<1>3. File(g, id) = [name |-> g.name, created |-> g.created, articles |-> new]
  BY <1>2 DEF File
<1>4. /\ Numbers(File(g, id)) = Numbers(g) \cup {number}
      /\ File(g, id).articles = new
  BY <1>3 DEF Numbers
<1>5. Numbers(g) \subseteq Nat /\ IsFiniteSet(Numbers(g))
  BY DEF IsGroup
<1>6. IsFiniteSet(Numbers(g) \cup {number})
  BY <1>5, FS_AddElement
<1>7. IsGroup(File(g, id))
  <2>1. File(g, id) = Group(File(g, id).name, File(g, id).created, File(g, id).articles)
    BY <1>3 DEF Group
  <2>2. File(g, id).articles = [n \in Numbers(File(g, id)) |-> File(g, id).articles[n]]
    BY <1>4
  <2> HIDE DEF new, number
  <2> QED BY <1>1, <1>4, <1>5, <1>6, <2>1, <2>2 DEF IsGroup
<1>8. \A n \in Numbers(g) : new[n] = g.articles[n]
  BY <1>1
<1>9. File(g, id).name = g.name
  BY <1>3
<1> HIDE DEF new
<1> QED BY <1>1, <1>4, <1>7, <1>8, <1>9

\* The first group of a name is a group of that name.
LEMMA FindFinds ==
    ASSUME NEW co, NEW name, IsCorpus(co), Carries(co, name)
    PROVE  Find(co, name) \in DOMAIN co /\ co[Find(co, name)].name = name
PROOF
<1> DEFINE I == {i \in 1..Len(co) : co[i].name = name}
<1>1. DOMAIN co = 1..Len(co) /\ Len(co) \in Nat
  BY DEF IsCorpus
<1>2. I # {} /\ I \subseteq Nat
  BY <1>1 DEF Carries
<1>3. Find(co, name) = Min(I)
  BY <1>2 DEF Find, SelectInSeq
<1>4. Min(I) \in I
  <2> HIDE DEF I
  <2> QED BY <1>2, LeastOf
<1> QED BY <1>1, <1>3, <1>4

\* Everywhere an article is filed, as pairs of a group's position and a number.
Places(co, k) == {p \in (1..k) \X Nat : p[2] \in Numbers(co[p[1]])}

Filings(co) == Places(co, Len(co))

\* A corpus that has the groups of another, and everything filed there.
Grown(old, new) ==
    /\ Len(new) = Len(old)
    /\ \A i \in 1..Len(old) :
          /\ new[i].name = old[i].name
          /\ \A n \in Numbers(old[i]) :
                n \in Numbers(new[i]) /\ new[i].articles[n] = old[i].articles[n]

\* A function on 1..n is a sequence of n elements.
LEMMA LenOfFunction ==
    ASSUME NEW n \in Nat, NEW f, f = [i \in 1..n |-> f[i]]
    PROVE  Len(f) = n /\ DOMAIN f = 1..n
PROOF
<1> DEFINE S == {f[i] : i \in 1..n}
<1>1. \A i \in 1..n : f[i] \in S
  OBVIOUS
<1>2. f \in Seq(S)
  <2> HIDE DEF S
  <2>1. f \in [1..n -> S]
    BY <1>1
  <2> QED BY <2>1
<1>3. DOMAIN f = 1..n
  OBVIOUS
<1> HIDE DEF S
<1> QED BY <1>2, <1>3

\* The corpus with one more article in its j-th group.
FiledAt(co, j, id) == [co EXCEPT ![j] = File(co[j], id)]

\* Filing in one group leaves a corpus, in which only that group has grown, and
\* one more place.
LEMMA FileGrows ==
    ASSUME NEW co, NEW j \in DOMAIN co, NEW id, IsCorpus(co),
           NEW new, new = FiledAt(co, j, id)
    PROVE  /\ IsCorpus(new) /\ Grown(co, new)
           /\ \E p : p \notin Filings(co) /\ Filings(new) = Filings(co) \cup {p}
PROOF
<1>1. /\ Len(co) \in Nat /\ co = [i \in 1..Len(co) |-> co[i]] /\ DOMAIN co = 1..Len(co)
      /\ \A i \in 1..Len(co) : IsGroup(co[i])
  BY DEF IsCorpus
<1>2. new = [i \in 1..Len(co) |-> IF i = j THEN File(co[j], id) ELSE co[i]]
  BY <1>1 DEF FiledAt
<1>3. new = [i \in 1..Len(co) |-> new[i]]
  BY <1>2
<1>4. Len(new) = Len(co) /\ DOMAIN new = 1..Len(co)
  BY <1>1, <1>3, LenOfFunction
<1>5. new[j] = File(co[j], id) /\ \A i \in 1..Len(co) : i # j => new[i] = co[i]
  BY <1>1, <1>2
<1>6. /\ IsGroup(new[j]) /\ new[j].name = co[j].name
      /\ Numbers(new[j]) = Numbers(co[j]) \cup {High(co[j]) + 1}
      /\ High(co[j]) + 1 \in Nat \ Numbers(co[j])
      /\ \A n \in Numbers(co[j]) : new[j].articles[n] = co[j].articles[n]
  <2>1. IsGroup(co[j])
    BY <1>1
  <2> QED BY <1>5, <2>1, FileAdds
<1>7. IsCorpus(new)
  <2>1. \A i \in DOMAIN new : IsGroup(new[i])
    BY <1>1, <1>4, <1>5, <1>6
  <2>2. new = [i \in 1..Len(new) |-> new[i]]
    BY <1>2, <1>4
  <2> QED BY <1>1, <1>4, <2>1, <2>2 DEF IsCorpus
<1>8. Grown(co, new)
  BY <1>1, <1>4, <1>5, <1>6 DEF Grown
<1> DEFINE p == <<j, High(co[j]) + 1>>
<1>9. p \notin Filings(co)
  BY <1>6 DEF Filings, Places
<1>10. Filings(new) = Filings(co) \cup {p}
  <2>1. \A q \in (1..Len(co)) \X Nat :
           q[2] \in Numbers(new[q[1]]) <=> q[2] \in Numbers(co[q[1]]) \/ q = p
    <3> SUFFICES ASSUME NEW i \in 1..Len(co), NEW n \in Nat
                 PROVE  n \in Numbers(new[i]) <=> n \in Numbers(co[i]) \/ <<i, n>> = p
      OBVIOUS
    <3>1. CASE i = j
      BY <1>6, <3>1
    <3>2. CASE i # j
      BY <1>5, <3>2
    <3> QED BY <3>1, <3>2
  <2>2. p \in (1..Len(co)) \X Nat
    BY <1>1, <1>6
  <2> HIDE DEF p
  <2> QED BY <1>4, <2>1, <2>2 DEF Filings, Places
<1> QED BY <1>7, <1>8, <1>9, <1>10
-------------------------------------------------------------------------------
(* How many articles are filed.                                                *)

TotalWeight(co, i) == Cardinality(Numbers(co[i]))

TotalledSoFar(co, k, x) == IsFiniteSet(Places(co, k)) /\ x = Cardinality(Places(co, k))

NoStep(c, r, x) == r

Totalling == INSTANCE FoldTheorems WITH step <- NoStep, weigh <- TotalWeight, Holds <- TotalledSoFar

\* Total, a sum over the groups, is the number of places something is filed.
LEMMA TotalIsPlaces ==
    ASSUME NEW co, IsCorpus(co)
    PROVE  /\ IsFiniteSet(Filings(co))
           /\ Total(co) \in Nat /\ Total(co) = Cardinality(Filings(co))
PROOF
<1>1. /\ Len(co) \in Nat /\ DOMAIN co = 1..Len(co)
      /\ \A i \in 1..Len(co) : IsFiniteSet(Numbers(co[i])) /\ Numbers(co[i]) \subseteq Nat
  BY DEF IsCorpus, IsGroup
<1>2. Total(co) = Totalling!SumUpTo(co, Len(co))
  <2>1. \A S : Totalling!Cardinality(S) = Cardinality(S)
    BY DEF Totalling!Cardinality, Cardinality
  <2> QED
    BY <1>1, <2>1 DEF Total, TotalWeight, MapThenSumSet, MapThenFoldSet,
       Totalling!SumUpTo, Totalling!MapThenSumSet, Totalling!MapThenFoldSet
<1>3. \A k \in 1..Len(co) : TotalWeight(co, k) \in Nat
  BY <1>1, FS_CardinalityType DEF TotalWeight
<1>4. TotalledSoFar(co, 0, 0)
  <2>1. Places(co, 0) = {}
    BY DEF Places
  <2> QED BY <2>1, FS_EmptySet DEF TotalledSoFar
<1>5. ASSUME NEW k \in 1..Len(co), NEW x \in Nat, TotalledSoFar(co, k - 1, x)
      PROVE  TotalledSoFar(co, k, x + TotalWeight(co, k))
  <2> DEFINE A == Places(co, k - 1)
             B == {k} \X Numbers(co[k])
  <2>1. IsFiniteSet(A) /\ x = Cardinality(A)
    BY <1>5 DEF TotalledSoFar
  <2>2. IsFiniteSet(B) /\ Cardinality(B) = TotalWeight(co, k)
    <3>1. IsFiniteSet({k}) /\ Cardinality({k}) = 1
      BY FS_Singleton
    <3>2. IsFiniteSet(Numbers(co[k])) /\ Cardinality(Numbers(co[k])) \in Nat
      BY <1>1, FS_CardinalityType
    <3>3. IsFiniteSet(B) /\ Cardinality(B) = 1 * Cardinality(Numbers(co[k]))
      BY <3>1, <3>2, FS_Product
    <3> HIDE DEF B
    <3> QED BY <3>2, <3>3 DEF TotalWeight
  <2>3. Places(co, k) = A \cup B
    <3>1. \A p \in (1..k) \X Nat : p[1] \in 1..(k - 1) \/ p[1] = k
      BY <1>1
    <3>2. \A p \in (1..(k - 1)) \X Nat : p \in (1..k) \X Nat
      BY <1>1
    <3>3. ASSUME NEW p \in A PROVE p \in Places(co, k)
      BY <3>2 DEF Places
    <3>4. ASSUME NEW p \in B PROVE p \in Places(co, k)
      BY <1>1 DEF Places
    <3>5. ASSUME NEW p \in Places(co, k) PROVE p \in A \cup B
      <4>1. p \in (1..k) \X Nat /\ p[2] \in Numbers(co[p[1]])
        BY DEF Places
      <4>2. CASE p[1] = k
        BY <4>1, <4>2
      <4>3. CASE p[1] \in 1..(k - 1)
        BY <4>1, <4>3 DEF Places
      <4> QED BY <3>1, <4>1, <4>2, <4>3
    <3> HIDE DEF A, B
    <3> QED BY <3>3, <3>4, <3>5
  <2>4. A \cap B = {}
    <3> SUFFICES ASSUME NEW p \in A \cap B PROVE FALSE
      OBVIOUS
    <3>1. p[1] \in 1..(k - 1) /\ p[1] = k
      BY DEF Places
    <3> QED BY <1>1, <3>1
  <2>5. Cardinality(A \cap B) = 0
    BY <2>4, FS_EmptySet
  <2> HIDE DEF A, B
  <2>6. IsFiniteSet(A \cup B) /\ Cardinality(A \cup B) = x + TotalWeight(co, k)
    <3>1. IsFiniteSet(A \cup B)
          /\ Cardinality(A \cup B) = Cardinality(A) + Cardinality(B) - Cardinality(A \cap B)
      BY <2>1, <2>2, FS_Union
    <3>2. Cardinality(A) \in Nat /\ TotalWeight(co, k) \in Nat
      BY <1>3, <2>1
    <3> QED BY <2>1, <2>2, <2>5, <3>1, <3>2
  <2> QED BY <2>3, <2>6 DEF TotalledSoFar
<1>6. /\ Totalling!SumUpTo(co, Len(co)) \in Nat
      /\ TotalledSoFar(co, Len(co), Totalling!SumUpTo(co, Len(co)))
  BY <1>1, <1>3, <1>4, <1>5, Totalling!SumKeeps
<1> QED BY <1>2, <1>6 DEF TotalledSoFar, Filings

-------------------------------------------------------------------------------
(* Corpus::inject.                                                             *)

\* The positions, among the first k names, of groups the corpus carries.
Wanted(c, k) == {i \in 1..k : Carries(c.corpus, c.names[i])}

InjectStep(c, co, name) ==
    IF Carries(co, name) THEN [co EXCEPT ![Find(co, name)] = File(@, c.id)] ELSE co

InjectedSoFar(c, k, co) ==
    /\ IsCorpus(co) /\ Grown(c.corpus, co)
    /\ IsFiniteSet(Wanted(c, k))
    /\ Cardinality(Filings(co)) = Cardinality(Filings(c.corpus)) + Cardinality(Wanted(c, k))

Injecting == INSTANCE FoldTheorems WITH step <- InjectStep, weigh <- TotalWeight, Holds <- InjectedSoFar

\* The corpora along the way carry the same groups.
LEMMA GrownCarries ==
    ASSUME NEW old, IsCorpus(old), NEW new, IsCorpus(new), Grown(old, new), NEW name
    PROVE  Carries(old, name) <=> Carries(new, name)
BY DEF Grown, Carries, IsCorpus

\* Growing is transitive, and every corpus has grown from itself.
LEMMA GrownFurther ==
    ASSUME NEW a, NEW b, NEW c, Grown(a, b), Grown(b, c)
    PROVE  Grown(a, c)
BY DEF Grown

(***************************************************************************)
(* Corpus::inject leaves every filed article where it is, and files the    *)
(* new one once for each name that is carried.                             *)
(***************************************************************************)
THEOREM InjectAdds ==
    ASSUME NEW co, IsCorpus(co), NEW N, NEW names \in Seq(N), NEW id
    PROVE  /\ IsCorpus(Inject(co, names, id)) /\ Grown(co, Inject(co, names, id))
           /\ Total(Inject(co, names, id))
                = Total(co) + Cardinality({i \in DOMAIN names : Carries(co, names[i])})
PROOF
<1> DEFINE c == [corpus |-> co, names |-> names, id |-> id]
<1>1. c.corpus = co /\ c.names = names /\ c.id = id
  OBVIOUS
<1>2. Len(names) \in Nat /\ DOMAIN names = 1..Len(names)
  OBVIOUS
<1>3. Inject(co, names, id) = Injecting!Fold(c, co, names)
  BY DEF Inject, InjectStep, FoldLeft, MapThenFoldSet, Max,
         Injecting!Fold, Injecting!FoldLeft, Injecting!MapThenFoldSet, Injecting!Max
<1> HIDE DEF c
<1>4. InjectedSoFar(c, 0, co)
  <2>1. Wanted(c, 0) = {}
    BY DEF Wanted
  <2>2. IsFiniteSet(Wanted(c, 0)) /\ Cardinality(Wanted(c, 0)) = 0
    BY <2>1, FS_EmptySet
  <2>3. Grown(co, co)
    BY DEF Grown
  <2>4. Cardinality(Filings(co)) \in Nat
    BY TotalIsPlaces
  <2> QED BY <1>1, <2>2, <2>3, <2>4 DEF InjectedSoFar
<1>5. ASSUME NEW k \in 1..Len(names), NEW x, InjectedSoFar(c, k - 1, x)
      PROVE  InjectedSoFar(c, k, InjectStep(c, x, names[k]))
  <2>1. /\ IsCorpus(x) /\ Grown(co, x) /\ IsFiniteSet(Wanted(c, k - 1))
        /\ Cardinality(Filings(x)) = Cardinality(Filings(co)) + Cardinality(Wanted(c, k - 1))
    BY <1>1, <1>5 DEF InjectedSoFar
  <2>2. Carries(co, names[k]) <=> Carries(x, names[k])
    BY <2>1, GrownCarries
  <2>3. CASE ~Carries(x, names[k])
    <3>1. Wanted(c, k) = Wanted(c, k - 1)
      BY <1>1, <1>2, <2>2, <2>3 DEF Wanted
    <3>2. InjectStep(c, x, names[k]) = x
      BY <2>3 DEF InjectStep
    <3> QED BY <1>1, <2>1, <3>1, <3>2 DEF InjectedSoFar
  <2>4. CASE Carries(x, names[k])
    <3> DEFINE j == Find(x, names[k])
               y == FiledAt(x, j, id)
    <3>1. InjectStep(c, x, names[k]) = y
      BY <1>1, <2>4 DEF InjectStep, FiledAt
    <3>2. j \in DOMAIN x
      BY <2>1, <2>4, FindFinds
    <3> HIDE DEF j
    <3>10. y = FiledAt(x, j, id)
      OBVIOUS
    <3> HIDE DEF y
    <3>3. /\ IsCorpus(y) /\ Grown(x, y)
          /\ \E p : p \notin Filings(x) /\ Filings(y) = Filings(x) \cup {p}
      BY <2>1, <3>2, <3>10, FileGrows
    <3>4. Grown(co, y)
      BY <2>1, <3>3, GrownFurther
    <3>5. Cardinality(Filings(y)) = Cardinality(Filings(x)) + 1
      <4>1. IsFiniteSet(Filings(x))
        BY <2>1, TotalIsPlaces
      <4> QED BY <3>3, <4>1, FS_AddElement
    <3>6. Wanted(c, k) = Wanted(c, k - 1) \cup {k} /\ k \notin Wanted(c, k - 1)
      BY <1>1, <1>2, <2>2, <2>4 DEF Wanted
    <3>7. IsFiniteSet(Wanted(c, k)) /\ Cardinality(Wanted(c, k)) = Cardinality(Wanted(c, k - 1)) + 1
      <4> DEFINE W == Wanted(c, k - 1)
      <4>1. IsFiniteSet(W) /\ k \notin W /\ Wanted(c, k) = W \cup {k}
        BY <2>1, <3>6
      <4> HIDE DEF W
      <4>2. IsFiniteSet(W \cup {k}) /\ Cardinality(W \cup {k}) = Cardinality(W) + 1
        BY <4>1, FS_AddElement
      <4> QED BY <4>1, <4>2 DEF W
    <3>8. Cardinality(Filings(co)) \in Nat /\ Cardinality(Wanted(c, k - 1)) \in Nat
      BY <2>1, TotalIsPlaces, FS_CardinalityType
    <3>9. Cardinality(Filings(y)) = Cardinality(Filings(co)) + Cardinality(Wanted(c, k))
      BY <2>1, <3>5, <3>7, <3>8
    <3> QED BY <1>1, <3>1, <3>3, <3>4, <3>7, <3>9 DEF InjectedSoFar
  <2> QED BY <2>3, <2>4
<1>6. InjectedSoFar(c, Len(names), Injecting!Fold(c, co, names))
  BY <1>2, <1>4, <1>5, Injecting!FoldKeeps
<1>7. Wanted(c, Len(names)) = {i \in DOMAIN names : Carries(co, names[i])}
  BY <1>1, <1>2 DEF Wanted
<1>8. IsCorpus(Inject(co, names, id)) /\ Grown(co, Inject(co, names, id))
  BY <1>1, <1>3, <1>6 DEF InjectedSoFar
<1>9. /\ Total(Inject(co, names, id)) = Cardinality(Filings(Inject(co, names, id)))
      /\ Total(co) = Cardinality(Filings(co))
  BY <1>8, TotalIsPlaces
<1> QED BY <1>1, <1>3, <1>6, <1>7, <1>8, <1>9 DEF InjectedSoFar

-------------------------------------------------------------------------------
(* Lists in order.                                                             *)

\* What a finite set is listed as.
LEMMA InOrderLists ==
    ASSUME NEW S, IsFiniteSet(S)
    PROVE  Cardinality(S) \in Nat /\ DOMAIN InOrder(S) = 1..Cardinality(S)
BY FS_CardinalityType DEF InOrder

-------------------------------------------------------------------------------
(* Lists.                                                                    *)

IsList(l) == \E S : l \in Seq(S)

\* A list with one more, and with one less.
LEMMA ListsGrow ==
    ASSUME NEW l, IsList(l), NEW x
    PROVE  /\ Len(l) \in Nat /\ DOMAIN l = 1..Len(l)
           /\ IsList(Append(l, x)) /\ Len(Append(l, x)) = Len(l) + 1
           /\ DOMAIN Append(l, x) = 1..(Len(l) + 1)
           /\ \A i \in 1..Len(l) : Append(l, x)[i] = l[i]
           /\ Append(l, x)[Len(l) + 1] = x
           /\ l # <<>> => /\ IsList(Tail(l)) /\ Head(l) = l[1] /\ 1 \in DOMAIN l
                          /\ \A i \in DOMAIN Tail(l) : i + 1 \in DOMAIN l /\ Tail(l)[i] = l[i + 1]
PROOF
<1>1. PICK S : l \in Seq(S)
  BY DEF IsList
<1> DEFINE T == S \cup {x}
<1>2. l \in Seq(T) /\ x \in T
  BY <1>1
<1> HIDE DEF T
<1>3. Append(l, x) \in Seq(T) /\ Len(Append(l, x)) = Len(l) + 1
  BY <1>2
<1>4. ASSUME l # <<>> PROVE Tail(l) \in Seq(T)
  BY <1>2, <1>4
<1>5. /\ \A i \in 1..Len(l) : Append(l, x)[i] = l[i]
      /\ Append(l, x)[Len(l) + 1] = x
      /\ Len(l) \in Nat /\ DOMAIN l = 1..Len(l)
  BY <1>2
<1>6. ASSUME l # <<>>
      PROVE  /\ Head(l) = l[1] /\ 1 \in DOMAIN l
             /\ \A i \in DOMAIN Tail(l) : i + 1 \in DOMAIN l /\ Tail(l)[i] = l[i + 1]
  <2>1. Len(l) # 0 /\ Head(l) = l[1] /\ Len(Tail(l)) = Len(l) - 1
    BY <1>2, <1>6
  <2>2. DOMAIN Tail(l) = 1..(Len(l) - 1)
    BY <1>2, <1>4, <1>6, <2>1
  <2> QED BY <1>2, <1>5, <1>6, <2>1, <2>2
<1> QED BY <1>3, <1>4, <1>5, <1>6 DEF IsList

\* The empty list.
LEMMA ListsBegin == IsList(<<>>) /\ Len(<<>>) = 0
PROOF
<1>1. <<>> \in Seq({}) /\ Len(<<>>) = 0
  OBVIOUS
<1> QED BY <1>1 DEF IsList

-------------------------------------------------------------------------------
(* The server: no reply changes whether the link is encrypted.                 *)

StateFields == {"authenticated", "pending_user", "reader_mode", "current_group", "current_article",
                "commands_served", "truncate_next_block", "encrypted", "close_requested"}

\* Of a session's State, what is relied on.
IsState(s) == DOMAIN s = StateFields /\ s.pending_user \in Users

\* A reply that leaves a State, encrypted if it was.
Answers(s, reply) == IsState(reply.st) /\ reply.st.encrypted = s.encrypted

\* block() and the one-line replies.
LEMMA RepliesAnswer ==
    ASSUME NEW s, NEW t, IsState(t), t.encrypted = s.encrypted, NEW code, NEW arg, NEW lines, NEW flow
    PROVE  /\ Answers(s, Reply(t, lines, flow)) /\ Answers(s, Answer(t, code, arg))
           /\ Answers(s, Refusal(t, code))
           /\ Answers(s, UnderGuard(Refusal(t, code)))
           /\ Answers(s, WithBlock(t, code, arg, lines))
           /\ Answers(s, Listing(t, code, lines))
           /\ Answers(s, UnderGuard(Listing(t, code, lines)))
PROOF
<1>1. \A l, f : Reply(t, l, f).st = t
  BY DEF Reply
<1>2. Answers(s, Reply(t, lines, flow)) /\ Answers(s, Answer(t, code, arg)) /\ Answers(s, Refusal(t, code))
  BY <1>1 DEF Answers, Answer, Refusal
<1>3. UnderGuard(Refusal(t, code)).st = t
  BY DEF UnderGuard, Refusal, Answer, Reply
<1>4. Answers(s, UnderGuard(Refusal(t, code)))
  BY <1>3 DEF Answers
<1>5. ASSUME NEW a, NEW ls
      PROVE  /\ Answers(s, WithBlock(t, code, a, ls))
             /\ Answers(s, UnderGuard(WithBlock(t, code, a, ls)))
  <2> DEFINE u == [t EXCEPT !.truncate_next_block = FALSE, !.close_requested = TRUE]
  <2>1. IsState(u) /\ u.encrypted = s.encrypted
    BY DEF IsState
  <2>2. WithBlock(t, code, a, ls).st \in {t, u}
    BY DEF WithBlock, Reply
  <2>3. UnderGuard(WithBlock(t, code, a, ls)).st = WithBlock(t, code, a, ls).st
    BY DEF UnderGuard, WithBlock, Reply
  <2> HIDE DEF u
  <2> QED BY <2>1, <2>2, <2>3 DEF Answers
<1>6. /\ Answers(s, Listing(t, code, lines))
      /\ Answers(s, UnderGuard(Listing(t, code, lines)))
  BY <1>5 DEF Listing
<1> QED BY <1>2, <1>4, <1>5, <1>6
\* A State with one field other than these two set is one.
Alike(s, t) == IsState(t) /\ t.encrypted = s.encrypted

LEMMA FieldsApart ==
    ASSUME NEW s, IsState(s), NEW v, NEW w
    PROVE  /\ Alike(s, s)
           /\ Alike(s, [s EXCEPT !.reader_mode = v])
           /\ Alike(s, [s EXCEPT !.authenticated = v])
           /\ Alike(s, [s EXCEPT !.current_group = v])
           /\ Alike(s, [s EXCEPT !.current_article = v])
           /\ Alike(s, [s EXCEPT !.current_group = v, !.current_article = w])
           /\ Alike(s, [s EXCEPT !.commands_served = v])
           /\ v \in Users => Alike(s, [s EXCEPT !.pending_user = v])
BY DEF Alike, IsState, StateFields

\* The commands answered to anyone.
LEMMA AlwaysAnswers ==
    ASSUME NEW config, NEW s, IsState(s), NEW cmd, cmd.verb \in Always,
           cmd.verb = "AUTHINFO" => cmd.arg.value \in Users
    PROVE  Answers(s, AlwaysReply(config, s, cmd))
PROOF
<1>1. Alike(s, s) /\ IsState(s)
  BY FieldsApart
<1>2. \A code : Answers(s, Refusal(s, code))
  BY RepliesAnswer
<1>3. \A code, arg : Answers(s, Answer(s, code, arg))
  BY RepliesAnswer
<1>4. \A lines, flow : Answers(s, Reply(s, lines, flow))
  BY RepliesAnswer
<1>5. \A code, lines : Answers(s, Listing(s, code, lines))
  BY RepliesAnswer
<1>6. \A code, arg, lines : Answers(s, WithBlock(s, code, arg, lines))
  BY RepliesAnswer
<1>7. Answers(s, CapabilitiesReply(config, s))
  BY <1>2, <1>5 DEF CapabilitiesReply
<1>8. Answers(s, Mode(config, s, cmd.arg))
  <2> DEFINE t == [s EXCEPT !.reader_mode = TRUE]
  <2>1. Alike(s, t)
    BY FieldsApart
  <2>2. \A code, arg : Answers(s, Answer(t, code, arg))
    <3> HIDE DEF t
    <3> QED BY <2>1, RepliesAnswer DEF Alike
  <2>3. Mode(config, s, cmd.arg)
           \in {Refusal(s, 501), Refusal(s, 500), Answer(t, 201, NoArg), Answer(t, 200, NoArg)}
    BY DEF Mode
  <2> HIDE DEF t
  <2> QED BY <1>2, <2>2, <2>3
<1>9. ASSUME cmd.arg.value \in Users PROVE Answers(s, AuthInfo(config, s, cmd.arg))
  <2> DEFINE t == [s EXCEPT !.pending_user = cmd.arg.value]
             u == [s EXCEPT !.authenticated = TRUE]
             v == [s EXCEPT !.pending_user = "nobody"]
  <2>1. Alike(s, t) /\ Alike(s, u) /\ Alike(s, v)
    BY <1>9, FieldsApart DEF Users
  <2>2. \A code, arg : /\ Answers(s, Answer(t, code, arg)) /\ Answers(s, Answer(u, code, arg))
                       /\ Answers(s, Refusal(v, code))
    <3> HIDE DEF t, u, v
    <3> QED BY <2>1, RepliesAnswer DEF Alike
  <2>3. AuthInfo(config, s, cmd.arg)
           \in {Refusal(s, 502), Refusal(s, 501), Refusal(s, 482), Refusal(v, 481), Answer(t, 381, NoArg),
                Answer(u, 281, NoArg)}
    BY DEF AuthInfo
  <2> HIDE DEF t, u, v
  <2> QED BY <1>2, <2>2, <2>3
<1>10. Answers(s, StartTlsReply(config, s))
  BY <1>2, <1>4 DEF StartTlsReply
<1>11. Answers(s, HelpReply(config, s))
  BY <1>6 DEF HelpReply
<1> QED
  <2>1. CASE cmd.verb = ""
    BY <1>2, <2>1 DEF AlwaysReply
  <2>2. CASE cmd.verb = "QUIT"
    BY <1>4, <2>2 DEF AlwaysReply
  <2>3. CASE cmd.verb = "CAPABILITIES"
    BY <1>7, <2>3 DEF AlwaysReply
  <2>4. CASE cmd.verb = "MODE"
    BY <1>8, <2>4 DEF AlwaysReply
  <2>5. CASE cmd.verb = "AUTHINFO"
    BY <1>9, <2>5 DEF AlwaysReply
  <2>6. CASE cmd.verb = "DATE"
    BY <1>3, <2>6 DEF AlwaysReply
  <2>7. CASE cmd.verb = "HELP"
    BY <1>11, <2>7 DEF AlwaysReply
  <2>8. CASE cmd.verb = "STARTTLS"
    BY <1>10, <2>8 DEF AlwaysReply
  <2> QED BY <2>1, <2>2, <2>3, <2>4, <2>5, <2>6, <2>7, <2>8 DEF Always

\* The commands of a reader.
LEMMA ReaderAnswers ==
    ASSUME NEW config, NEW co, NEW s, IsState(s), NEW cmd
    PROVE  Answers(s, ReaderReply(config, co, s, cmd))
PROOF
<1>1. Alike(s, s) /\ IsState(s)
  BY FieldsApart
<1>2. \A code : Answers(s, Refusal(s, code)) /\ Answers(s, UnderGuard(Refusal(s, code)))
  BY RepliesAnswer
<1>3. \A code, arg : Answers(s, Answer(s, code, arg))
  BY RepliesAnswer
<1>4. \A lines, flow : Answers(s, Reply(s, lines, flow))
  BY RepliesAnswer
<1>5. \A code, lines : /\ Answers(s, Listing(s, code, lines))
                       /\ Answers(s, UnderGuard(Listing(s, code, lines)))
  BY RepliesAnswer
<1>6. \A code, arg, lines : Answers(s, WithBlock(s, code, arg, lines))
  BY RepliesAnswer
<1>7. ASSUME NEW t, Alike(s, t)
      PROVE  \A code, arg, lines : Answers(s, Answer(t, code, arg)) /\ Answers(s, WithBlock(t, code, arg, lines))
  BY <1>7, RepliesAnswer DEF Alike
<1>8. Answers(s, GroupReply(co, s, cmd.arg))
  <2>1. \A v, w, code, arg : Answers(s, Answer([s EXCEPT !.current_group = v, !.current_article = w], code, arg))
    BY <1>7, FieldsApart
  <2> QED BY <1>2, <2>1, Zenon DEF GroupReply
<1>9. Answers(s, ListGroupReply(co, s, cmd.arg))
  <2>1. \A v, code, arg, lines : Answers(s, WithBlock([s EXCEPT !.current_group = v], code, arg, lines))
    BY <1>7, FieldsApart
  <2>2. \E name, arg, lines : ListGroupReply(co, s, cmd.arg)
           \in {Refusal(s, 412), Refusal(s, 411),
                WithBlock([s EXCEPT !.current_group = name], 211, arg, lines)}
    <3> DEFINE name == IF cmd.arg = NoArg THEN s.current_group ELSE cmd.arg.group
               group == co[Find(co, name)]
               block == WithBlock([s EXCEPT !.current_group = name], 211, Summary(group),
                                  NumberLines(InOrder(Numbers(group))))
    <3>1. ListGroupReply(co, s, cmd.arg) \in {Refusal(s, 412), Refusal(s, 411), block}
      BY DEF ListGroupReply
    <3> HIDE DEF name, group
    <3> QED BY <3>1
  <2> QED BY <1>2, <2>1, <2>2
<1>10. Answers(s, ListReply(config, co, s, cmd.arg))
  BY <1>2, <1>5 DEF ListReply
<1>11. ASSUME NEW verb, NEW number, NEW id PROVE Answers(s, Fetched(s, verb, number, id))
  <2> DEFINE t == IF number = NoArticle THEN s ELSE [s EXCEPT !.current_article = number]
  <2>1. Alike(s, t)
    BY FieldsApart
  <2> HIDE DEF t
  <2>2. \A code, arg, lines : Answers(s, Answer(t, code, arg)) /\ Answers(s, WithBlock(t, code, arg, lines))
    BY <1>7, <2>1
  <2> QED BY <2>2 DEF Fetched, t
<1>12. Answers(s, FetchReply(co, s, cmd.verb, cmd.arg))
  <2>1. \E number, id : FetchReply(co, s, cmd.verb, cmd.arg)
           \in {Refusal(s, 501), Refusal(s, 420), Refusal(s, 430), UnderGuard(Refusal(s, 412)),
                Refusal(s, 423), Fetched(s, cmd.verb, number, id)}
    BY DEF FetchReply
  <2> QED BY <1>2, <1>11, <2>1
<1>13. Answers(s, OverReply(config, co, s, cmd.verb, cmd.arg))
  <2>1. \E lines : OverReply(config, co, s, cmd.verb, cmd.arg)
           \in {Refusal(s, 500), UnderGuard(Refusal(s, 430)), Refusal(s, 412), Refusal(s, 420),
                Refusal(s, 501), Refusal(s, 423), UnderGuard(Listing(s, 224, lines)),
                WithBlock(s, 224, NoArg, lines)}
    BY DEF OverReply
  <2> QED BY <1>2, <1>5, <1>6, <2>1
<1>14. Answers(s, HdrReply(config, co, s, cmd.verb, cmd.arg))
  <2>1. \E code, lines : HdrReply(config, co, s, cmd.verb, cmd.arg)
           \in {Refusal(s, 500), Refusal(s, 501), Refusal(s, 430), Refusal(s, 412), Refusal(s, 420),
                Listing(s, code, lines), WithBlock(s, code, NoArg, lines)}
    BY DEF HdrReply
  <2> QED BY <1>2, <1>5, <1>6, <2>1
<1>15. Answers(s, NewGroupsReply(co, s, cmd.arg))
  BY <1>2, <1>5 DEF NewGroupsReply
<1>16. Answers(s, PostReply(config, s))
  BY <1>2, <1>4 DEF PostReply
<1>17. Answers(s, StepReply(co, s, cmd.verb))
  <2>1. \A v, code, arg : Answers(s, Answer([s EXCEPT !.current_article = v], code, arg))
    BY <1>7, FieldsApart
  <2> DEFINE group == SelectedGroup(co, s)
             beyond == {n \in Numbers(group) : IF cmd.verb = "NEXT" THEN n > s.current_article
                                              ELSE n < s.current_article}
             to == IF cmd.verb = "NEXT" THEN Min(beyond) ELSE Max(beyond)
  <2>2. StepReply(co, s, cmd.verb)
           \in {Refusal(s, 412), Refusal(s, 420), Refusal(s, 421), Refusal(s, 422),
                Answer([s EXCEPT !.current_article = to], 223,
                       [number |-> to, id |-> group.articles[to]])}
    BY DEF StepReply
  <2> HIDE DEF to, group
  <2> QED BY <1>2, <2>1, <2>2
<1> QED
  BY <1>2, <1>8, <1>9, <1>10, <1>12, <1>13, <1>14, <1>15, <1>16, <1>17, Zenon DEF ReaderReply

(***************************************************************************)
(* A command is answered from a State that is as encrypted as before.      *)
(***************************************************************************)
LEMMA HandleAnswers ==
    ASSUME NEW config, NEW co, NEW s, IsState(s), NEW cmd,
           cmd.verb = "AUTHINFO" => cmd.arg.value \in Users
    PROVE  Answers(s, Handle(config, co, s, cmd))
PROOF
<1> DEFINE t == [s EXCEPT !.commands_served = @ + 1]
           reply == Dispatch(config, co, s, cmd)
<1>1. Alike(s, t)
  <2>1. \A v : Alike(s, [s EXCEPT !.commands_served = v])
    BY FieldsApart
  <2> QED BY <2>1
<1> HIDE DEF t
<1>2. IsState(t) /\ t.encrypted = s.encrypted
  BY <1>1 DEF Alike
<1>3. ASSUME NEW r, Answers(t, r) PROVE Answers(s, r)
  BY <1>2, <1>3 DEF Answers
<1>4. Answers(s, reply)
  <2>1. \A lines, flow, code : Answers(t, Reply(t, lines, flow)) /\ Answers(t, Refusal(t, code))
    BY <1>2, RepliesAnswer
  <2>2. cmd.verb \in Always => Answers(t, AlwaysReply(config, t, cmd))
    BY <1>2, AlwaysAnswers
  <2>3. Answers(t, ReaderReply(config, co, t, cmd))
    BY <1>2, ReaderAnswers
  <2> QED BY <1>3, <2>1, <2>2, <2>3 DEF Dispatch, t
<1>5. [reply EXCEPT !.flow = "Close"].st = reply.st
  OBVIOUS
<1> HIDE DEF reply
<1>6. Answers(s, [reply EXCEPT !.flow = "Close"])
  BY <1>4, <1>5 DEF Answers
<1> QED BY <1>4, <1>6 DEF Handle, reply

\* The greeting and the answer to an article are one line.
LEMMA GreetingAnswers ==
    ASSUME NEW config, config.greeting \in Greetings, NEW s, IsState(s)
    PROVE  Answers(s, Greet(config, s))
PROOF
<1>1. /\ \A code, arg : Answers(s, Answer(s, code, arg))
      /\ \A lines, flow : Answers(s, Reply(s, lines, flow))
  BY RepliesAnswer
<1>2. CASE config.greeting = "PostingAllowed"
  BY <1>1, <1>2 DEF Greet
<1>3. CASE config.greeting = "NoPosting"
  BY <1>1, <1>3 DEF Greet
<1>4. CASE config.greeting = "Refuse"
  BY <1>1, <1>4 DEF Greet
<1> QED BY <1>2, <1>3, <1>4 DEF Greetings

LEMMA ArticleAnswers ==
    ASSUME NEW config, NEW co, NEW s, IsState(s), NEW article
    PROVE  Answers(s, AcceptArticle(config, co, s, article))
PROOF
<1>1. \A code, arg : Answers(s, Answer(s, code, arg)) /\ Answers(s, Refusal(s, code))
  BY RepliesAnswer
<1> QED BY <1>1, Zenon DEF AcceptArticle

-------------------------------------------------------------------------------
(* What a session says over TLS.                                             *)

\* What connect asks.
Asking == {"CAPABILITIES", "MODE", "AUTHINFO", "STARTTLS"}

\* What a server says on an encrypted link while a session is opened, and what a
\* block collects of it.
IsLines(l) == IsList(l) /\ \A i \in DOMAIN l : l[i].kind = "data" => l[i].text.label # "STARTTLS"
IsPlain(l) == \A i \in DOMAIN l : l[i].label # "STARTTLS"

\* Lines, and texts, with one more, with one less, and of two lists.
LEMMA LinesGrow ==
    /\ IsLines(<<>>) /\ IsPlain(<<>>)
    /\ \A l : IsLines(l) /\ l # <<>> => IsLines(Tail(l))
    /\ \A l, x : IsLines(l) /\ (x.kind = "data" => x.text.label # "STARTTLS") => IsLines(Append(l, x))
    /\ \A l, x : IsList(l) /\ IsPlain(l) /\ x.label # "STARTTLS" => IsPlain(Append(l, x))
    /\ \A l, k : IsLines(l) /\ IsLines(k) => IsLines(l \o k)
PROOF
<1>1. IsLines(<<>>) /\ IsPlain(<<>>)
  <2>1. IsList(<<>>) /\ DOMAIN <<>> = 1..0
    BY ListsBegin, ListsGrow
  <2> QED BY <2>1 DEF IsLines, IsPlain
<1>2. ASSUME NEW l, IsLines(l), l # <<>> PROVE IsLines(Tail(l))
  <2>1. /\ IsList(Tail(l))
        /\ \A i \in DOMAIN Tail(l) : i + 1 \in DOMAIN l /\ Tail(l)[i] = l[i + 1]
    BY <1>2, ListsGrow DEF IsLines
  <2> QED BY <1>2, <2>1 DEF IsLines
<1>3. ASSUME NEW l, NEW x, IsLines(l), x.kind = "data" => x.text.label # "STARTTLS"
      PROVE  IsLines(Append(l, x))
  <2>1. /\ IsList(l) /\ Len(l) \in Nat /\ DOMAIN l = 1..Len(l) /\ IsList(Append(l, x))
        /\ DOMAIN Append(l, x) = 1..(Len(l) + 1)
        /\ \A i \in 1..Len(l) : Append(l, x)[i] = l[i]
        /\ Append(l, x)[Len(l) + 1] = x
    BY <1>3, ListsGrow DEF IsLines
  <2>2. ASSUME NEW i \in DOMAIN Append(l, x), Append(l, x)[i].kind = "data"
        PROVE  Append(l, x)[i].text.label # "STARTTLS"
    <3>1. CASE i \in 1..Len(l)
      <4>1. Append(l, x)[i] = l[i] /\ i \in DOMAIN l
        BY <2>1, <3>1
      <4> QED BY <1>3, <2>2, <4>1 DEF IsLines
    <3>2. CASE i = Len(l) + 1
      <4>1. Append(l, x)[i] = x
        BY <2>1, <3>2
      <4> QED BY <1>3, <2>2, <4>1
    <3>3. i \in 1..Len(l) \/ i = Len(l) + 1
      BY <2>1
    <3> QED BY <3>1, <3>2, <3>3
  <2> QED BY <2>1, <2>2 DEF IsLines
<1>4. ASSUME NEW l, NEW x, IsList(l), IsPlain(l), x.label # "STARTTLS"
      PROVE  IsPlain(Append(l, x))
  <2>1. /\ Len(l) \in Nat /\ DOMAIN l = 1..Len(l)
        /\ DOMAIN Append(l, x) = 1..(Len(l) + 1)
        /\ \A i \in 1..Len(l) : Append(l, x)[i] = l[i]
        /\ Append(l, x)[Len(l) + 1] = x
    BY <1>4, ListsGrow
  <2>2. ASSUME NEW i \in DOMAIN Append(l, x) PROVE Append(l, x)[i].label # "STARTTLS"
    <3>1. CASE i \in 1..Len(l)
      <4>1. Append(l, x)[i] = l[i] /\ i \in DOMAIN l
        BY <2>1, <3>1
      <4> QED BY <1>4, <4>1 DEF IsPlain
    <3>2. CASE i = Len(l) + 1
      <4>1. Append(l, x)[i] = x
        BY <2>1, <3>2
      <4> QED BY <1>4, <4>1
    <3>3. i \in 1..Len(l) \/ i = Len(l) + 1
      BY <2>1
    <3> QED BY <3>1, <3>2, <3>3
  <2> QED BY <2>2 DEF IsPlain
<1>5. ASSUME NEW l, NEW k, IsLines(l), IsLines(k) PROVE IsLines(l \o k)
  <2>1. PICK S, T : l \in Seq(S) /\ k \in Seq(T)
    BY <1>5 DEF IsLines, IsList
  <2>2. l \in Seq(S \cup T) /\ k \in Seq(S \cup T)
    BY <2>1
  <2> DEFINE U == S \cup T
  <2> HIDE DEF U
  <2>3. l \in Seq(U) /\ k \in Seq(U)
    BY <2>2 DEF U
  <2>4. l \o k \in Seq(U) /\ DOMAIN (l \o k) = 1..(Len(l) + Len(k))
    BY <2>3
  <2>5. ASSUME NEW i \in DOMAIN (l \o k)
        PROVE  \/ i \in DOMAIN l /\ (l \o k)[i] = l[i]
               \/ i - Len(l) \in DOMAIN k /\ (l \o k)[i] = k[i - Len(l)]
    BY <2>3, <2>4
  <2> QED BY <1>5, <2>4, <2>5 DEF IsLines, IsList
<1> QED BY <1>1, <1>2, <1>3, <1>4, <1>5

\* One status line, and a block of texts.
LEMMA OneLine == \A code, arg : IsLines(<<Status(code, arg)>>)
PROOF
<1> TAKE code, arg
<1> DEFINE x == Status(code, arg)
<1>1. x.kind # "data"
  BY DEF Status
<1> HIDE DEF x
<1> DEFINE l == <<x>>
<1>2. l \in Seq({x}) /\ \A i \in DOMAIN l : l[i] = x
  OBVIOUS
<1> HIDE DEF l
<1>4. IsLines(l)
  BY <1>1, <1>2 DEF IsLines, IsList
<1>3. IsLines(<<x>>)
  BY <1>4 DEF l
<1> QED BY <1>3 DEF x

\* A block without the label is answered without it, truncated or not.
LEMMA BlockOfLines ==
    ASSUME NEW s, NEW code, NEW arg, NEW lines, IsLines(lines)
    PROVE  IsLines(WithBlock(s, code, arg, lines).lines)
PROOF
<1>1. IsLines(<<Dot>>)
  <2> DEFINE x == Dot
  <2>1. x.kind # "data"
    BY DEF Dot
  <2> HIDE DEF x
  <2> DEFINE l == <<x>>
  <2>2. l \in Seq({x}) /\ \A i \in DOMAIN l : l[i] = x
    OBVIOUS
  <2> HIDE DEF l
  <2>4. IsLines(l)
    BY <2>1, <2>2 DEF IsLines, IsList
  <2>3. IsLines(<<x>>)
    BY <2>4 DEF l
  <2> QED BY <2>3 DEF x
<1>2. IsLines(SubSeq(lines, 1, Min({1, Len(lines)})))
  <2>1. PICK S : lines \in Seq(S)
    BY DEF IsLines, IsList
  <2>2. Len(lines) \in Nat
    BY <2>1
  <2>3. Min({1, Len(lines)}) \in {1, Len(lines)} /\ Min({1, Len(lines)}) <= Len(lines)
    <3>1. \E x \in {1, Len(lines)} : \A y \in {1, Len(lines)} : x <= y
      BY <2>2
    <3> QED BY <3>1 DEF Min
  <2> DEFINE n == Min({1, Len(lines)})
             k == SubSeq(lines, 1, n)
  <2>4. n \in 0..Len(lines)
    BY <2>2, <2>3
  <2> HIDE DEF n
  <2>5. k \in Seq(S) /\ Len(k) = n /\ \A i \in 1..n : k[i] = lines[i]
    BY <2>1, <2>4
  <2>6. DOMAIN k = 1..n /\ DOMAIN lines = 1..Len(lines)
    BY <2>1, <2>5
  <2>7. \A i \in DOMAIN k : i \in DOMAIN lines /\ k[i] = lines[i]
    BY <2>2, <2>4, <2>5, <2>6
  <2> QED BY <2>5, <2>7 DEF IsLines, IsList, n
<1>3. IsLines(<<Status(code, arg)>>)
  BY OneLine
<1>4. /\ IsLines(<<Status(code, arg)>> \o SubSeq(lines, 1, Min({1, Len(lines)})))
      /\ IsLines(<<Status(code, arg)>> \o lines \o <<Dot>>)
  BY <1>1, <1>2, <1>3, LinesGrow
<1>5. WithBlock(s, code, arg, lines).lines
         \in {<<Status(code, arg)>> \o SubSeq(lines, 1, Min({1, Len(lines)})),
              <<Status(code, arg)>> \o lines \o <<Dot>>}
  BY DEF WithBlock, Reply
<1> QED BY <1>4, <1>5

\* What the server advertises over TLS.
LEMMA AdvertisedOverTls ==
    ASSUME NEW config, NEW s, s.encrypted
    PROVE  IsLines(CapabilitiesReply(config, s).lines)
PROOF
<1> DEFINE words == {"VERSION", "READER", "OVER", "HDR", "IHAVE", "MODE-READER", "LIST", "POST",
                     "AUTHINFO", "IMPLEMENTATION"}
           labels == Advertised(config, s)
           texts == [i \in DOMAIN labels |-> Label(labels[i])]
           lines == DataLines(texts)
<1>1. labels \in Seq(words)
  <2>1. ReaderLabels(config, s) \in {<<"READER", "OVER", "HDR">>, <<"READER">>, <<"READER", "OVER">>,
                                     <<"IHAVE", "MODE-READER">>}
    BY DEF ReaderLabels
  <2>2. ReaderLabels(config, s) \in Seq(words)
    <3>1. /\ <<"READER", "OVER", "HDR">> \in Seq(words) /\ <<"READER">> \in Seq(words)
          /\ <<"READER", "OVER">> \in Seq(words) /\ <<"IHAVE", "MODE-READER">> \in Seq(words)
      OBVIOUS
    <3> QED BY <2>1, <3>1
  <2>3. /\ <<"VERSION">> \in Seq(words) /\ <<"LIST">> \in Seq(words) /\ <<"POST">> \in Seq(words)
        /\ <<"AUTHINFO">> \in Seq(words) /\ <<"IMPLEMENTATION">> \in Seq(words) /\ <<>> \in Seq(words)
    OBVIOUS
  <2> HIDE DEF words
  <2>4. \E a, b \in Seq(words) :
           labels = <<"VERSION">> \o ReaderLabels(config, s) \o <<"LIST">> \o a \o <<>> \o b
                      \o <<"IMPLEMENTATION">>
    BY <2>3 DEF Advertised
  <2> HIDE DEF labels
  <2> QED BY <2>2, <2>3, <2>4
<1>2. \A w \in words : Data(Label(w)).text.label = w /\ w # "STARTTLS"
  BY DEF Data, Label
<1>3. IsLines(lines)
  <2>1. Len(labels) \in Nat /\ DOMAIN labels = 1..Len(labels) /\ \A i \in DOMAIN labels : labels[i] \in words
    BY <1>1
  <2> HIDE DEF words, labels
  <2>2. lines = [i \in DOMAIN labels |-> Data(Label(labels[i]))]
    BY DEF DataLines
  <2> HIDE DEF lines
  <2> DEFINE S == {Data(Label(labels[i])) : i \in DOMAIN labels}
  <2>3. lines \in Seq(S)
    BY <2>1, <2>2
  <2> QED BY <1>2, <2>1, <2>2, <2>3 DEF IsLines, IsList
<1>4. /\ IsLines(Refusal(s, 500).lines)
      /\ IsLines(Listing(s, 101, texts).lines)
  <2> HIDE DEF texts
  <2> QED BY <1>3, OneLine, BlockOfLines DEF Refusal, Answer, Reply, Listing
<1> QED BY <1>4 DEF CapabilitiesReply

(***************************************************************************)
(* What connect asks is answered, over TLS, without a word of STARTTLS.    *)
(***************************************************************************)
LEMMA OpeningReplies ==
    ASSUME NEW config, NEW co, NEW s, IsState(s), s.encrypted, NEW cmd, cmd.verb \in Asking
    PROVE  IsLines(Handle(config, co, s, cmd).lines)
PROOF
<1> DEFINE t == [s EXCEPT !.commands_served = @ + 1]
           reply == Dispatch(config, co, s, cmd)
<1>1. t.encrypted
  BY DEF IsState
<1>2. cmd.verb \in Always
  BY DEF Asking, Always
<1> HIDE DEF t
<1>3. /\ \A u, code, arg : IsLines(Answer(u, code, arg).lines)
      /\ \A u, code : IsLines(Refusal(u, code).lines)
      /\ \A u, code, arg, flow : IsLines(Reply(u, <<Status(code, arg)>>, flow).lines)
      /\ \A u, flow : IsLines(Reply(u, <<>>, flow).lines)
  BY OneLine, LinesGrow DEF Answer, Refusal, Reply
<1>4. IsLines(AlwaysReply(config, t, cmd).lines)
  <2>1. CASE cmd.verb = "CAPABILITIES"
    BY <1>1, <2>1, AdvertisedOverTls DEF AlwaysReply
  <2>2. CASE cmd.verb = "MODE"
    <3>1. AlwaysReply(config, t, cmd) = Mode(config, t, cmd.arg)
      BY <2>2 DEF AlwaysReply
    <3> DEFINE u == [t EXCEPT !.reader_mode = TRUE]
    <3>3. Mode(config, t, cmd.arg)
             \in {Refusal(t, 501), Refusal(t, 500), Answer(u, 201, NoArg), Answer(u, 200, NoArg)}
      BY DEF Mode
    <3> HIDE DEF u
    <3>2. IsLines(Mode(config, t, cmd.arg).lines)
      BY <1>3, <3>3
    <3> QED BY <3>1, <3>2
  <2>3. CASE cmd.verb = "AUTHINFO"
    <3>1. AlwaysReply(config, t, cmd) = AuthInfo(config, t, cmd.arg)
      BY <2>3 DEF AlwaysReply
    <3> DEFINE u == [t EXCEPT !.pending_user = cmd.arg.value]
               v == [t EXCEPT !.authenticated = TRUE]
               w == [t EXCEPT !.pending_user = "nobody"]
    <3>3. AuthInfo(config, t, cmd.arg)
             \in {Refusal(t, 502), Refusal(t, 501), Refusal(t, 482), Refusal(w, 481), Answer(u, 381, NoArg),
                  Answer(v, 281, NoArg)}
      BY DEF AuthInfo
    <3> HIDE DEF u, v, w
    <3>2. IsLines(AuthInfo(config, t, cmd.arg).lines)
      BY <1>3, <3>3
    <3> QED BY <3>1, <3>2
  <2>4. CASE cmd.verb = "STARTTLS"
    <3>1. AlwaysReply(config, t, cmd) = StartTlsReply(config, t)
      BY <2>4 DEF AlwaysReply
    <3>3. StartTlsReply(config, t)
             \in {Refusal(t, 500), Refusal(t, 502), Reply(t, <<Status(382, NoArg)>>, "UpgradeToTls")}
      BY DEF StartTlsReply
    <3>2. IsLines(StartTlsReply(config, t).lines)
      BY <1>3, <3>3
    <3> QED BY <3>1, <3>2
  <2> QED BY <2>1, <2>2, <2>3, <2>4 DEF Asking
<1>5. IsLines(reply.lines)
  BY <1>2, <1>3, <1>4 DEF Dispatch, t
<1>6. Handle(config, co, s, cmd).lines = reply.lines
  BY DEF Handle
<1> QED BY <1>5, <1>6

-------------------------------------------------------------------------------
(* In step: what is on its way, and what it is the answer to.                  *)

\* What a server that gives up on a silent client says.
Hush == Status(400, NoArg)

\* Nothing is left to read, unless it is over: then the announcement that it is.
Quiet(l, over) == IsList(l) /\ (\A i \in DOMAIN l : l[i] = Hush) /\ (over \/ l = <<>>)

\* The lines of a block, its dot, and nothing else.  When it is over the dot may
\* be missing, and the announcement may follow it.
EndsAt(l, n) ==
    \A i \in DOMAIN l : /\ i < n => l[i].kind \in {"data", "monster"}
                        /\ i = n => l[i].kind = "dot"
                        /\ i > n => l[i] = Hush
BlockRest(l, over) ==
    IsList(l) /\ \E n \in 1..(Len(l) + 1) : EndsAt(l, n) /\ (over \/ n = Len(l))

\* The codes that announce a block to who sent the command.
Announces(verb, code) ==
    \/ verb = "CAPABILITIES" /\ code = 101
    \/ verb = "LIST" /\ code = 215
    \/ verb = "NEWGROUPS" /\ code = 231
    \/ verb \in {"OVER", "XOVER"} /\ code = 224
    \/ verb \in {"HDR", "XHDR"} /\ code \in {221, 225}
    \/ verb = "ARTICLE" /\ code = 220
    \/ verb = "HEAD" /\ code = 221
    \/ verb = "BODY" /\ code = 222
    \/ verb = "HELP" /\ code = 100
    \/ verb = "LISTGROUP" /\ code = 211

\* A reply to a command and nothing else; more may follow a 382, in the clear.
Answered(verb, l, over) ==
    /\ IsList(l) /\ l # <<>> /\ l[1].kind = "status"
    /\ verb \in {"XOVER", "XHDR"} => l[1].code \notin {500, 503}
    /\ IF Announces(verb, l[1].code) THEN BlockRest(Tail(l), over)
       ELSE (verb = "STARTTLS" /\ l[1].code = 382) \/ Quiet(Tail(l), over)

\* Quiet lists: at first, with one announcement more, with one less.
LEMMA QuietLists ==
    /\ \A over : Quiet(<<>>, over)
    /\ \A l, over : Quiet(l, over) => Quiet(l, TRUE) /\ Quiet(Append(l, Hush), TRUE)
    /\ \A l, over : Quiet(l, over) /\ l # <<>> => Quiet(Tail(l), over) /\ l[1] = Hush /\ Head(l) = l[1]
PROOF
<1>1. ASSUME NEW over PROVE Quiet(<<>>, over)
  <2>1. IsList(<<>>) /\ DOMAIN <<>> = 1..0
    BY ListsBegin, ListsGrow
  <2> QED BY <2>1 DEF Quiet
<1>2. ASSUME NEW l, NEW over, Quiet(l, over) PROVE Quiet(l, TRUE) /\ Quiet(Append(l, Hush), TRUE)
  <2>1. /\ IsList(l) /\ Len(l) \in Nat /\ DOMAIN l = 1..Len(l) /\ IsList(Append(l, Hush))
        /\ DOMAIN Append(l, Hush) = 1..(Len(l) + 1)
        /\ \A i \in 1..Len(l) : Append(l, Hush)[i] = l[i]
        /\ Append(l, Hush)[Len(l) + 1] = Hush
    BY <1>2, ListsGrow DEF Quiet
  <2>2. ASSUME NEW i \in DOMAIN Append(l, Hush) PROVE Append(l, Hush)[i] = Hush
    <3>1. i \in 1..Len(l) \/ i = Len(l) + 1
      BY <2>1
    <3> QED BY <1>2, <2>1, <3>1 DEF Quiet
  <2> QED BY <1>2, <2>1, <2>2 DEF Quiet
<1>3. ASSUME NEW l, NEW over, Quiet(l, over), l # <<>>
      PROVE  Quiet(Tail(l), over) /\ l[1] = Hush /\ Head(l) = l[1]
  <2>1. /\ IsList(Tail(l)) /\ Head(l) = l[1] /\ 1 \in DOMAIN l
        /\ \A i \in DOMAIN Tail(l) : i + 1 \in DOMAIN l /\ Tail(l)[i] = l[i + 1]
    BY <1>3, ListsGrow DEF Quiet
  <2>2. over
    BY <1>3 DEF Quiet
  <2> QED BY <1>3, <2>1, <2>2 DEF Quiet
<1> QED BY <1>1, <1>2, <1>3

\* Blocks: with an announcement more, with a line less.
LEMMA BlockLists ==
    /\ \A l, over : BlockRest(l, over) => BlockRest(l, TRUE)
    /\ \A l : BlockRest(l, FALSE) => BlockRest(Append(l, Hush), TRUE)
    /\ \A l, over : BlockRest(l, over) /\ l # <<>>
          => /\ Head(l) = l[1] /\ l[1].kind \in {"data", "monster", "dot"}
             /\ l[1].kind # "dot" => BlockRest(Tail(l), over)
             /\ l[1].kind = "dot" => Quiet(Tail(l), over)
PROOF
<1>1. \A l, over : BlockRest(l, over) => BlockRest(l, TRUE)
  BY DEF BlockRest
<1>2. ASSUME NEW l, BlockRest(l, FALSE) PROVE BlockRest(Append(l, Hush), TRUE)
  <2> DEFINE k == Append(l, Hush)
  <2>1. /\ IsList(l) /\ Len(l) \in Nat /\ DOMAIN l = 1..Len(l) /\ IsList(k)
        /\ DOMAIN k = 1..(Len(l) + 1) /\ Len(k) = Len(l) + 1
        /\ \A i \in 1..Len(l) : k[i] = l[i]
        /\ k[Len(l) + 1] = Hush
    BY <1>2, ListsGrow DEF BlockRest
  <2> HIDE DEF k
  <2>2. Len(l) \in 1..(Len(l) + 1) /\ EndsAt(l, Len(l))
    BY <1>2, <2>1 DEF BlockRest
  <2>3. EndsAt(k, Len(l))
    <3> SUFFICES ASSUME NEW i \in DOMAIN k
                 PROVE  /\ i < Len(l) => k[i].kind \in {"data", "monster"}
                        /\ i = Len(l) => k[i].kind = "dot"
                        /\ i > Len(l) => k[i] = Hush
      BY DEF EndsAt
    <3>1. CASE i \in 1..Len(l)
      BY <2>1, <2>2, <3>1 DEF EndsAt
    <3>2. CASE i = Len(l) + 1
      <4>1. k[i] = Hush
        BY <2>1, <3>2
      <4>3. Len(l) \in Int
        BY <2>1
      <4>2. ~(i < Len(l)) /\ i # Len(l)
        BY ONLY <4>3, <3>2
      <4> QED BY <4>1, <4>2
    <3> QED BY <2>1, <3>1, <3>2
  <2>4. Len(l) \in 1..(Len(k) + 1)
    BY <2>1, <2>2
  <2>5. BlockRest(k, TRUE)
    BY <2>1, <2>3, <2>4 DEF BlockRest
  <2> QED BY <2>5 DEF k
<1>3. ASSUME NEW l, NEW over, BlockRest(l, over), l # <<>>
      PROVE  /\ Head(l) = l[1] /\ l[1].kind \in {"data", "monster", "dot"}
             /\ l[1].kind # "dot" => BlockRest(Tail(l), over)
             /\ l[1].kind = "dot" => Quiet(Tail(l), over)
  <2>1. PICK n \in 1..(Len(l) + 1) : EndsAt(l, n) /\ (over \/ n = Len(l))
    BY <1>3 DEF BlockRest
  <2>2. PICK S : l \in Seq(S)
    BY <1>3 DEF BlockRest, IsList
  <2>3. /\ IsList(Tail(l)) /\ Head(l) = l[1] /\ 1 \in DOMAIN l
        /\ \A i \in DOMAIN Tail(l) : i + 1 \in DOMAIN l /\ Tail(l)[i] = l[i + 1]
    BY <1>3, ListsGrow DEF BlockRest
  <2>4. Len(l) \in Nat /\ Len(l) >= 1 /\ Len(Tail(l)) = Len(l) - 1 /\ DOMAIN Tail(l) = 1..(Len(l) - 1)
    BY <1>3, <2>2
  <2>5. /\ n = 1 => l[1].kind = "dot"
        /\ n > 1 => l[1].kind \in {"data", "monster"}
    BY <2>1, <2>3 DEF EndsAt
  <2>6. n = 1 \/ n > 1
    BY <2>4
  <2>7. ASSUME n > 1 PROVE BlockRest(Tail(l), over)
    <3>1. EndsAt(Tail(l), n - 1)
      <4> SUFFICES ASSUME NEW i \in DOMAIN Tail(l)
                   PROVE  /\ i < n - 1 => Tail(l)[i].kind \in {"data", "monster"}
                          /\ i = n - 1 => Tail(l)[i].kind = "dot"
                          /\ i > n - 1 => Tail(l)[i] = Hush
        BY DEF EndsAt
      <4>1. i \in Nat /\ n \in Nat /\ i + 1 \in DOMAIN l /\ Tail(l)[i] = l[i + 1]
        BY <2>3, <2>4
      <4>2. /\ i + 1 < n => l[i + 1].kind \in {"data", "monster"}
            /\ i + 1 = n => l[i + 1].kind = "dot"
            /\ i + 1 > n => l[i + 1] = Hush
        BY <2>1, <4>1 DEF EndsAt
      <4> QED BY <4>1, <4>2
    <3>2. n - 1 \in 1..(Len(Tail(l)) + 1) /\ (over \/ n - 1 = Len(Tail(l)))
      BY <2>1, <2>4, <2>7
    <3> QED BY <2>3, <3>1, <3>2 DEF BlockRest
  <2>8. ASSUME n = 1 PROVE Quiet(Tail(l), over)
    <3>1. ASSUME NEW i \in DOMAIN Tail(l) PROVE Tail(l)[i] = Hush
      <4>1. i \in Nat /\ i >= 1 /\ i + 1 \in DOMAIN l /\ Tail(l)[i] = l[i + 1]
        BY <2>3, <2>4
      <4>2. i + 1 > n => l[i + 1] = Hush
        BY <2>1, <4>1 DEF EndsAt
      <4> QED BY <2>8, <4>1, <4>2
    <3>2. over \/ Tail(l) = <<>>
      <4>1. ASSUME n = Len(l) PROVE Tail(l) = <<>>
        <5>1. Len(l) = 1 /\ l \in Seq(S)
          BY <2>2, <2>8, <4>1
        <5>2. Tail(l) \in Seq(S) /\ Len(Tail(l)) = 0
          BY <1>3, <2>4, <5>1
        <5> QED BY <5>2, EmptySeq
      <4> QED BY <2>1, <4>1
    <3> QED BY <2>3, <3>1, <3>2 DEF Quiet
  <2> QED BY <2>3, <2>5, <2>6, <2>7, <2>8
<1> QED BY <1>1, <1>2, <1>3

\* The codes that log a client in and that select a group, by who sent the command.
LogsIn(verb, code) == verb = "AUTHINFO" /\ code = 281
Selects(verb, code) == verb \in {"GROUP", "LISTGROUP"} /\ code = 211

\* What the session does after such a reply, and after one that ends so.
After(verb, code) ==
    IF verb = "POST" /\ code = 340 THEN "article"
    ELSE IF verb = "STARTTLS" /\ code = 382 THEN "tls" ELSE "command"

NextOf(flow) ==
    CASE flow = "UpgradeToTls" -> "tls"
      [] flow = "ReadArticle" -> "article"
      [] OTHER -> "command"

\* What the State a reply leaves is, of what it was, as the status line says it.
Tells(s, verb, status, t, flow) ==
    /\ NextOf(flow) = After(verb, status.code)
    /\ LogsIn(verb, status.code) => t.authenticated = TRUE
    /\ ~LogsIn(verb, status.code) => t.authenticated = s.authenticated
    /\ Selects(verb, status.code) => t.current_group = status.arg.name
    /\ ~Selects(verb, status.code) => t.current_group = s.current_group
    /\ verb = "STARTTLS" /\ status.code = 382 => s.authenticated = FALSE

\* The session ends with this reply.
Ends(r) == r.flow = "Close" \/ r.st.close_requested

\* Only an article is confirmed, and only a POST answered with the offer to take one.
Strays(verb, code) == (code = 240 /\ verb # "article") \/ (code = 340 /\ verb # "POST")

\* A code that is the whole reply.
OfOneLine(verb, code) == ~Announces(verb, code) /\ ~Strays(verb, code)

\* After the first line no status is sent but the announcement of the end.
Modest(verb, l) ==
    \A i \in DOMAIN l : l[i].kind = "status" =>
        l[i] = Hush \/ (i = 1 /\ ~Strays(verb, l[i].code))

\* A reply the client that sent the verb reads to its end, and that tells it what
\* has become of the session, or the end of the session without a word.
Fits(s, verb, r) ==
    /\ "flow" \in DOMAIN r /\ r.st.close_requested \in BOOLEAN
    /\ \/ r.flow = "Close" /\ r.lines = <<>>
       \/ /\ Answered(verb, r.lines, Ends(r)) /\ Modest(verb, r.lines)
          /\ ~Ends(r) => Tells(s, verb, r.lines[1], r.st, r.flow)

\* A State in which the session goes on, and the client's idea of it is as before.
Same(s, t) ==
    /\ t.close_requested = FALSE
    /\ t.authenticated = s.authenticated /\ t.current_group = s.current_group

\* A list of one, and it with another list after it.
LEMMA OneAndMore ==
    ASSUME NEW x, NEW l, IsList(l)
    PROVE  /\ IsList(<<x>>) /\ <<x>> # <<>> /\ <<x>>[1] = x /\ Tail(<<x>>) = <<>>
           /\ IsList(<<x>> \o l) /\ <<x>> \o l # <<>> /\ (<<x>> \o l)[1] = x /\ Tail(<<x>> \o l) = l
PROOF
<1>1. PICK S : l \in Seq(S)
  BY DEF IsList
<1> DEFINE T == S \cup {x}
           k == <<x>>
<1>2. l \in Seq(T) /\ k \in Seq(T) /\ Len(k) = 1 /\ k[1] = x
  BY <1>1
<1> HIDE DEF T
<1>3. k # <<>> /\ Tail(k) = <<>>
  <2>1. Tail(k) \in Seq(T) /\ Len(Tail(k)) = 0
    BY <1>2
  <2> QED BY <1>2, <2>1, EmptySeq
<1> DEFINE m == k \o l
<1> HIDE DEF k
<1>8. /\ m \in Seq(T) /\ Len(m) = Len(k) + Len(l)
      /\ \A i \in 1..(Len(k) + Len(l)) : m[i] = IF i <= Len(k) THEN k[i] ELSE l[i - Len(k)]
  BY <1>2, ConcatProperties
<1>4. m \in Seq(T) /\ Len(m) = Len(l) + 1 /\ Len(l) \in Nat /\ m[1] = x
  <2>1. Len(l) \in Nat
    BY <1>2
  <2>2. 1 \in 1..(Len(k) + Len(l)) /\ 1 <= Len(k)
    BY <1>2, <2>1
  <2> HIDE DEF m
  <2>3. m[1] = k[1]
    BY <1>8, <2>2
  <2>4. Len(m) = Len(l) + 1
    BY <1>2, <1>8, <2>1
  <2> QED BY <1>2, <1>8, <2>1, <2>3, <2>4
<1>5. ASSUME NEW i \in 1..Len(l) PROVE m[i + 1] = l[i]
  <2>1. Len(l) \in Nat /\ i \in Nat
    BY <1>2
  <2>2. i + 1 \in 1..(Len(k) + Len(l)) /\ ~(i + 1 <= Len(k)) /\ (i + 1) - Len(k) = i
    BY <1>2, <2>1
  <2> HIDE DEF m
  <2> QED BY <1>8, <2>2
<1> HIDE DEF m
<1>6. m # <<>>
  BY <1>4
<1>7. Tail(m) = l
  <2>1. Tail(m) \in Seq(T) /\ Len(Tail(m)) = Len(l)
    BY <1>4, <1>6
  <2>2. \A i \in 1..Len(l) : Tail(m)[i] = l[i]
    BY <1>4, <1>5, <1>6, <2>1
  <2> QED BY <1>2, <2>1, <2>2, SeqEqual
<1> QED BY <1>2, <1>3, <1>4, <1>6, <1>7 DEF IsList, k, m

\* One status line.
LEMMA OneLineFits ==
    ASSUME NEW s, NEW verb, NEW t, t.close_requested = FALSE, NEW code, NEW arg, NEW flow,
           OfOneLine(verb, code), verb \in {"XOVER", "XHDR"} => code \notin {500, 503},
           flow # "Close" => Tells(s, verb, Status(code, arg), t, flow)
    PROVE  Fits(s, verb, Reply(t, <<Status(code, arg)>>, flow))
PROOF
<1> DEFINE x == Status(code, arg)
           r == Reply(t, <<x>>, flow)
<1>1. x.kind = "status" /\ x.code = code
  BY DEF Status
<1>2. r.st = t /\ r.lines = <<x>> /\ r.flow = flow /\ "flow" \in DOMAIN r
  BY DEF Reply
<1> HIDE DEF x
<1>3. IsList(<<x>>) /\ <<x>> # <<>> /\ <<x>>[1] = x /\ Tail(<<x>>) = <<>>
  BY ListsBegin, OneAndMore
<1> HIDE DEF r
<1>4. Answered(verb, r.lines, Ends(r))
  BY <1>1, <1>2, <1>3, QuietLists DEF Answered, OfOneLine
<1>7. Modest(verb, r.lines)
  <2>1. \A i \in DOMAIN <<x>> : i = 1
    BY <1>3, ListsGrow
  <2> QED BY <1>1, <1>2, <1>3, <2>1 DEF Modest, OfOneLine
<1>5. ~Ends(r) => Tells(s, verb, r.lines[1], r.st, r.flow)
  BY <1>2, <1>3 DEF Ends, x
<1>6. Fits(s, verb, r)
  BY <1>2, <1>4, <1>5, <1>7 DEF Fits
<1> QED BY <1>6 DEF r, x

Missing == {500, 503}

LEMMA LineFits ==
    ASSUME NEW s, NEW verb, NEW t, t.close_requested = FALSE, NEW code, NEW arg,
           OfOneLine(verb, code), code \notin Missing
    PROVE  /\ Fits(s, verb, Reply(t, <<Status(code, arg)>>, "Close"))
           /\ \A flow : Tells(s, verb, Status(code, arg), t, flow)
                          => Fits(s, verb, Reply(t, <<Status(code, arg)>>, flow))
PROOF
<1>1. \A flow : (flow # "Close" => Tells(s, verb, Status(code, arg), t, flow))
                   => Fits(s, verb, Reply(t, <<Status(code, arg)>>, flow))
  BY OneLineFits DEF Missing
<1> QED BY <1>1

\* A refusal.
Refusals == {400, 411, 412, 420, 421, 422, 423, 430, 440, 441, 480, 481, 482, 500, 501, 502, 503}

LEMMA RefusalFits ==
    ASSUME NEW s, NEW verb, NEW t, Same(s, t), NEW code \in Refusals,
           verb \in {"XOVER", "XHDR"} => code \notin {500, 503}
    PROVE  Fits(s, verb, Refusal(t, code)) /\ Fits(s, verb, UnderGuard(Refusal(t, code)))
PROOF
<1> DEFINE x == Status(code, NoArg)
           r == Reply(t, <<x>>, "Continue")
<1>1. OfOneLine(verb, code) /\ ~LogsIn(verb, code) /\ ~Selects(verb, code)
      /\ After(verb, code) = "command" /\ code # 382
  BY DEF Announces, OfOneLine, Strays, LogsIn, Selects, After, Refusals
<1>2. x.code = code
  BY DEF Status
<1>3. Tells(s, verb, x, t, "Continue")
  <2> HIDE DEF x
  <2>1. NextOf("Continue") = "command"
    BY DEF NextOf
  <2> QED BY <1>1, <1>2, <2>1 DEF Tells, Same
<1>4. Fits(s, verb, r)
  <2>1. t.close_requested = FALSE
    BY DEF Same
  <2>2. \A f : f # "Close" /\ Tells(s, verb, Status(code, NoArg), t, f)
                   => Fits(s, verb, Reply(t, <<Status(code, NoArg)>>, f))
    BY <1>1, <2>1, OneLineFits
  <2> QED BY <1>3, <2>2
<1>5. Refusal(t, code) = r
  BY DEF Refusal, Answer
<1>6. /\ UnderGuard(r).st = r.st /\ UnderGuard(r).lines = r.lines /\ UnderGuard(r).flow = r.flow
      /\ "flow" \in DOMAIN UnderGuard(r)
  BY DEF UnderGuard, Reply
<1> HIDE DEF r
<1>7. Fits(s, verb, UnderGuard(r))
  BY <1>4, <1>6 DEF Fits, Ends
<1> QED BY <1>4, <1>5, <1>7

\* What a block is made of.
IsContent(lines) == IsList(lines) /\ \A i \in DOMAIN lines : lines[i].kind \in {"data", "monster"}

\* The content of a block with its dot, and the first line of one.
LEMMA ContentIsRest ==
    ASSUME NEW lines, IsContent(lines)
    PROVE  /\ \A over : BlockRest(lines \o <<Dot>>, over)
           /\ BlockRest(SubSeq(lines, 1, Min({1, Len(lines)})), TRUE)
PROOF
<1>1. PICK S : lines \in Seq(S)
  BY DEF IsContent, IsList
<1>2. Len(lines) \in Nat /\ DOMAIN lines = 1..Len(lines)
  BY <1>1
<1>3. ASSUME NEW over PROVE BlockRest(lines \o <<Dot>>, over)
  <2> DEFINE x == Dot
             T == S \cup {x}
             k == <<x>>
  <2>1. x.kind = "dot"
    BY DEF Dot
  <2> HIDE DEF x
  <2>2. lines \in Seq(T) /\ k \in Seq(T) /\ Len(k) = 1 /\ k[1] = x
    BY <1>1
  <2> DEFINE m == lines \o k
             n == Len(lines) + 1
  <2> HIDE DEF T, k
  <2>3. /\ m \in Seq(T) /\ Len(m) = Len(lines) + Len(k)
        /\ \A i \in 1..(Len(lines) + Len(k)) :
              m[i] = IF i <= Len(lines) THEN lines[i] ELSE k[i - Len(lines)]
    BY <2>2, ConcatProperties
  <2>4. DOMAIN m = 1..n /\ Len(m) = n
    <3> HIDE DEF m
    <3> QED BY <2>2, <2>3
  <2> HIDE DEF m
  <2>5. ASSUME NEW i \in DOMAIN m
        PROVE  /\ i < n => m[i].kind \in {"data", "monster"}
               /\ i = n => m[i].kind = "dot"
               /\ i > n => m[i] = Hush
    <3>1. i \in Nat /\ i >= 1 /\ i <= n /\ ~(i > n) /\ i \in 1..(Len(lines) + Len(k))
      BY <1>2, <2>2, <2>4
    <3>2. ASSUME i < n PROVE m[i].kind \in {"data", "monster"}
      <4>1. i <= Len(lines) /\ i \in DOMAIN lines
        BY <1>2, <3>1, <3>2
      <4>2. m[i] = lines[i]
        BY <2>3, <3>1, <4>1
      <4> QED BY <4>1, <4>2 DEF IsContent
    <3>3. ASSUME i = n PROVE m[i].kind = "dot"
      <4>1. ~(i <= Len(lines)) /\ i - Len(lines) = 1
        BY <1>2, <3>3
      <4>2. m[i] = k[1]
        BY <2>3, <3>1, <4>1
      <4> QED BY <2>1, <2>2, <4>2
    <3> QED BY <3>1, <3>2, <3>3
  <2>6. EndsAt(m, n)
    BY <2>5 DEF EndsAt
  <2>7. n \in 1..(Len(m) + 1) /\ n = Len(m)
    BY <1>2, <2>4
  <2>8. BlockRest(m, over)
    BY <2>3, <2>6, <2>7 DEF BlockRest, IsList
  <2> QED BY <2>8 DEF m, k, x
<1>4. BlockRest(SubSeq(lines, 1, Min({1, Len(lines)})), TRUE)
  <2>1. Min({1, Len(lines)}) \in {1, Len(lines)} /\ Min({1, Len(lines)}) <= Len(lines)
    <3>1. \E x \in {1, Len(lines)} : \A y \in {1, Len(lines)} : x <= y
      BY <1>2
    <3> QED BY <3>1 DEF Min
  <2> DEFINE n == Min({1, Len(lines)})
             k == SubSeq(lines, 1, n)
  <2>2. n \in 0..Len(lines)
    BY <1>2, <2>1
  <2> HIDE DEF n
  <2>3. k \in Seq(S) /\ Len(k) = n /\ \A i \in 1..n : k[i] = lines[i]
    BY <1>1, <2>2
  <2>4. n \in Nat /\ DOMAIN k = 1..n
    BY <2>2, <2>3
  <2> HIDE DEF k
  <2>5. ASSUME NEW i \in DOMAIN k
        PROVE  /\ i < n + 1 /\ ~(i > n + 1) /\ i # n + 1
               /\ k[i].kind \in {"data", "monster"}
    <3>1. i \in Nat /\ i <= n /\ i \in 1..n
      BY <2>4
    <3>2. i \in DOMAIN lines
      BY <1>2, <2>2, <3>1
    <3>3. k[i] = lines[i]
      BY <2>3, <3>1
    <3>4. k[i].kind \in {"data", "monster"}
      BY <3>2, <3>3 DEF IsContent
    <3> QED BY <2>4, <3>1, <3>4
  <2>6. EndsAt(k, n + 1)
    BY <2>5 DEF EndsAt
  <2>7. n + 1 \in 1..(Len(k) + 1)
    BY <2>3, <2>4
  <2>8. BlockRest(k, TRUE)
    BY <2>3, <2>6, <2>7 DEF BlockRest, IsList
  <2> QED BY <2>8 DEF k, n
<1> QED BY <1>3, <1>4

\* A first line that announces a block, and the block.
LEMMA AnnouncedIsAnswered ==
    ASSUME NEW verb, NEW l, NEW over, IsList(l), l # <<>>, l[1].kind = "status",
           Announces(verb, l[1].code), BlockRest(Tail(l), over)
    PROVE  Answered(verb, l, over)
PROOF
<1>1. verb \in {"XOVER", "XHDR"} => l[1].code \notin {500, 503}
  BY DEF Announces
<1> QED BY <1>1 DEF Answered

\* A first line that announces none, and what may follow it.
LEMMA PlainIsAnswered ==
    ASSUME NEW verb, NEW l, NEW over, IsList(l), l # <<>>, l[1].kind = "status",
           ~Announces(verb, l[1].code), verb \in {"XOVER", "XHDR"} => l[1].code \notin {500, 503},
           (verb = "STARTTLS" /\ l[1].code = 382) \/ Quiet(Tail(l), over)
    PROVE  Answered(verb, l, over)
BY DEF Answered

\* The lines of a block are no statuses.
LEMMA BlockIsModest ==
    ASSUME NEW verb, NEW l, NEW over, IsList(l), l # <<>>, ~Strays(verb, l[1].code), BlockRest(Tail(l), over)
    PROVE  Modest(verb, l)
PROOF
<1>1. PICK n \in 1..(Len(Tail(l)) + 1) : EndsAt(Tail(l), n)
  BY DEF BlockRest
<1>2. PICK S : l \in Seq(S)
  BY DEF IsList
<1>3. /\ Len(l) \in Nat /\ DOMAIN l = 1..Len(l) /\ Len(Tail(l)) = Len(l) - 1
      /\ DOMAIN Tail(l) = 1..(Len(l) - 1) /\ \A i \in DOMAIN Tail(l) : Tail(l)[i] = l[i + 1]
  <2>1. /\ Len(l) \in Nat /\ DOMAIN l = 1..Len(l) /\ IsList(Tail(l))
        /\ \A i \in DOMAIN Tail(l) : Tail(l)[i] = l[i + 1]
    BY ListsGrow
  <2>2. Len(Tail(l)) = Len(l) - 1
    BY <1>2
  <2> QED BY <2>1, <2>2, ListsGrow
<1>4. ASSUME NEW i \in DOMAIN l, i # 1 PROVE l[i].kind \in {"data", "monster", "dot"} \/ l[i] = Hush
  <2>1. i - 1 \in DOMAIN Tail(l) /\ (i - 1) + 1 = i
    BY <1>3, <1>4
  <2>2. l[i] = Tail(l)[i - 1]
    BY <1>3, <2>1
  <2>3. i - 1 < n \/ i - 1 = n \/ i - 1 > n
    BY <1>3, <2>1
  <2> QED BY <1>1, <2>1, <2>2, <2>3 DEF EndsAt
<1> QED BY <1>4 DEF Modest

\* block(), truncated or not.
LEMMA BlockFits ==
    ASSUME NEW s, NEW verb, NEW t, t.close_requested = FALSE, DOMAIN t = StateFields,
           NEW code, NEW arg, Announces(verb, code),
           NEW lines, IsContent(lines), Tells(s, verb, Status(code, arg), t, "Continue")
    PROVE  /\ Fits(s, verb, WithBlock(t, code, arg, lines))
           /\ Fits(s, verb, UnderGuard(WithBlock(t, code, arg, lines)))
PROOF
<1> DEFINE x == Status(code, arg)
           first == SubSeq(lines, 1, Min({1, Len(lines)}))
           u == [t EXCEPT !.truncate_next_block = FALSE, !.close_requested = TRUE]
           whole == Reply(t, <<x>> \o lines \o <<Dot>>, "Continue")
           cut == Reply(u, <<x>> \o first, "Continue")
           r == WithBlock(t, code, arg, lines)
<1>1. x.kind = "status" /\ x.code = code
  BY DEF Status
<1>3. Tells(s, verb, x, t, "Continue")
  OBVIOUS
<1>4. u.close_requested = TRUE
  BY DEF StateFields
<1>12. ~Strays(verb, x.code)
  BY <1>1 DEF Announces, Strays
<1>5. r \in {whole, cut}
  BY DEF WithBlock
<1>6. \A k : /\ Reply(t, k, "Continue").st = t /\ Reply(u, k, "Continue").st = u
             /\ Reply(t, k, "Continue").lines = k /\ Reply(u, k, "Continue").lines = k
             /\ Reply(t, k, "Continue").flow = "Continue" /\ Reply(u, k, "Continue").flow = "Continue"
             /\ "flow" \in DOMAIN Reply(t, k, "Continue") /\ "flow" \in DOMAIN Reply(u, k, "Continue")
  BY DEF Reply
<1>7. /\ UnderGuard(r).st = r.st /\ UnderGuard(r).lines = r.lines /\ UnderGuard(r).flow = r.flow
      /\ "flow" \in DOMAIN UnderGuard(r)
  BY DEF UnderGuard, Reply, WithBlock
<1> HIDE DEF x, first, u, r
<1>8. Fits(s, verb, whole)
  <2> DEFINE k == lines \o <<Dot>>
             l == <<x>> \o k
  <2>1. BlockRest(k, FALSE) /\ IsList(k)
    BY ContentIsRest DEF BlockRest
  <2>2. <<x>> \o lines \o <<Dot>> = l
    <3>1. PICK S : lines \in Seq(S)
      BY DEF IsContent, IsList
    <3> DEFINE T == S \cup {x, Dot}
               a == <<x>>
               b == <<Dot>>
    <3>2. a \in Seq(T) /\ lines \in Seq(T) /\ b \in Seq(T)
      BY <3>1
    <3> HIDE DEF a, b, T
    <3>3. (a \o lines) \o b = a \o (lines \o b)
      BY <3>2, ConcatAssociative
    <3> QED BY <3>3 DEF a, b
  <2> HIDE DEF k
  <2>3. IsList(l) /\ l # <<>> /\ l[1] = x /\ Tail(l) = k
    BY <2>1, OneAndMore
  <2> HIDE DEF l
  <2>4. Answered(verb, l, FALSE)
    <3>1. l[1].kind = "status" /\ Announces(verb, l[1].code) /\ BlockRest(Tail(l), FALSE)
      BY <1>1, <2>1, <2>3
    <3> QED BY <2>3, <3>1, AnnouncedIsAnswered
  <2>5. whole.lines = l /\ whole.st = t /\ whole.flow = "Continue" /\ "flow" \in DOMAIN whole
    BY <1>6, <2>2
  <2> HIDE DEF whole
  <2>6. Ends(whole) = FALSE
    BY <2>5 DEF Ends
  <2>7. Modest(verb, l)
    BY <1>12, <2>1, <2>3, BlockIsModest
  <2> QED BY <1>3, <2>3, <2>4, <2>5, <2>6, <2>7 DEF Fits
<1>9. Fits(s, verb, cut)
  <2> DEFINE l == <<x>> \o first
  <2>1. BlockRest(first, TRUE) /\ IsList(first)
    BY ContentIsRest DEF BlockRest, first
  <2>2. IsList(l) /\ l # <<>> /\ l[1] = x /\ Tail(l) = first
    BY <2>1, OneAndMore
  <2>3. cut.lines = l /\ cut.st = u /\ cut.flow = "Continue" /\ "flow" \in DOMAIN cut
    BY <1>6
  <2> HIDE DEF l, cut
  <2>4. Answered(verb, l, TRUE)
    <3>1. l[1].kind = "status" /\ Announces(verb, l[1].code) /\ BlockRest(Tail(l), TRUE)
      BY <1>1, <2>1, <2>2
    <3> QED BY <2>2, <3>1, AnnouncedIsAnswered
  <2>5. Ends(cut) = TRUE
    BY <1>4, <2>3 DEF Ends
  <2>6. Modest(verb, l)
    BY <1>12, <2>1, <2>2, BlockIsModest
  <2> QED BY <1>4, <2>3, <2>4, <2>5, <2>6 DEF Fits
<1>10. Fits(s, verb, r)
  BY <1>5, <1>8, <1>9
<1>11. Fits(s, verb, UnderGuard(r))
  BY <1>7, <1>10 DEF Fits, Ends
<1> QED BY <1>10, <1>11 DEF r

\* The lists of a block.
LEMMA Contents ==
    /\ \A texts : IsList(texts) => IsContent(DataLines(texts))
    /\ \A S : IsFiniteSet(S) => IsContent(NumberLines(InOrder(S)))
    /\ \A x : IsContent(<<Data(x)>>) /\ IsList(<<x>>)
    /\ IsContent(<<Monster>>)
PROOF
<1>1. ASSUME NEW n \in Nat, NEW f, NEW m, m = [i \in 1..n |-> Data(f[i])]
      PROVE  IsContent(m)
  <2> DEFINE T == {m[i] : i \in 1..n}
  <2>2. m \in Seq(T) /\ DOMAIN m = 1..n
    BY <1>1
  <2>3. \A i \in 1..n : m[i].kind = "data"
    BY <1>1 DEF Data
  <2> QED BY <2>2, <2>3 DEF IsList, IsContent
<1>2. ASSUME NEW texts, IsList(texts) PROVE IsContent(DataLines(texts))
  <2>1. Len(texts) \in Nat /\ DOMAIN texts = 1..Len(texts)
    BY <1>2, ListsGrow
  <2>2. DataLines(texts) = [i \in 1..Len(texts) |-> Data(texts[i])]
    BY <2>1 DEF DataLines
  <2> QED BY <1>1, <2>1, <2>2
<1>3. ASSUME NEW S, IsFiniteSet(S) PROVE IsContent(NumberLines(InOrder(S)))
  <2> DEFINE l == InOrder(S)
  <2>1. Cardinality(S) \in Nat /\ DOMAIN l = 1..Cardinality(S)
    BY <1>3, InOrderLists
  <2> HIDE DEF l
  <2> DEFINE f == [i \in 1..Cardinality(S) |-> Number(l[i])]
  <2>2. NumberLines(l) = [i \in 1..Cardinality(S) |-> Data(f[i])]
    BY <2>1 DEF NumberLines
  <2> HIDE DEF f
  <2> QED BY <1>1, <2>1, <2>2 DEF l
<1>4. ASSUME NEW x PROVE IsList(<<x>>) /\ (x.kind \in {"data", "monster"} => IsContent(<<x>>))
  <2> DEFINE l == <<x>>
  <2>1. l \in Seq({x}) /\ DOMAIN l = 1..1 /\ \A i \in DOMAIN l : l[i] = x
    OBVIOUS
  <2> HIDE DEF l
  <2>2. IsList(l) /\ (x.kind \in {"data", "monster"} => IsContent(l))
    BY <2>1 DEF IsList, IsContent
  <2> QED BY <2>2 DEF l
<1>5. \A x : Data(x).kind = "data"
  BY DEF Data
<1>6. Monster.kind = "monster"
  BY DEF Monster
<1> QED BY <1>2, <1>3, <1>4, <1>5, <1>6

\* A status line that says nothing new of the session.
LEMMA PlainTells ==
    ASSUME NEW s, NEW t, Same(s, t), NEW verb, NEW code, NEW arg,
           ~LogsIn(verb, code), ~Selects(verb, code), After(verb, code) = "command", code # 382
    PROVE  Tells(s, verb, Status(code, arg), t, "Continue")
PROOF
<1>1. Status(code, arg).code = code
  BY DEF Status
<1>2. NextOf("Continue") = "command"
  BY DEF NextOf
<1> QED BY <1>1, <1>2 DEF Tells, Same

\* One line that is neither a refusal nor news.
LEMMA AnswerFits ==
    ASSUME NEW s, NEW t, Same(s, t), NEW verb, NEW code,
           ~LogsIn(verb, code), ~Selects(verb, code), After(verb, code) = "command", code # 382,
           OfOneLine(verb, code), code \notin {500, 503}, NEW arg
    PROVE  Fits(s, verb, Answer(t, code, arg))
PROOF
<1>1. Tells(s, verb, Status(code, arg), t, "Continue")
  BY PlainTells
<1>2. t.close_requested = FALSE
  BY DEF Same
<1>3. Fits(s, verb, Reply(t, <<Status(code, arg)>>, "Continue"))
  <2>1. \A f : (f # "Close" => Tells(s, verb, Status(code, arg), t, f))
                  => Fits(s, verb, Reply(t, <<Status(code, arg)>>, f))
    BY <1>2, OneLineFits
  <2> QED BY <1>1, <2>1
<1> QED BY <1>3 DEF Answer

\* A State that goes on as another did, its fields all there.
GoesOn(s, t) == Same(s, t) /\ DOMAIN t = StateFields

LEMMA FieldsAside ==
    ASSUME NEW s, NEW t, GoesOn(s, t), NEW v
    PROVE  /\ GoesOn(s, [t EXCEPT !.reader_mode = v])
           /\ GoesOn(s, [t EXCEPT !.current_article = v])
           /\ GoesOn(s, [t EXCEPT !.commands_served = v])
           /\ GoesOn(s, [t EXCEPT !.pending_user = v])
BY DEF GoesOn, Same, StateFields

\* A block that says nothing new of the session.
LEMMA ListingFits ==
    ASSUME NEW s, NEW t, GoesOn(s, t), NEW verb, NEW code, Announces(verb, code),
           ~LogsIn(verb, code), ~Selects(verb, code)
    PROVE  /\ \A arg, lines : IsContent(lines) => Fits(s, verb, WithBlock(t, code, arg, lines))
           /\ \A texts : IsList(texts) => /\ Fits(s, verb, Listing(t, code, texts))
                                          /\ Fits(s, verb, UnderGuard(Listing(t, code, texts)))
PROOF
<1>1. After(verb, code) = "command" /\ code # 382
  BY DEF After, Announces
<1>2. \A arg : Tells(s, verb, Status(code, arg), t, "Continue")
  BY <1>1, PlainTells DEF GoesOn
<1>3. t.close_requested = FALSE /\ DOMAIN t = StateFields
  BY DEF GoesOn, Same
<1>4. ASSUME NEW arg, NEW lines, IsContent(lines)
      PROVE  /\ Fits(s, verb, WithBlock(t, code, arg, lines))
             /\ Fits(s, verb, UnderGuard(WithBlock(t, code, arg, lines)))
  BY <1>2, <1>3, <1>4, BlockFits
<1>5. ASSUME NEW texts, IsList(texts)
      PROVE  /\ Fits(s, verb, Listing(t, code, texts))
             /\ Fits(s, verb, UnderGuard(Listing(t, code, texts)))
  <2>1. IsContent(DataLines(texts))
    BY <1>5, Contents
  <2> QED BY <1>4, <2>1 DEF Listing
<1> QED BY <1>4, <1>5

\* The commands answered to anyone.
LEMMA AlwaysFits ==
    ASSUME NEW config, NEW s, NEW t, GoesOn(s, t), s.authenticated \in BOOLEAN,
           NEW cmd, cmd.verb \in Always
    PROVE  Fits(s, cmd.verb, AlwaysReply(config, t, cmd))
PROOF
<1> DEFINE verb == cmd.verb
<1>1. verb \notin {"XOVER", "XHDR"} /\ Same(s, t) /\ t.close_requested = FALSE
  BY DEF Always, GoesOn, Same
<1>2. \A code \in Refusals : Fits(s, verb, Refusal(t, code))
  BY <1>1, RefusalFits
<1> HIDE DEF verb
<1>3. ASSUME verb = "CAPABILITIES" PROVE Fits(s, verb, CapabilitiesReply(config, t))
  <2> DEFINE labels == Advertised(config, t)
             texts == [i \in DOMAIN labels |-> Label(labels[i])]
  <2>1. IsList(texts)
    <3> DEFINE words == {"VERSION", "READER", "OVER", "HDR", "IHAVE", "MODE-READER", "LIST", "POST",
                         "AUTHINFO", "IMPLEMENTATION", "STARTTLS"}
    <3>1. ReaderLabels(config, t) \in Seq(words)
      <4>1. ReaderLabels(config, t) \in {<<"READER", "OVER", "HDR">>, <<"READER">>,
                                         <<"READER", "OVER">>, <<"IHAVE", "MODE-READER">>}
        BY DEF ReaderLabels
      <4>2. /\ <<"READER", "OVER", "HDR">> \in Seq(words) /\ <<"READER">> \in Seq(words)
            /\ <<"READER", "OVER">> \in Seq(words) /\ <<"IHAVE", "MODE-READER">> \in Seq(words)
        OBVIOUS
      <4> QED BY <4>1, <4>2
    <3>2. /\ <<"VERSION">> \in Seq(words) /\ <<"LIST">> \in Seq(words) /\ <<"POST">> \in Seq(words)
          /\ <<"AUTHINFO">> \in Seq(words) /\ <<"IMPLEMENTATION">> \in Seq(words) /\ <<>> \in Seq(words)
          /\ <<"STARTTLS">> \in Seq(words)
      OBVIOUS
    <3> HIDE DEF words
    <3>3. \E a, b, c \in Seq(words) :
             labels = <<"VERSION">> \o ReaderLabels(config, t) \o <<"LIST">> \o a \o b \o c
                        \o <<"IMPLEMENTATION">>
      BY <3>2 DEF Advertised
    <3> HIDE DEF labels
    <3>4. labels \in Seq(words)
      BY <3>1, <3>2, <3>3
    <3> DEFINE S == {Label(w) : w \in words}
    <3>5. texts \in Seq(S)
      BY <3>4
    <3> QED BY <3>5 DEF IsList
  <2>2. CapabilitiesReply(config, t) \in {Refusal(t, 500), Listing(t, 101, texts)}
    BY DEF CapabilitiesReply
  <2> HIDE DEF texts
  <2>3. Fits(s, verb, Listing(t, 101, texts))
    <3>1. Announces(verb, 101) /\ ~LogsIn(verb, 101) /\ ~Selects(verb, 101)
      BY <1>3 DEF Announces, LogsIn, Selects
    <3> QED BY <2>1, <3>1, ListingFits
  <2> QED BY <1>2, <2>2, <2>3 DEF Refusals
<1>4. ASSUME verb = "MODE" PROVE Fits(s, verb, Mode(config, t, cmd.arg))
  <2> DEFINE u == [t EXCEPT !.reader_mode = TRUE]
  <2>1. Same(s, u)
    BY FieldsAside DEF GoesOn
  <2>2. Mode(config, t, cmd.arg)
           \in {Refusal(t, 501), Refusal(t, 500), Answer(u, 201, NoArg), Answer(u, 200, NoArg)}
    BY DEF Mode
  <2> HIDE DEF u
  <2>3. \A code \in {200, 201} : Fits(s, verb, Answer(u, code, NoArg))
    <3>1. \A code \in {200, 201} : /\ ~LogsIn(verb, code) /\ ~Selects(verb, code)
                                   /\ After(verb, code) = "command" /\ OfOneLine(verb, code)
      BY <1>4 DEF LogsIn, Selects, After, Announces, OfOneLine, Strays
    <3> QED BY <2>1, <3>1, AnswerFits
  <2> QED BY <1>2, <2>2, <2>3 DEF Refusals
<1>5. ASSUME verb = "AUTHINFO" PROVE Fits(s, verb, AuthInfo(config, t, cmd.arg))
  <2> DEFINE u == [t EXCEPT !.pending_user = cmd.arg.value]
             v == [t EXCEPT !.pending_user = "nobody"]
             w == [t EXCEPT !.authenticated = TRUE]
  <2>1. Same(s, u) /\ Same(s, v)
    BY FieldsAside DEF GoesOn
  <2>2. /\ w.close_requested = FALSE /\ w.authenticated = TRUE
        /\ w.current_group = s.current_group
    BY DEF GoesOn, Same, StateFields
  <2>3. AuthInfo(config, t, cmd.arg)
           \in {Refusal(t, 502), Refusal(t, 501), Refusal(t, 482), Refusal(v, 481), Answer(u, 381, NoArg),
                Answer(w, 281, NoArg)}
    BY DEF AuthInfo
  <2> HIDE DEF u, v, w
  <2>4. Fits(s, verb, Refusal(v, 481))
    BY <1>1, <2>1, RefusalFits DEF Refusals
  <2>5. Fits(s, verb, Answer(u, 381, NoArg))
    <3>1. ~LogsIn(verb, 381) /\ ~Selects(verb, 381) /\ After(verb, 381) = "command" /\ OfOneLine(verb, 381)
      BY <1>5 DEF LogsIn, Selects, After, Announces, OfOneLine, Strays
    <3> QED BY <2>1, <3>1, AnswerFits
  <2>6. Fits(s, verb, Answer(w, 281, NoArg))
    <3> DEFINE n == 281
    <3>1. /\ LogsIn(verb, n) = TRUE /\ Selects(verb, n) = FALSE /\ After(verb, n) = "command"
          /\ OfOneLine(verb, n) /\ n # 382 /\ n \notin Missing
      BY <1>5 DEF LogsIn, Selects, After, Announces, OfOneLine, Strays, Missing
    <3>2. Status(n, NoArg).code = n /\ NextOf("Continue") = "command"
      BY DEF Status, NextOf
    <3> HIDE DEF n
    <3>3. Tells(s, verb, Status(n, NoArg), w, "Continue")
      <4> DEFINE x == Status(n, NoArg)
      <4> HIDE DEF x
      <4>1. x.code = n
        BY <3>2 DEF x
      <4>2. Tells(s, verb, x, w, "Continue")
        BY <2>2, <3>1, <3>2, <4>1 DEF Tells
      <4> QED BY <4>2 DEF x
    <3>4. Fits(s, verb, Reply(w, <<Status(n, NoArg)>>, "Continue"))
      BY <2>2, <3>1, <3>3, LineFits
    <3> QED BY <3>4 DEF Answer, n
  <2> QED BY <1>2, <2>3, <2>4, <2>5, <2>6 DEF Refusals
<1>6. ASSUME verb = "STARTTLS" PROVE Fits(s, verb, StartTlsReply(config, t))
  <2> DEFINE n == 382
             r == Reply(t, <<Status(n, NoArg)>>, "UpgradeToTls")
  <2>1. \/ StartTlsReply(config, t) \in {Refusal(t, 500), Refusal(t, 502)}
        \/ StartTlsReply(config, t) = r /\ ~t.authenticated
    BY DEF StartTlsReply
  <2>2. ASSUME ~t.authenticated PROVE Fits(s, verb, r)
    <3>1. s.authenticated = FALSE
      BY <1>1, <2>2 DEF Same
    <3>2. /\ ~LogsIn(verb, n) /\ ~Selects(verb, n) /\ After(verb, n) = "tls" /\ OfOneLine(verb, n)
          /\ n \notin Missing
      BY <1>6 DEF LogsIn, Selects, After, Announces, OfOneLine, Strays, Missing
    <3> HIDE DEF n
    <3>3. Status(n, NoArg).code = n /\ NextOf("UpgradeToTls") = "tls"
      BY DEF Status, NextOf
    <3>4. Tells(s, verb, Status(n, NoArg), t, "UpgradeToTls")
      BY <1>1, <3>1, <3>2, <3>3 DEF Tells, Same
    <3> QED BY <1>1, <3>2, <3>4, LineFits
  <2> HIDE DEF r
  <2>3. \A c \in {500, 502} : Fits(s, verb, Refusal(t, c))
    BY <1>2 DEF Refusals
  <2> QED BY <2>1, <2>2, <2>3
<1>7. ASSUME verb = "HELP" PROVE Fits(s, verb, HelpReply(config, t))
  <2> DEFINE lines == IF "overlong_help_line" \in config.quirks THEN <<Monster>>
                      ELSE DataLines(<<Label("ARTICLE"), Label("LIST")>>)
  <2>1. IsList(<<Label("ARTICLE"), Label("LIST")>>)
    <3> DEFINE x == Label("ARTICLE")
               y == Label("LIST")
    <3> HIDE DEF x, y
    <3>1. <<x, y>> \in Seq({x, y})
      OBVIOUS
    <3>2. IsList(<<x, y>>)
      BY <3>1 DEF IsList
    <3> QED BY <3>2 DEF x, y
  <2>2. IsContent(lines)
    BY <2>1, Contents
  <2>3. Announces(verb, 100) /\ ~LogsIn(verb, 100) /\ ~Selects(verb, 100)
    BY <1>7 DEF Announces, LogsIn, Selects
  <2>4. HelpReply(config, t) = WithBlock(t, 100, NoArg, lines)
    BY DEF HelpReply
  <2> HIDE DEF lines
  <2> QED BY <2>2, <2>3, <2>4, ListingFits
<1>8. ASSUME verb = "DATE" PROVE Fits(s, verb, Answer(t, 111, NoArg))
  <2>1. ~LogsIn(verb, 111) /\ ~Selects(verb, 111) /\ After(verb, 111) = "command" /\ OfOneLine(verb, 111)
    BY <1>8 DEF LogsIn, Selects, After, Announces, OfOneLine, Strays
  <2> QED BY <1>1, <2>1, AnswerFits
<1>9. ASSUME verb = "QUIT" PROVE Fits(s, verb, Reply(t, <<Status(205, NoArg)>>, "Close"))
  <2>1. OfOneLine(verb, 205) /\ verb \notin {"XOVER", "XHDR"}
    BY <1>9 DEF Announces, OfOneLine, Strays
  <2> DEFINE n == 205
  <2>2. n \notin Missing /\ OfOneLine(verb, n)
    BY <2>1 DEF Missing
  <2> HIDE DEF n
  <2>3. Fits(s, verb, Reply(t, <<Status(n, NoArg)>>, "Close"))
    BY <1>1, <2>2, LineFits
  <2> QED BY <2>3 DEF n
<1> DEFINE r == AlwaysReply(config, t, cmd)
<1>10. Fits(s, verb, r)
  <2>1. verb = "" => r = Refusal(t, 500)
    BY DEF AlwaysReply, verb
  <2>2. verb = "QUIT" => r = Reply(t, <<Status(205, NoArg)>>, "Close")
    BY DEF AlwaysReply, verb
  <2>3. verb = "CAPABILITIES" => r = CapabilitiesReply(config, t)
    BY DEF AlwaysReply, verb
  <2>4. verb = "MODE" => r = Mode(config, t, cmd.arg)
    BY DEF AlwaysReply, verb
  <2>5. verb = "AUTHINFO" => r = AuthInfo(config, t, cmd.arg)
    BY DEF AlwaysReply, verb
  <2>6. verb = "DATE" => r = Answer(t, 111, NoArg)
    BY DEF AlwaysReply, verb
  <2>7. verb = "HELP" => r = HelpReply(config, t)
    BY DEF AlwaysReply, verb
  <2>8. verb = "STARTTLS" => r = StartTlsReply(config, t)
    BY DEF AlwaysReply, verb
  <2>9. verb \in Always
    BY DEF verb
  <2>10. Fits(s, verb, Refusal(t, 500))
    BY <1>2 DEF Refusals
  <2> HIDE DEF r
  <2>11. ASSUME verb \in {"", "QUIT", "DATE"} PROVE Fits(s, verb, r)
    BY <1>8, <1>9, <2>1, <2>2, <2>6, <2>10, <2>11
  <2>12. ASSUME verb \in {"CAPABILITIES", "HELP", "STARTTLS"} PROVE Fits(s, verb, r)
    BY <1>3, <1>6, <1>7, <2>3, <2>7, <2>8, <2>12
  <2>13. ASSUME verb \in {"MODE", "AUTHINFO"} PROVE Fits(s, verb, r)
    BY <1>4, <1>5, <2>4, <2>5, <2>13
  <2> QED BY <2>9, <2>11, <2>12, <2>13 DEF Always
<1> QED BY <1>10 DEF r, verb
\* A refusal of a command that no method takes for missing.
LEMMA RefusalsFit ==
    ASSUME NEW s, NEW t, GoesOn(s, t), NEW verb
    PROVE  /\ \A code \in Refusals \ Missing : /\ Fits(s, verb, Refusal(t, code))
                                               /\ Fits(s, verb, UnderGuard(Refusal(t, code)))
           /\ verb \notin {"XOVER", "XHDR"} => \A code \in Refusals : Fits(s, verb, Refusal(t, code))
BY RefusalFits DEF GoesOn, Missing

\* The numbers of a group are a block.
LEMMA NumbersAreContent ==
    ASSUME NEW co, IsCorpus(co), NEW i \in DOMAIN co
    PROVE  /\ IsContent(NumberLines(InOrder(Numbers(co[i]))))
           /\ \A bounds : IsContent(NumberLines(Within(co[i], bounds)))
PROOF
<1>1. IsFiniteSet(Numbers(co[i]))
  BY DEF IsCorpus, IsGroup
<1>2. ASSUME NEW bounds PROVE IsContent(NumberLines(Within(co[i], bounds)))
  <2> DEFINE T == {n \in Numbers(co[i]) : bounds.low <= n /\ n <= bounds.high}
  <2>1. T \subseteq Numbers(co[i])
    OBVIOUS
  <2>2. Within(co[i], bounds) = InOrder(T)
    BY DEF Within
  <2> HIDE DEF T
  <2>3. IsFiniteSet(T)
    BY <1>1, <2>1, FS_Subset
  <2> QED BY <2>2, <2>3, Contents
<1> QED BY <1>1, <1>2, Contents

\* GROUP and LISTGROUP: the group selected is the one the 211 names.
LEMMA GroupFits ==
    ASSUME NEW co, IsCorpus(co), NEW s, NEW t, GoesOn(s, t), NEW arg
    PROVE  Fits(s, "GROUP", GroupReply(co, t, arg))
PROOF
<1> DEFINE verb == "GROUP"
           n == 211
           at == Find(co, arg.group)
           u == [t EXCEPT !.current_group = arg.group, !.current_article = Low(co[at])]
           x == Status(n, Summary(co[at]))
<1>1. verb \notin {"XOVER", "XHDR"}
  OBVIOUS
<1>2. /\ ~LogsIn(verb, n) /\ Selects(verb, n) /\ After(verb, n) = "command" /\ OfOneLine(verb, n)
      /\ n \notin Missing /\ n # 382
  BY DEF LogsIn, Selects, After, Announces, OfOneLine, Strays, Missing
<1>3. \A code \in Refusals : Fits(s, verb, Refusal(t, code))
  BY <1>1, RefusalsFit
<1>4. /\ u.close_requested = FALSE /\ u.authenticated = s.authenticated
      /\ u.current_group = arg.group
  BY DEF GoesOn, Same, StateFields
<1>5. \/ GroupReply(co, t, arg) \in {Refusal(t, 501), Refusal(t, 411)}
      \/ Carries(co, arg.group) /\ GroupReply(co, t, arg) = Answer(u, n, Summary(co[at]))
  BY DEF GroupReply
<1>6. x.code = n /\ x.arg.name = co[at].name /\ NextOf("Continue") = "command"
  BY DEF Status, Summary, NextOf
<1> HIDE DEF verb, n, u, x
<1>7. ASSUME Carries(co, arg.group) PROVE Fits(s, verb, Answer(u, n, Summary(co[at])))
  <2>1. co[at].name = arg.group
    BY <1>7, FindFinds
  <2>2. Tells(s, verb, x, u, "Continue")
    BY <1>2, <1>4, <1>6, <2>1 DEF Tells
  <2> HIDE DEF at
  <2> DEFINE a == Summary(co[at])
  <2>3. x = Status(n, a)
    BY DEF x
  <2> HIDE DEF a
  <2>4. \A flow : Tells(s, verb, Status(n, a), u, flow) => Fits(s, verb, Reply(u, <<Status(n, a)>>, flow))
    BY <1>2, <1>4, LineFits
  <2>5. Fits(s, verb, Reply(u, <<Status(n, a)>>, "Continue"))
    BY <2>2, <2>3, <2>4
  <2> QED BY <2>5 DEF Answer, a
<1>8. Fits(s, verb, GroupReply(co, t, arg))
  BY <1>3, <1>5, <1>7 DEF Refusals
<1> QED BY <1>8 DEF verb

LEMMA ListGroupFits ==
    ASSUME NEW co, IsCorpus(co), NEW s, NEW t, GoesOn(s, t), NEW arg
    PROVE  Fits(s, "LISTGROUP", ListGroupReply(co, t, arg))
PROOF
<1> DEFINE verb == "LISTGROUP"
           n == 211
           name == IF arg = NoArg THEN t.current_group ELSE arg.group
           at == Find(co, name)
           u == [t EXCEPT !.current_group = name]
           x == Status(n, Summary(co[at]))
           lines == NumberLines(InOrder(Numbers(co[at])))
<1>1. verb \notin {"XOVER", "XHDR"}
  OBVIOUS
<1>2. /\ ~LogsIn(verb, n) /\ Selects(verb, n) /\ After(verb, n) = "command" /\ Announces(verb, n)
      /\ n # 382
  BY DEF LogsIn, Selects, After, Announces
<1>3. \A code \in Refusals : Fits(s, verb, Refusal(t, code))
  BY <1>1, RefusalsFit
<1>5. \/ ListGroupReply(co, t, arg) \in {Refusal(t, 412), Refusal(t, 411)}
      \/ Carries(co, name) /\ ListGroupReply(co, t, arg) = WithBlock(u, n, Summary(co[at]), lines)
  BY DEF ListGroupReply
<1> HIDE DEF name
<1>4. /\ u.close_requested = FALSE /\ u.authenticated = s.authenticated
      /\ u.current_group = name /\ DOMAIN u = StateFields
  BY DEF GoesOn, Same, StateFields
<1>6. x.code = n /\ x.arg.name = co[at].name /\ NextOf("Continue") = "command"
  BY DEF Status, Summary, NextOf
<1> HIDE DEF verb, n, u, x
<1>7. ASSUME Carries(co, name) PROVE Fits(s, verb, WithBlock(u, n, Summary(co[at]), lines))
  <2>1. at \in DOMAIN co /\ co[at].name = name
    BY <1>7, FindFinds
  <2>2. Tells(s, verb, x, u, "Continue")
    BY <1>2, <1>4, <1>6, <2>1 DEF Tells
  <2>3. IsContent(lines)
    BY <2>1, NumbersAreContent
  <2> HIDE DEF at, lines
  <2> QED BY <1>2, <1>4, <2>2, <2>3, BlockFits DEF x
<1>8. Fits(s, verb, ListGroupReply(co, t, arg))
  <2> HIDE DEF at, lines
  <2> QED BY <1>3, <1>5, <1>7 DEF Refusals
<1> QED BY <1>8 DEF verb

\* A list of the names of some groups.
LEMMA NamesAreLists ==
    ASSUME NEW co, IsCorpus(co), NEW S, S \subseteq DOMAIN co
    PROVE  IsList([i \in DOMAIN InOrder(S) |-> Named(co[InOrder(S)[i]].name)])
PROOF
<1>1. IsFiniteSet(S)
  <2>1. IsFiniteSet(1..Len(co)) /\ DOMAIN co = 1..Len(co)
    BY FS_Interval DEF IsCorpus
  <2> QED BY <2>1, FS_Subset
<1> DEFINE l == InOrder(S)
           f == [i \in DOMAIN l |-> Named(co[l[i]].name)]
<1>2. Cardinality(S) \in Nat /\ DOMAIN l = 1..Cardinality(S)
  BY <1>1, InOrderLists
<1> HIDE DEF l
<1> DEFINE T == {f[i] : i \in DOMAIN l}
<1>3. f \in Seq(T)
  BY <1>2
<1>4. IsList(f)
  BY <1>3 DEF IsList
<1> QED BY <1>4 DEF l

\* LIST and NEWGROUPS.
LEMMA ListFits ==
    ASSUME NEW config, NEW co, IsCorpus(co), NEW s, NEW t, GoesOn(s, t), NEW arg
    PROVE  Fits(s, "LIST", ListReply(config, co, t, arg))
PROOF
<1> DEFINE verb == "LIST"
           n == 215
           patterned == arg.keyword \in Narrowed /\ arg.pattern # NoPattern
           S == {i \in DOMAIN co : patterned => co[i].name \in arg.pattern}
           names == [i \in DOMAIN InOrder(S) |-> Named(co[InOrder(S)[i]].name)]
           one == <<Label(arg.keyword)>>
<1>1. verb \notin {"XOVER", "XHDR"}
  OBVIOUS
<1>2. ~LogsIn(verb, n) /\ ~Selects(verb, n) /\ Announces(verb, n)
  BY DEF LogsIn, Selects, Announces
<1>3. \A code \in Refusals : Fits(s, verb, Refusal(t, code))
  BY <1>1, RefusalsFit
<1>4. ListReply(config, co, t, arg)
         \in {Refusal(t, 501), Refusal(t, 503), Listing(t, n, names), Listing(t, n, one)}
  BY DEF ListReply
<1>5. S \subseteq DOMAIN co
  OBVIOUS
<1> HIDE DEF verb, n, S
<1>6. IsList(names)
  BY <1>5, NamesAreLists
<1>7. IsList(one)
  <2> DEFINE x == Label(arg.keyword)
  <2> HIDE DEF x
  <2>1. <<x>> \in Seq({x})
    OBVIOUS
  <2>2. IsList(<<x>>)
    BY <2>1 DEF IsList
  <2> QED BY <2>2 DEF x
<1> HIDE DEF names, one
<1>8. Fits(s, verb, ListReply(config, co, t, arg))
  <2>1. Fits(s, verb, Listing(t, n, names)) /\ Fits(s, verb, Listing(t, n, one))
    BY <1>2, <1>6, <1>7, ListingFits
  <2> QED BY <1>3, <1>4, <2>1 DEF Refusals
<1> QED BY <1>8 DEF verb

LEMMA NewGroupsFits ==
    ASSUME NEW co, IsCorpus(co), NEW s, NEW t, GoesOn(s, t), NEW arg
    PROVE  Fits(s, "NEWGROUPS", NewGroupsReply(co, t, arg))
PROOF
<1> DEFINE verb == "NEWGROUPS"
           n == 231
           S == {i \in DOMAIN co : co[i].created >= arg.since}
           names == [i \in DOMAIN InOrder(S) |-> Named(co[InOrder(S)[i]].name)]
<1>1. verb \notin {"XOVER", "XHDR"}
  OBVIOUS
<1>2. ~LogsIn(verb, n) /\ ~Selects(verb, n) /\ Announces(verb, n)
  BY DEF LogsIn, Selects, Announces
<1>3. \A code \in Refusals : Fits(s, verb, Refusal(t, code))
  BY <1>1, RefusalsFit
<1>4. NewGroupsReply(co, t, arg) \in {Refusal(t, 501), Listing(t, n, names)}
  BY DEF NewGroupsReply
<1>5. S \subseteq DOMAIN co
  OBVIOUS
<1> HIDE DEF verb, n, S
<1>6. IsList(names)
  BY <1>5, NamesAreLists
<1> HIDE DEF names
<1>8. Fits(s, verb, NewGroupsReply(co, t, arg))
  <2>1. Fits(s, verb, Listing(t, n, names))
    BY <1>2, <1>6, ListingFits
  <2> QED BY <1>3, <1>4, <2>1 DEF Refusals
<1> QED BY <1>8 DEF verb
\* ARTICLE, HEAD, BODY and STAT.
LEMMA FetchFits ==
    ASSUME NEW co, NEW s, NEW t, GoesOn(s, t), NEW verb \in DOMAIN FetchCode, NEW target
    PROVE  Fits(s, verb, FetchReply(co, t, verb, target))
PROOF
<1>1. verb \in {"ARTICLE", "HEAD", "BODY", "STAT"}
  BY DEF FetchCode
<1>2. \A code \in Refusals \ Missing : /\ Fits(s, verb, Refusal(t, code))
                                       /\ Fits(s, verb, UnderGuard(Refusal(t, code)))
  BY RefusalsFit
<1>3. ASSUME NEW number, NEW id PROVE Fits(s, verb, Fetched(t, verb, number, id))
  <2> DEFINE v == [t EXCEPT !.current_article = number]
             u == IF number = NoArticle THEN t ELSE v
             found == [number |-> number, id |-> id]
             n == FetchCode[verb]
             lines == <<Data(Id(id))>>
  <2>1. GoesOn(s, v) /\ u \in {t, v}
    BY FieldsAside
  <2>2. /\ verb = "STAT" => Fetched(t, verb, number, id) = Answer(u, n, found)
        /\ verb # "STAT" => Fetched(t, verb, number, id) = WithBlock(u, n, found, lines)
    BY DEF Fetched
  <2>3. n = IF verb = "ARTICLE" THEN 220 ELSE IF verb = "HEAD" THEN 221
            ELSE IF verb = "BODY" THEN 222 ELSE 223
    BY <1>1 DEF FetchCode
  <2>4. IsContent(lines)
    BY Contents
  <2> HIDE DEF u, n, v, lines, found
  <2>5. /\ ~LogsIn(verb, n) /\ ~Selects(verb, n) /\ After(verb, n) = "command"
        /\ n # 382 /\ n \notin {500, 503}
        /\ verb = "STAT" => OfOneLine(verb, n)
        /\ verb # "STAT" => Announces(verb, n)
    BY <1>1, <2>3 DEF LogsIn, Selects, After, Announces, OfOneLine, Strays
  <2>6. GoesOn(s, u) /\ Same(s, u)
    BY <2>1 DEF GoesOn
  <2>7. CASE verb = "STAT"
    BY <2>2, <2>5, <2>6, <2>7, AnswerFits
  <2>8. CASE verb # "STAT"
    BY <2>2, <2>4, <2>5, <2>6, <2>8, ListingFits
  <2> QED BY <2>7, <2>8
<1> DEFINE r == FetchReply(co, t, verb, target)
<1>4. \/ r \in {Refusal(t, 501), Refusal(t, 420), Refusal(t, 430), UnderGuard(Refusal(t, 412)),
                Refusal(t, 423)}
      \/ \E number, id : r = Fetched(t, verb, number, id)
  BY DEF FetchReply
<1>5. {501, 420, 430, 412, 423} \subseteq Refusals \ Missing
  BY DEF Refusals, Missing
<1> HIDE DEF r
<1>6. Fits(s, verb, r)
  BY <1>2, <1>3, <1>4, <1>5
<1> QED BY <1>6 DEF r

\* OVER and XOVER: the latter is never answered with the codes of a missing verb.
LEMMA OverFits ==
    ASSUME NEW config, NEW co, IsCorpus(co), NEW s, NEW t, GoesOn(s, t),
           NEW verb \in {"OVER", "XOVER"}, NEW target
    PROVE  Fits(s, verb, OverReply(config, co, t, verb, target))
PROOF
<1> DEFINE group == SelectedGroup(co, t)
           high == IF Numbers(group) = {} THEN target.low ELSE High(group)
           bounds == Bounds(t, target, high)
           lines == NumberLines(Within(group, bounds))
           one == <<Number(FindById(co, target.id)[2])>>
           r == OverReply(config, co, t, verb, target)
           n == 224
<1>1. \A code \in Refusals \ Missing : /\ Fits(s, verb, Refusal(t, code))
                                       /\ Fits(s, verb, UnderGuard(Refusal(t, code)))
  BY RefusalsFit
<1>2. verb = "OVER" => Fits(s, verb, Refusal(t, 500))
  <2>1. verb = "OVER" => verb \notin {"XOVER", "XHDR"}
    OBVIOUS
  <2> QED BY <2>1, RefusalsFit DEF Refusals
<1>3. \/ verb = "OVER" /\ r = Refusal(t, 500)
      \/ r \in {UnderGuard(Refusal(t, 430)), Refusal(t, 412), Refusal(t, 420), Refusal(t, 501),
                Refusal(t, 423)}
      \/ r = UnderGuard(Listing(t, n, one))
      \/ Selected(co, t) /\ r = WithBlock(t, n, NoArg, lines)
  BY DEF OverReply
<1>4. {501, 420, 430, 412, 423} \subseteq Refusals \ Missing
  BY DEF Refusals, Missing
<1>5. ~LogsIn(verb, n) /\ ~Selects(verb, n) /\ Announces(verb, n)
  BY DEF LogsIn, Selects, Announces
<1> HIDE DEF r, n, high
<1>6. IsList(one)
  <2> DEFINE x == Number(FindById(co, target.id)[2])
  <2> HIDE DEF x
  <2>1. <<x>> \in Seq({x})
    OBVIOUS
  <2>2. IsList(<<x>>)
    BY <2>1 DEF IsList
  <2> QED BY <2>2 DEF x
<1> HIDE DEF one
<1>7. Fits(s, verb, UnderGuard(Listing(t, n, one)))
  BY <1>5, <1>6, ListingFits
<1>8. ASSUME Selected(co, t) PROVE Fits(s, verb, WithBlock(t, n, NoArg, lines))
  <2>1. Find(co, t.current_group) \in DOMAIN co
    BY <1>8, FindFinds DEF Selected
  <2> HIDE DEF bounds
  <2>2. IsContent(lines)
    BY <2>1, NumbersAreContent DEF SelectedGroup
  <2> HIDE DEF lines
  <2> QED BY <1>5, <2>2, ListingFits
<1> HIDE DEF lines
<1>9. Fits(s, verb, r)
  BY <1>1, <1>2, <1>3, <1>4, <1>7, <1>8
<1> QED BY <1>9 DEF r

\* HDR and XHDR likewise.
LEMMA HdrFits ==
    ASSUME NEW config, NEW co, IsCorpus(co), NEW s, NEW t, GoesOn(s, t),
           NEW verb \in {"HDR", "XHDR"}, NEW target
    PROVE  Fits(s, verb, HdrReply(config, co, t, verb, target))
PROOF
<1> DEFINE bounds == Bounds(t, target, Open)
           lines == NumberLines(Within(SelectedGroup(co, t), bounds))
           one == <<Number(NoArticle)>>
           r == HdrReply(config, co, t, verb, target)
           n == HeadersFollowCode(verb)
<1>1. \A code \in Refusals \ Missing : Fits(s, verb, Refusal(t, code))
  BY RefusalsFit
<1>2. verb = "HDR" => Fits(s, verb, Refusal(t, 500))
  <2>1. verb = "HDR" => verb \notin {"XOVER", "XHDR"}
    OBVIOUS
  <2> QED BY <2>1, RefusalsFit DEF Refusals
<1>3. \/ verb = "HDR" /\ r = Refusal(t, 500)
      \/ r \in {Refusal(t, 430), Refusal(t, 412), Refusal(t, 420), Refusal(t, 501)}
      \/ r = Listing(t, n, one)
      \/ Selected(co, t) /\ r = WithBlock(t, n, NoArg, lines)
  BY DEF HdrReply
<1>4. {501, 420, 430, 412} \subseteq Refusals \ Missing
  BY DEF Refusals, Missing
<1>5. ~LogsIn(verb, n) /\ ~Selects(verb, n) /\ Announces(verb, n)
  BY DEF LogsIn, Selects, Announces, HeadersFollowCode
<1> HIDE DEF r, n
<1>6. IsList(one)
  <2> DEFINE x == Number(NoArticle)
  <2> HIDE DEF x
  <2>1. <<x>> \in Seq({x})
    OBVIOUS
  <2>2. IsList(<<x>>)
    BY <2>1 DEF IsList
  <2> QED BY <2>2 DEF x
<1> HIDE DEF one
<1>7. Fits(s, verb, Listing(t, n, one))
  BY <1>5, <1>6, ListingFits
<1>8. ASSUME Selected(co, t) PROVE Fits(s, verb, WithBlock(t, n, NoArg, lines))
  <2>1. Find(co, t.current_group) \in DOMAIN co
    BY <1>8, FindFinds DEF Selected
  <2> HIDE DEF bounds
  <2>2. IsContent(lines)
    BY <2>1, NumbersAreContent DEF SelectedGroup
  <2> HIDE DEF lines
  <2> QED BY <1>5, <2>2, ListingFits
<1> HIDE DEF lines
<1>9. Fits(s, verb, r)
  BY <1>1, <1>2, <1>3, <1>4, <1>7, <1>8
<1> QED BY <1>9 DEF r

\* NEXT and LAST.
LEMMA StepFits ==
    ASSUME NEW co, NEW s, NEW t, GoesOn(s, t), NEW verb \in {"NEXT", "LAST"}
    PROVE  Fits(s, verb, StepReply(co, t, verb))
PROOF
<1> DEFINE group == SelectedGroup(co, t)
           beyond == {k \in Numbers(group) : IF verb = "NEXT" THEN k > t.current_article
                                             ELSE k < t.current_article}
           to == IF verb = "NEXT" THEN Min(beyond) ELSE Max(beyond)
           u == [t EXCEPT !.current_article = to]
           found == [number |-> to, id |-> group.articles[to]]
           n == 223
           none == IF verb = "NEXT" THEN 421 ELSE 422
           r == StepReply(co, t, verb)
<1>1. \A code \in Refusals \ Missing : Fits(s, verb, Refusal(t, code))
  BY RefusalsFit
<1>2. r \in {Refusal(t, 412), Refusal(t, 420), Refusal(t, none), Answer(u, n, found)}
  BY DEF StepReply
<1>3. 412 \in Refusals \ Missing /\ 420 \in Refusals \ Missing /\ none \in Refusals \ Missing
  BY DEF Refusals, Missing
<1> HIDE DEF to
<1>4. Same(s, u)
  BY FieldsAside DEF GoesOn
<1>5. /\ ~LogsIn(verb, n) /\ ~Selects(verb, n) /\ After(verb, n) = "command"
      /\ n # 382 /\ n \notin {500, 503} /\ OfOneLine(verb, n)
  BY DEF LogsIn, Selects, After, Announces, OfOneLine, Strays
<1> HIDE DEF u, n, r, found, none
<1>6. Fits(s, verb, Answer(u, n, found))
  BY <1>4, <1>5, AnswerFits
<1>7. Fits(s, verb, r)
  BY <1>1, <1>2, <1>3, <1>6
<1> QED BY <1>7 DEF r

\* POST.
LEMMA PostFits ==
    ASSUME NEW config, NEW s, NEW t, GoesOn(s, t)
    PROVE  Fits(s, "POST", PostReply(config, t))
PROOF
<1> DEFINE verb == "POST"
           n == 340
           r == PostReply(config, t)
<1>1. r \in {Refusal(t, 440), Reply(t, <<Status(n, NoArg)>>, "ReadArticle")}
  BY DEF PostReply
<1>2. /\ LogsIn(verb, n) = FALSE /\ Selects(verb, n) = FALSE /\ After(verb, n) = "article"
      /\ OfOneLine(verb, n) /\ n # 382 /\ n \notin Missing
  BY DEF LogsIn, Selects, After, Announces, OfOneLine, Strays, Missing
<1>3. Same(s, t) /\ t.close_requested = FALSE
  BY DEF GoesOn, Same
<1> HIDE DEF verb, n, r
<1>4. Fits(s, verb, Refusal(t, 440))
  BY RefusalsFit DEF Refusals, Missing
<1>5. Status(n, NoArg).code = n /\ NextOf("ReadArticle") = "article"
  BY DEF Status, NextOf
<1>6. Tells(s, verb, Status(n, NoArg), t, "ReadArticle")
  BY <1>2, <1>3, <1>5 DEF Tells, Same
<1>7. Fits(s, verb, Reply(t, <<Status(n, NoArg)>>, "ReadArticle"))
  BY <1>2, <1>3, <1>6, LineFits
<1>8. Fits(s, verb, r)
  BY <1>1, <1>4, <1>7
<1> QED BY <1>8 DEF r, verb
\* The commands a reader needs to be let in for.
LEMMA ReaderFits ==
    ASSUME NEW config, NEW co, IsCorpus(co), NEW s, NEW t, GoesOn(s, t), NEW cmd
    PROVE  Fits(s, cmd.verb, ReaderReply(config, co, t, cmd))
PROOF
<1> DEFINE verb == cmd.verb
           arg == cmd.arg
           r == ReaderReply(config, co, t, cmd)
<1>1. \/ verb = "GROUP" /\ r = GroupReply(co, t, arg)
      \/ verb = "LISTGROUP" /\ r = ListGroupReply(co, t, arg)
      \/ verb = "LIST" /\ r = ListReply(config, co, t, arg)
      \/ verb \in DOMAIN FetchCode /\ r = FetchReply(co, t, verb, arg)
      \/ verb \in {"OVER", "XOVER"} /\ r = OverReply(config, co, t, verb, arg)
      \/ verb \in {"HDR", "XHDR"} /\ r = HdrReply(config, co, t, verb, arg)
      \/ verb = "NEWGROUPS" /\ r = NewGroupsReply(co, t, arg)
      \/ verb = "POST" /\ r = PostReply(config, t)
      \/ verb \in {"NEXT", "LAST"} /\ r = StepReply(co, t, verb)
      \/ verb \notin {"OVER", "XOVER", "HDR", "XHDR"} /\ r = Refusal(t, 500)
  <2> DEFINE fetches == DOMAIN FetchCode
  <2> HIDE DEF fetches
  <2>1. r = CASE verb = "GROUP" -> GroupReply(co, t, arg)
              [] verb = "LISTGROUP" -> ListGroupReply(co, t, arg)
              [] verb = "LIST" -> ListReply(config, co, t, arg)
              [] verb \in fetches -> FetchReply(co, t, verb, arg)
              [] verb \in {"OVER", "XOVER"} -> OverReply(config, co, t, verb, arg)
              [] verb \in {"HDR", "XHDR"} -> HdrReply(config, co, t, verb, arg)
              [] verb = "NEWGROUPS" -> NewGroupsReply(co, t, arg)
              [] verb = "POST" -> PostReply(config, t)
              [] verb \in {"NEXT", "LAST"} -> StepReply(co, t, verb)
              [] OTHER -> Refusal(t, 500)
    BY DEF ReaderReply, fetches
  <2> HIDE DEF r, verb
  <2> QED BY <2>1 DEF fetches
<1> HIDE DEF r, verb, arg
<1>2. verb = "GROUP" => Fits(s, verb, GroupReply(co, t, arg))
  BY GroupFits
<1>3. verb = "LISTGROUP" => Fits(s, verb, ListGroupReply(co, t, arg))
  BY ListGroupFits
<1>4. verb = "LIST" => Fits(s, verb, ListReply(config, co, t, arg))
  BY ListFits
<1>5. verb \in DOMAIN FetchCode => Fits(s, verb, FetchReply(co, t, verb, arg))
  BY FetchFits
<1>6. verb \in {"OVER", "XOVER"} => Fits(s, verb, OverReply(config, co, t, verb, arg))
  BY OverFits
<1>7. verb \in {"HDR", "XHDR"} => Fits(s, verb, HdrReply(config, co, t, verb, arg))
  BY HdrFits
<1>8. verb = "NEWGROUPS" => Fits(s, verb, NewGroupsReply(co, t, arg))
  BY NewGroupsFits
<1>9. verb = "POST" => Fits(s, verb, PostReply(config, t))
  BY PostFits
<1>10. verb \in {"NEXT", "LAST"} => Fits(s, verb, StepReply(co, t, verb))
  BY StepFits
<1>11. verb \notin {"OVER", "XOVER", "HDR", "XHDR"} => Fits(s, verb, Refusal(t, 500))
  BY RefusalsFit DEF Refusals
<1>12. Fits(s, verb, r)
  BY <1>1, <1>2, <1>3, <1>4, <1>5, <1>6, <1>7, <1>8, <1>9, <1>10, <1>11
<1> QED BY <1>12 DEF r, verb

\* A session in command, as its State is.
Serving(s) == /\ s.close_requested = FALSE /\ s.authenticated \in BOOLEAN
              /\ DOMAIN s = StateFields

\* The whole command loop: whatever it is sent, it answers in step or ends.
LEMMA HandleFits ==
    ASSUME NEW config, NEW co, IsCorpus(co), NEW s, IsState(s), Serving(s), NEW cmd
    PROVE  /\ Fits(s, cmd.verb, Handle(config, co, s, cmd))
           /\ Ends(Handle(config, co, s, cmd)) <=> Handle(config, co, s, cmd).flow = "Close"
PROOF
<1> DEFINE t == [s EXCEPT !.commands_served = @ + 1]
           verb == cmd.verb
           d == Dispatch(config, co, s, cmd)
           over == Reply(t, <<>>, "Close")
<1>1. GoesOn(s, t)
  BY DEF GoesOn, Same, Serving, StateFields
<1>2. d \in {over, AlwaysReply(config, t, cmd), Refusal(t, 480), ReaderReply(config, co, t, cmd)}
      /\ (d = AlwaysReply(config, t, cmd) => verb \in Always \/ d \in {over, Refusal(t, 480), ReaderReply(config, co, t, cmd)})
  <2>1. \/ d = over
        \/ verb \in Always /\ d = AlwaysReply(config, t, cmd)
        \/ d = Refusal(t, 480)
        \/ d = ReaderReply(config, co, t, cmd)
    BY DEF Dispatch
  <2> HIDE DEF d, t, over
  <2> QED BY <2>1
<1> HIDE DEF t
<1>3. Fits(s, verb, over)
  <2>1. over.st = t /\ over.lines = <<>> /\ over.flow = "Close" /\ "flow" \in DOMAIN over
    BY DEF Reply
  <2> HIDE DEF over
  <2>2. over.st.close_requested \in BOOLEAN
    BY <1>1, <2>1 DEF GoesOn, Same
  <2> QED BY <2>1, <2>2 DEF Fits
<1>4. verb \in Always => Fits(s, verb, AlwaysReply(config, t, cmd))
  BY <1>1, AlwaysFits DEF Serving
<1>5. Fits(s, verb, Refusal(t, 480))
  BY <1>1, RefusalsFit DEF Refusals, Missing
<1>6. Fits(s, verb, ReaderReply(config, co, t, cmd))
  BY <1>1, ReaderFits
<1> HIDE DEF over, verb
<1>7. Fits(s, verb, d)
  BY <1>2, <1>3, <1>4, <1>5, <1>6
<1> DEFINE e == [d EXCEPT !.flow = "Close"]
<1>8. Handle(config, co, s, cmd) = IF d.st.close_requested THEN e ELSE d
  BY DEF Handle
<1> HIDE DEF d
<1>9. "flow" \in DOMAIN d /\ d.st.close_requested \in BOOLEAN
  BY <1>7 DEF Fits
<1>10. /\ e.st = d.st /\ e.lines = d.lines
       /\ e.flow = "Close" /\ "flow" \in DOMAIN e
  BY <1>9
<1> HIDE DEF e
<1>11. ASSUME d.st.close_requested = TRUE PROVE Fits(s, verb, e) /\ Ends(e) /\ e.flow = "Close"
  <2>1. Ends(d) = TRUE /\ Ends(e) = TRUE
    BY <1>10, <1>11 DEF Ends
  <2> QED BY <1>7, <1>9, <1>10, <2>1 DEF Fits
<1>12. ASSUME d.st.close_requested = FALSE PROVE Fits(s, verb, d) /\ (Ends(d) <=> d.flow = "Close")
  BY <1>7, <1>12 DEF Ends
<1> DEFINE h == Handle(config, co, s, cmd)
<1>13. \/ d.st.close_requested = TRUE /\ h = e
       \/ d.st.close_requested = FALSE /\ h = d
  BY <1>8, <1>9
<1> HIDE DEF h
<1>14. Fits(s, verb, h) /\ (Ends(h) <=> h.flow = "Close")
  BY <1>11, <1>12, <1>13
<1> QED BY <1>14 DEF h, verb
\* The greeting, and the answer to an article, are one line that fits.
LEMMA OpeningFits ==
    ASSUME NEW config, config.greeting \in Greetings, NEW s, Serving(s)
    PROVE  /\ Fits(s, "greeting", Greet(config, s))
           /\ Ends(Greet(config, s)) <=> Greet(config, s).flow = "Close"
PROOF
<1> DEFINE verb == "greeting"
           r == Greet(config, s)
           n == 400
           refused == Reply(s, <<Status(n, NoArg)>>, "Close")
<1>1. r \in {Answer(s, 200, NoArg), Answer(s, 201, NoArg), refused}
  BY DEF Greet, Greetings
<1>2. Same(s, s) /\ s.close_requested = FALSE
  BY DEF Same, Serving
<1>3. \A code \in {200, 201} :
         /\ ~LogsIn(verb, code) /\ ~Selects(verb, code) /\ After(verb, code) = "command" /\ code # 382
         /\ OfOneLine(verb, code) /\ code \notin {500, 503}
  BY DEF LogsIn, Selects, After, Announces, OfOneLine, Strays
<1>4. OfOneLine(verb, n) /\ n \notin Missing
  BY DEF Announces, OfOneLine, Strays, Missing
<1>5. r.st = s
  BY <1>1 DEF Answer, Reply
<1> HIDE DEF verb, n
<1>6. \A code \in {200, 201} : Fits(s, verb, Answer(s, code, NoArg))
  BY <1>2, <1>3, AnswerFits
<1>7. Fits(s, verb, refused)
  BY <1>2, <1>4, LineFits
<1> HIDE DEF r, refused
<1>8. Fits(s, verb, r)
  BY <1>1, <1>6, <1>7
<1>9. Ends(r) <=> r.flow = "Close"
  BY <1>2, <1>5 DEF Ends
<1> QED BY <1>8, <1>9 DEF r, verb

LEMMA ArticleFits ==
    ASSUME NEW config, NEW co, NEW s, Serving(s), NEW article
    PROVE  /\ Fits(s, "article", AcceptArticle(config, co, s, article))
           /\ Ends(AcceptArticle(config, co, s, article))
                 <=> AcceptArticle(config, co, s, article).flow = "Close"
PROOF
<1> DEFINE verb == "article"
           r == AcceptArticle(config, co, s, article)
           id == Id(IdOf(s, article))
           n == 240
<1>1. r \in {Answer(s, n, id), Refusal(s, 441)}
  BY DEF AcceptArticle
<1>2. Same(s, s) /\ GoesOn(s, s) /\ s.close_requested = FALSE
  BY DEF Same, Serving, GoesOn
<1>3. /\ ~LogsIn(verb, n) /\ ~Selects(verb, n) /\ After(verb, n) = "command" /\ n # 382
      /\ OfOneLine(verb, n) /\ n \notin {500, 503}
  BY DEF LogsIn, Selects, After, Announces, OfOneLine, Strays
<1>5. r.st = s
  BY <1>1 DEF Answer, Refusal, Reply
<1> HIDE DEF verb, n, id
<1>6. Fits(s, verb, Answer(s, n, id))
  BY <1>2, <1>3, AnswerFits
<1>7. Fits(s, verb, Refusal(s, 441))
  BY <1>2, RefusalsFit DEF Refusals, Missing
<1> HIDE DEF r
<1>8. Fits(s, verb, r)
  BY <1>1, <1>6, <1>7
<1>9. Ends(r) <=> r.flow = "Close"
  BY <1>2, <1>5 DEF Ends
<1> QED BY <1>8, <1>9 DEF r, verb


=============================================================================
