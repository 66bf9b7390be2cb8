---------------------------- MODULE ThreadProofs ----------------------------
(***************************************************************************)
(* Proofs about the containers a list of articles is threaded into, for    *)
(* every list and every chain of references: their links are a forest at   *)
(* every step of thread(), a record is in the thread of what it replies    *)
(* to, and the trees built in the end hold every record once, in order and *)
(* in bounded depth.                                                       *)
(***************************************************************************)
EXTENDS Threading, FiniteSetTheorems, SequenceTheorems, TLAPS

\* Only what FoldTheorems says of recursion is needed here: no fold, no sum.
NoStep(c, x, k) == x

NoWeight(c, i) == 0

NoClaim(c, k, x) == TRUE

Walking == INSTANCE FoldTheorems WITH step <- NoStep, weigh <- NoWeight, Holds <- NoClaim

-----------------------------------------------------------------------------
(* The containers of a thread                                              *)

Containers(a) == 1..Size(a)
Containing == [article : Nat, parent : Nat, children : Seq(Nat)]

\* An arena whose links, ids and records name containers it has.
ArenaTyped(a) ==
    /\ a = [containers |-> a.containers, by_id |-> a.by_id, by_article |-> a.by_article]
    /\ a.containers \in Seq(Containing)
    /\ \A c \in Containers(a) : ParentOf(a, c) \in {0} \cup Containers(a)
    /\ a.by_id = [id \in DOMAIN a.by_id |-> a.by_id[id]]
    /\ \A id \in DOMAIN a.by_id : a.by_id[id] \in Containers(a)
    /\ a.by_article \in Seq(Containers(a))

\* No containers are one another's ancestors.
Rooted(a) ==
    \A S \in SUBSET Containers(a) : S # {} => \E c \in S : ParentOf(a, c) \notin S

\* The children of a container are those that have it for a parent.
Agreeing(a) ==
    \A c \in Containers(a) :
        /\ ToSet(ChildrenOf(a, c)) = {d \in Containers(a) : ParentOf(a, d) = c}
        /\ IsInjective(ChildrenOf(a, c))

IsForest(a) == ArenaTyped(a) /\ Rooted(a) /\ Agreeing(a)

-----------------------------------------------------------------------------
(* is_ancestor() and the links                                             *)

\* Containers are numbered from one, and hold numbers.
LEMMA SizeIs ==
    ASSUME NEW a, ArenaTyped(a)
    PROVE  /\ Size(a) \in Nat
           /\ \A c \in Containers(a) :
                 /\ c \in Nat /\ c # 0 /\ c <= Size(a)
                 /\ a.containers[c] \in Containing
                 /\ ArticleOf(a, c) \in Nat /\ ParentOf(a, c) \in Nat
                 /\ ChildrenOf(a, c) \in Seq(Nat)
PROOF
<1>1. a.containers \in Seq(Containing)
  BY DEF ArenaTyped
<1>2. Size(a) \in Nat /\ DOMAIN a.containers = Containers(a)
  BY <1>1 DEF Size, Containers
<1>3. \A c \in Containers(a) : a.containers[c] \in Containing
  BY <1>1, <1>2
<1>4. \A c \in Containers(a) : c \in Nat /\ c # 0 /\ c <= Size(a)
  BY <1>2 DEF Containers
<1> QED
  BY <1>2, <1>3, <1>4 DEF Containing, ArticleOf, ParentOf, ChildrenOf

\* The walk up from c, one parent link at a time (Arena::is_ancestor).
LEMMA ClimbIs ==
    ASSUME NEW a, ArenaTyped(a), NEW c \in Containers(a)
    PROVE  /\ Climb(a, c)[0] = c
           /\ \A k \in 1..Size(a) + 1 :
                 Climb(a, c)[k] = IF Climb(a, c)[k - 1] = 0 THEN 0
                                  ELSE ParentOf(a, Climb(a, c)[k - 1])
PROOF
<1> DEFINE n == Size(a) + 1
           T == {0} \cup Containers(a)
           F == [k \in 1..n |-> [below \in T |-> IF below = 0 THEN 0 ELSE ParentOf(a, below)]]
           Above(below) == IF below = 0 THEN 0 ELSE ParentOf(a, below)
<1>1. n \in Nat /\ c \in T
  BY SizeIs
<1>2. \A k \in 1..n : \A x \in T : F[k][x] = Above(x) /\ Above(x) \in T
  BY DEF ArenaTyped
<1> HIDE DEF n, T, F
<1>3. PICK f \in [0..n -> T] : Walking!Iterates(f, F, c, n)
  BY <1>1, <1>2, Walking!IterationDefined
<1>4. ASSUME NEW k \in 0..n
      PROVE  f[k] = IF k = 0 THEN c ELSE Above(f[k - 1])
  <2>1. CASE k = 0
    BY <1>3, <2>1 DEF Walking!Iterates
  <2>2. CASE k # 0
    <3>1. k \in 1..n /\ k - 1 \in 0..n
      BY <1>1, <2>2
    <3>2. f[k] = F[k][f[k - 1]] /\ f[k - 1] \in T
      BY <1>3, <3>1 DEF Walking!Iterates
    <3> QED BY <1>2, <2>2, <3>1, <3>2
  <2> QED BY <2>1, <2>2
<1>5. f = [k \in 0..n |-> IF k = 0 THEN c ELSE Above(f[k - 1])]
  BY <1>3, <1>4
<1>6. Climb(a, c) = [k \in 0..n |-> IF k = 0 THEN c ELSE Above(Climb(a, c)[k - 1])]
  BY <1>5 DEF Climb, n
<1> DEFINE up == Climb(a, c)
<1> HIDE DEF up, Above
<1>7. \A k \in 0..n : up[k] = IF k = 0 THEN c ELSE Above(up[k - 1])
  <2>1. up = [k \in 0..n |-> IF k = 0 THEN c ELSE Above(up[k - 1])]
    BY <1>6 DEF up
  <2> QED BY <2>1
<1>8. /\ 0 \in 0..n
      /\ \A k \in 1..n : k \in 0..n /\ k # 0
  BY <1>1
<1> QED
  BY <1>7, <1>8 DEF up, Above, n

(***************************************************************************)
(* is_ancestor() is right to say no: if child were above parent, or the    *)
(* links above parent went round, the walk up would meet child or run out. *)
(***************************************************************************)
LEMMA NotAncestor ==
    ASSUME NEW a, ArenaTyped(a), NEW child \in Containers(a), NEW parent \in Containers(a),
           ~IsAncestor(a, child, parent),
           NEW S \in SUBSET Containers(a), parent \in S,
           \A d \in S \ {child} : ParentOf(a, d) \in S
    PROVE  FALSE
PROOF
<1>1. Size(a) \in Nat /\ Size(a) + 1 \in Nat /\ \A d \in S : d # 0
  BY SizeIs
<1> DEFINE up == Climb(a, parent)
           n == Size(a) + 1
           G == {k \in 0..n : up[k] \in S}
<1>2. up[0] = parent /\ \A k \in 1..n : up[k] = IF up[k - 1] = 0 THEN 0 ELSE ParentOf(a, up[k - 1])
  BY ClimbIs
<1>3. up[n] = 0 /\ \A k \in 0..Size(a) : up[k] # child
  BY DEF IsAncestor
<1> HIDE DEF up
<1>4. 0 \in G
  BY <1>1, <1>2
<1>5. ASSUME NEW k \in 1..n, k - 1 \in G
      PROVE  k \in G
  <2>1. k - 1 \in 0..Size(a) /\ k \in 0..n /\ up[k - 1] \in S
    BY <1>1, <1>5
  <2>2. up[k - 1] # child /\ up[k - 1] # 0
    BY <1>1, <1>3, <2>1
  <2>3. up[k] = ParentOf(a, up[k - 1]) /\ ParentOf(a, up[k - 1]) \in S
    BY <1>2, <2>1, <2>2
  <2> QED BY <2>1, <2>3
<1>6. 0..n \subseteq G
  <2> HIDE DEF G, n
  <2>1. n \in Nat
    BY <1>1 DEF n
  <2> QED BY <1>4, <1>5, <2>1, Walking!Upward
<1>7. n \in G
  BY <1>1, <1>6
<1> QED BY <1>1, <1>3, <1>7

\* What is appended to a list is in it, at its end only.
LEMMA Appended ==
    ASSUME NEW T, NEW list \in Seq(T), NEW x \in T
    PROVE  /\ Append(list, x) \in Seq(T)
           /\ ToSet(Append(list, x)) = ToSet(list) \cup {x}
           /\ IsInjective(list) /\ x \notin ToSet(list) => IsInjective(Append(list, x))
PROOF
<1>1. Len(list) \in Nat /\ DOMAIN list = 1..Len(list)
  OBVIOUS
<1> DEFINE n == Len(list)
           longer == Append(list, x)
<1>2. /\ longer \in Seq(T) /\ DOMAIN longer = 1..(n + 1) /\ longer[n + 1] = x
      /\ \A i \in 1..n : longer[i] = list[i]
  OBVIOUS
<1> HIDE DEF longer
<1>3. \A i : i \in DOMAIN longer <=> i \in DOMAIN list \/ i = n + 1
  BY <1>1, <1>2
<1>4. ToSet(longer) = ToSet(list) \cup {x}
  <2>1. \A y : y \in ToSet(longer) <=> \E i \in DOMAIN longer : longer[i] = y
    BY DEF ToSet
  <2>2. \A y : y \in ToSet(list) <=> \E i \in DOMAIN list : list[i] = y
    BY DEF ToSet
  <2>3. \A i \in DOMAIN list : longer[i] = list[i]
    BY <1>1, <1>2
  <2> QED BY <1>2, <1>3, <2>1, <2>2, <2>3
<1>5. ASSUME IsInjective(list), x \notin ToSet(list)
      PROVE  IsInjective(longer)
  <2>1. \A i \in DOMAIN list : list[i] # x
    BY <1>5 DEF ToSet
  <2>2. \A i, j \in DOMAIN list : list[i] = list[j] => i = j
    BY <1>5 DEF IsInjective
  <2>3. \A i, j \in DOMAIN longer : longer[i] = longer[j] => i = j
    BY <1>1, <1>2, <1>3, <2>1, <2>2
  <2> QED BY <2>3 DEF IsInjective
<1> QED BY <1>2, <1>4, <1>5 DEF longer

\* Equal arenas but for one link.
OneLinkMore(a, b, child, parent) ==
    /\ b = [containers |-> b.containers, by_id |-> a.by_id, by_article |-> a.by_article]
    /\ b.containers \in Seq(Containing) /\ Size(b) = Size(a)
    /\ \A c \in Containers(a) :
          /\ ParentOf(b, c) = IF c = child THEN parent ELSE ParentOf(a, c)
          /\ ChildrenOf(b, c) = IF c = parent THEN Append(ChildrenOf(a, c), child)
                                ELSE ChildrenOf(a, c)

\* set_parent() writes one parent and one child.
LEMMA LinkIs ==
    ASSUME NEW a, ArenaTyped(a), NEW child \in Containers(a), NEW parent \in Containers(a),
           child # parent
    PROVE  OneLinkMore(a, [a EXCEPT !.containers[child].parent = parent,
                                !.containers[parent].children = Append(@, child)], child, parent)
PROOF
<1> DEFINE b == [a EXCEPT !.containers[child].parent = parent,
                          !.containers[parent].children = Append(@, child)]
           cs == a.containers
           ds == [cs EXCEPT ![child].parent = parent,
                            ![parent].children = Append(@, child)]
<1>1. /\ Size(a) \in Nat /\ cs \in Seq(Containing) /\ Len(cs) = Size(a)
      /\ DOMAIN cs = Containers(a)
  BY SizeIs DEF ArenaTyped, Size, Containers
<1>2. /\ child \in Nat /\ parent \in Nat
      /\ \A c \in DOMAIN cs : cs[c] \in Containing
  BY <1>1, SizeIs
<1>3. b = [containers |-> ds, by_id |-> a.by_id, by_article |-> a.by_article]
  <2>1. a = [containers |-> a.containers, by_id |-> a.by_id, by_article |-> a.by_article]
    BY DEF ArenaTyped
  <2>2. DOMAIN a = {"containers", "by_id", "by_article"}
    BY <2>1
  <2>3. b = [f \in DOMAIN a |-> b[f]]
    BY <2>2
  <2>4. b.containers = ds /\ b.by_id = a.by_id /\ b.by_article = a.by_article
    BY <2>2
  <2> HIDE DEF b, ds
  <2> QED BY <2>2, <2>3, <2>4
<1>4. /\ DOMAIN ds = DOMAIN cs
      /\ ds[child] = [cs[child] EXCEPT !.parent = parent]
      /\ ds[parent] = [cs[parent] EXCEPT !.children = Append(@, child)]
      /\ \A c \in DOMAIN cs \ {child, parent} : ds[c] = cs[c]
  BY <1>1
<1>5. ds = [c \in 1..Size(a) |-> ds[c]]
  BY <1>1 DEF Containers
<1> HIDE DEF ds
<1>6. ds[child] \in Containing /\ ds[parent] \in Containing
  <2>1. cs[child] \in Containing /\ cs[parent] \in Containing
    BY <1>1, <1>2
  <2>2. Append(cs[parent].children, child) \in Seq(Nat)
    BY <1>2, <2>1 DEF Containing
  <2>3. ds[child] = [article |-> cs[child].article, parent |-> parent, children |-> cs[child].children]
    BY <1>4, <2>1 DEF Containing
  <2>4. ds[parent] = [article |-> cs[parent].article, parent |-> cs[parent].parent,
                      children |-> Append(cs[parent].children, child)]
    BY <1>4, <2>1 DEF Containing
  <2> QED BY <1>2, <2>1, <2>2, <2>3, <2>4 DEF Containing
<1>7. ds \in Seq(Containing) /\ Len(ds) = Size(a)
  <2>1. \A c \in 1..Size(a) : ds[c] \in Containing
    BY <1>1, <1>2, <1>4, <1>6 DEF Containers
  <2>2. ds \in [1..Size(a) -> Containing]
    BY <1>5, <2>1
  <2> QED BY <1>1, <2>2, LenProperties
<1>8. b.containers = ds
  BY <1>3
<1> HIDE DEF b
<1>9. ASSUME NEW c \in Containers(a)
      PROVE  /\ ds[c].parent = IF c = child THEN parent ELSE cs[c].parent
             /\ ds[c].children = IF c = parent THEN Append(cs[c].children, child) ELSE cs[c].children
  <2>1. c \in DOMAIN cs /\ cs[c] \in Containing
    BY <1>1, <1>2
  <2>2. CASE c = child
    BY <1>4, <2>1, <2>2 DEF Containing
  <2>3. CASE c = parent
    BY <1>4, <2>1, <2>3 DEF Containing
  <2>4. CASE c # child /\ c # parent
    BY <1>4, <2>1, <2>4
  <2> QED BY <2>2, <2>3, <2>4
<1>10. OneLinkMore(a, b, child, parent)
  BY <1>3, <1>7, <1>8, <1>9 DEF OneLinkMore, Size, ParentOf, ChildrenOf
<1> QED BY <1>10 DEF b

(***************************************************************************)
(* A link that does not close a loop leaves a forest.                      *)
(***************************************************************************)
LEMMA SetParentKeeps ==
    ASSUME NEW a, IsForest(a), NEW child \in Containers(a), NEW parent \in Containers(a)
    PROVE  LET b == SetParent(a, child, parent)
           IN  /\ IsForest(b) /\ Size(b) = Size(a)
               /\ b.by_id = a.by_id /\ b.by_article = a.by_article
               /\ \A c \in Containers(a) \ {child} : ParentOf(b, c) = ParentOf(a, c)
PROOF
<1> DEFINE b == SetParent(a, child, parent)
<1>1. CASE \/ child = parent
           \/ ParentOf(a, child) # 0
           \/ IsAncestor(a, child, parent)
  <2>1. b = a
    BY <1>1 DEF SetParent
  <2> HIDE DEF b
  <2>2. IsForest(b) /\ Size(b) = Size(a) /\ b.by_id = a.by_id /\ b.by_article = a.by_article
    BY <2>1
  <2>3. \A c \in Containers(a) \ {child} : ParentOf(b, c) = ParentOf(a, c)
    BY <2>1
  <2> QED BY <2>2, <2>3 DEF b
<1>2. CASE /\ child # parent
           /\ ParentOf(a, child) = 0
           /\ ~IsAncestor(a, child, parent)
  <2>0. b = [a EXCEPT !.containers[child].parent = parent,
                      !.containers[parent].children = Append(@, child)]
    BY <1>2 DEF SetParent
  <2>1. ArenaTyped(a) /\ Rooted(a) /\ Agreeing(a)
    BY DEF IsForest
  <2>2. OneLinkMore(a, b, child, parent)
    BY <1>2, <2>0, <2>1, LinkIs
  <2> HIDE DEF b
  <2>3. /\ b = [containers |-> b.containers, by_id |-> a.by_id, by_article |-> a.by_article]
        /\ b.containers \in Seq(Containing) /\ Size(b) = Size(a)
        /\ \A c \in Containers(a) :
              /\ ParentOf(b, c) = IF c = child THEN parent ELSE ParentOf(a, c)
              /\ ChildrenOf(b, c) = IF c = parent THEN Append(ChildrenOf(a, c), child)
                                    ELSE ChildrenOf(a, c)
    BY <2>2 DEF OneLinkMore
  <2>4. b.by_id = a.by_id /\ b.by_article = a.by_article /\ Containers(b) = Containers(a)
    BY <2>3 DEF Containers
  <2>5. ArenaTyped(b)
    <3>1. \A c \in Containers(b) : ParentOf(b, c) \in {0} \cup Containers(b)
      BY <2>1, <2>3, <2>4 DEF ArenaTyped
    <3> QED BY <2>1, <2>3, <2>4, <3>1 DEF ArenaTyped
  <2>6. Rooted(b)
    <3> SUFFICES ASSUME NEW S \in SUBSET Containers(a), S # {},
                        \A c \in S : ParentOf(b, c) \in S
                 PROVE  FALSE
      BY <2>4 DEF Rooted
    <3>1. CASE child \in S
      <4>1. parent \in S /\ \A d \in S \ {child} : ParentOf(a, d) \in S
        BY <2>3, <3>1
      <4> QED BY <1>2, <2>1, <4>1, NotAncestor
    <3>2. CASE child \notin S
      <4>1. \A c \in S : ParentOf(a, c) \in S
        BY <2>3, <3>2
      <4> QED BY <2>1, <4>1 DEF Rooted
    <3> QED BY <3>1, <3>2
  <2>7. Agreeing(b)
    <3> SUFFICES ASSUME NEW c \in Containers(a)
                 PROVE  /\ ToSet(ChildrenOf(b, c)) = {d \in Containers(a) : ParentOf(b, d) = c}
                        /\ IsInjective(ChildrenOf(b, c))
      BY <2>4 DEF Agreeing
    <3>1. /\ ToSet(ChildrenOf(a, c)) = {d \in Containers(a) : ParentOf(a, d) = c}
          /\ IsInjective(ChildrenOf(a, c)) /\ ChildrenOf(a, c) \in Seq(Nat)
          /\ child \in Nat /\ c # 0
      BY <2>1, SizeIs DEF Agreeing
    <3>2. child \notin ToSet(ChildrenOf(a, c))
      BY <1>2, <3>1
    <3>3. CASE c = parent
      <4>1. ChildrenOf(b, c) = Append(ChildrenOf(a, c), child)
        BY <2>3, <3>3
      <4>2. /\ ToSet(ChildrenOf(b, c)) = ToSet(ChildrenOf(a, c)) \cup {child}
            /\ IsInjective(ChildrenOf(b, c))
        BY <3>1, <3>2, <4>1, Appended
      <4>3. {d \in Containers(a) : ParentOf(b, d) = c}
               = {d \in Containers(a) : ParentOf(a, d) = c} \cup {child}
        BY <2>3, <3>3
      <4> QED BY <3>1, <4>2, <4>3
    <3>4. CASE c # parent
      <4>1. ChildrenOf(b, c) = ChildrenOf(a, c)
        BY <2>3, <3>4
      <4>2. {d \in Containers(a) : ParentOf(b, d) = c} = {d \in Containers(a) : ParentOf(a, d) = c}
        BY <1>2, <2>3, <3>1, <3>4
      <4> QED BY <3>1, <4>1, <4>2
    <3> QED BY <3>3, <3>4
  <2>8. \A c \in Containers(a) \ {child} : ParentOf(b, c) = ParentOf(a, c)
    BY <2>3
  <2>9. IsForest(b)
    BY <2>5, <2>6, <2>7 DEF IsForest
  <2> QED BY <2>3, <2>4, <2>8, <2>9 DEF b
<1> QED BY <1>1, <1>2

(***************************************************************************)
(* A new container stands alone.                                           *)
(***************************************************************************)
LEMMA NewContainerKeeps ==
    ASSUME NEW a, IsForest(a), NEW article \in Nat
    PROVE  LET b == NewContainer(a, article)
           IN  /\ IsForest(b) /\ Size(b) = Size(a) + 1
               /\ b.by_id = a.by_id /\ b.by_article = a.by_article
               /\ \A c \in Containers(a) : ParentOf(b, c) = ParentOf(a, c)
               /\ ParentOf(b, Size(a) + 1) = 0
PROOF
<1> DEFINE b == NewContainer(a, article)
           cs == a.containers
           ds == Append(cs, Container(article))
<1>1. ArenaTyped(a) /\ Rooted(a) /\ Agreeing(a)
  BY DEF IsForest
<1>2. /\ Size(a) \in Nat /\ cs \in Seq(Containing) /\ Len(cs) = Size(a)
      /\ a = [containers |-> a.containers, by_id |-> a.by_id, by_article |-> a.by_article]
  BY <1>1, SizeIs DEF ArenaTyped, Size
<1>3. Container(article) \in Containing
  <2>1. <<>> \in Seq(Nat)
    OBVIOUS
  <2> QED BY <2>1 DEF Container, Containing
<1>4. /\ ds \in Seq(Containing) /\ Len(ds) = Size(a) + 1
      /\ ds[Size(a) + 1] = Container(article)
      /\ \A c \in 1..Size(a) : ds[c] = cs[c]
  <2> HIDE DEF cs
  <2> QED BY <1>2, <1>3
<1>5. b = [containers |-> ds, by_id |-> a.by_id, by_article |-> a.by_article]
  <2>1. DOMAIN a = {"containers", "by_id", "by_article"}
    BY <1>2
  <2>2. b = [a EXCEPT !.containers = ds]
    BY DEF NewContainer
  <2> HIDE DEF b, ds
  <2>3. b = [f \in DOMAIN a |-> b[f]]
    BY <2>1, <2>2
  <2>4. b.containers = ds /\ b.by_id = a.by_id /\ b.by_article = a.by_article
    BY <2>1, <2>2
  <2> QED BY <2>1, <2>3, <2>4
<1>6. b.containers = ds /\ b.by_id = a.by_id /\ b.by_article = a.by_article
  BY <1>5
<1> HIDE DEF b, ds
<1>7. Size(b) = Size(a) + 1
  BY <1>4, <1>6 DEF Size
<1> DEFINE new == Size(a) + 1
<1>8. /\ Containers(b) = Containers(a) \cup {new} /\ new \notin Containers(a)
      /\ Containers(a) \subseteq Containers(b)
  BY <1>2, <1>7 DEF Containers
<1>9. /\ \A c \in Containers(a) : ParentOf(b, c) = ParentOf(a, c) /\ ChildrenOf(b, c) = ChildrenOf(a, c)
      /\ ParentOf(b, new) = 0 /\ ChildrenOf(b, new) = <<>>
  BY <1>4, <1>6 DEF ParentOf, ChildrenOf, Container, Containers
<1>10. /\ \A c \in Containers(a) : ParentOf(a, c) \in {0} \cup Containers(a)
       /\ ParentOf(b, Size(a) + 1) = 0
  BY <1>1, <1>9 DEF ArenaTyped
<1>11. 0 \notin Containers(b) /\ new # 0
  BY <1>2, <1>7 DEF Containers
<1>12. ArenaTyped(b)
  <2>1. \A c \in Containers(b) : ParentOf(b, c) \in {0} \cup Containers(b)
    BY <1>8, <1>9, <1>10
  <2>2. a.by_article \in Seq(Containers(b))
    <3>1. a.by_article \in Seq(Containers(a))
      BY <1>1 DEF ArenaTyped
    <3> HIDE DEF new
    <3> QED BY <1>8, <3>1
  <2>3. b = [containers |-> b.containers, by_id |-> b.by_id, by_article |-> b.by_article]
    BY <1>5, <1>6
  <2>4. /\ a.by_id = [id \in DOMAIN a.by_id |-> a.by_id[id]]
        /\ \A id \in DOMAIN a.by_id : a.by_id[id] \in Containers(b)
    BY <1>1, <1>8 DEF ArenaTyped
  <2>5. b.containers \in Seq(Containing)
    BY <1>4, <1>6
  <2> QED BY <1>6, <2>1, <2>2, <2>3, <2>4, <2>5 DEF ArenaTyped
<1> HIDE DEF new
<1>13. Rooted(b)
  <2> SUFFICES ASSUME NEW S \in SUBSET Containers(b), S # {},
                      \A c \in S : ParentOf(b, c) \in S
               PROVE  FALSE
    BY DEF Rooted
  <2>1. new \notin S
    BY <1>9, <1>11
  <2>2. S \in SUBSET Containers(a) /\ \A c \in S : ParentOf(a, c) \in S
    BY <1>8, <1>9, <2>1
  <2> QED BY <1>1, <2>2 DEF Rooted
<1>14. Agreeing(b)
  <2> SUFFICES ASSUME NEW c \in Containers(b)
               PROVE  /\ ToSet(ChildrenOf(b, c)) = {d \in Containers(b) : ParentOf(b, d) = c}
                      /\ IsInjective(ChildrenOf(b, c))
    BY DEF Agreeing
  <2>1. CASE c = new
    <3>1. {d \in Containers(b) : ParentOf(b, d) = c} = {}
      BY <1>8, <1>9, <1>10, <1>11, <2>1
    <3>2. ChildrenOf(b, c) = <<>> /\ DOMAIN <<>> = {}
      BY <1>9, <2>1
    <3>3. ToSet(<<>>) = {}
      BY <3>2 DEF ToSet
    <3>4. IsInjective(<<>>)
      BY <3>2 DEF IsInjective
    <3> QED BY <3>1, <3>2, <3>3, <3>4
  <2>2. CASE c # new
    <3>1. c \in Containers(a) /\ ChildrenOf(b, c) = ChildrenOf(a, c)
      BY <1>8, <1>9, <2>2
    <3>2. {d \in Containers(b) : ParentOf(b, d) = c} = {d \in Containers(a) : ParentOf(a, d) = c}
      BY <1>8, <1>9, <1>11
    <3> QED BY <1>1, <3>1, <3>2 DEF Agreeing
  <2> QED BY <2>1, <2>2
<1> QED BY <1>6, <1>7, <1>9, <1>10, <1>12, <1>13, <1>14 DEF IsForest, b

(***************************************************************************)
(* An arena is a forest whatever its ids and its records name, as long as  *)
(* they name containers.                                                   *)
(***************************************************************************)
LEMMA Renamed ==
    ASSUME NEW a, IsForest(a), NEW by_id, NEW by_article \in Seq(Containers(a)),
           by_id = [id \in DOMAIN by_id |-> by_id[id]],
           \A id \in DOMAIN by_id : by_id[id] \in Containers(a),
           NEW b, b = [containers |-> a.containers, by_id |-> by_id, by_article |-> by_article]
    PROVE  IsForest(b) /\ Size(b) = Size(a) /\ \A c : ParentOf(b, c) = ParentOf(a, c)
PROOF
<1>1. b.containers = a.containers /\ b.by_id = by_id /\ b.by_article = by_article
  OBVIOUS
<1>2. ArenaTyped(a) /\ Rooted(a) /\ Agreeing(a)
  BY DEF IsForest
<1>3. Size(b) = Size(a) /\ Containers(b) = Containers(a)
  BY <1>1 DEF Size, Containers
<1>4. \A c : ParentOf(b, c) = ParentOf(a, c) /\ ChildrenOf(b, c) = ChildrenOf(a, c)
  BY <1>1 DEF ParentOf, ChildrenOf
<1>5. Rooted(b)
  BY <1>2, <1>3, <1>4 DEF Rooted
<1>6. Agreeing(b)
  BY <1>2, <1>3, <1>4 DEF Agreeing
<1>7. ArenaTyped(b)
  <2>1. \A c \in Containers(b) : ParentOf(b, c) \in {0} \cup Containers(b)
    BY <1>2, <1>3, <1>4 DEF ArenaTyped
  <2>2. b = [containers |-> b.containers, by_id |-> b.by_id, by_article |-> b.by_article]
    BY <1>1
  <2>3. b.containers \in Seq(Containing)
    BY <1>1, <1>2 DEF ArenaTyped
  <2>4. /\ b.by_id = [id \in DOMAIN b.by_id |-> b.by_id[id]]
        /\ \A id \in DOMAIN b.by_id : b.by_id[id] \in Containers(b)
        /\ b.by_article \in Seq(Containers(b))
    BY <1>1, <1>3
  <2> QED BY <2>1, <2>2, <2>3, <2>4 DEF ArenaTyped
<1> QED BY <1>3, <1>4, <1>5, <1>6, <1>7 DEF IsForest

\* Claiming an id moves no container (by_id.insert).
LEMMA ClaimKeeps ==
    ASSUME NEW a, IsForest(a), NEW id, NEW c \in Containers(a)
    PROVE  LET b == Claim(a, id, c)
           IN  /\ IsForest(b) /\ Size(b) = Size(a) /\ b.by_article = a.by_article
               /\ DOMAIN b.by_id = DOMAIN a.by_id \cup {id} /\ b.by_id[id] = c
               /\ \A i \in DOMAIN a.by_id \ {id} : b.by_id[i] = a.by_id[i]
               /\ \A d : ParentOf(b, d) = ParentOf(a, d)
PROOF
<1> DEFINE ids == [i \in DOMAIN a.by_id \cup {id} |-> IF i = id THEN c ELSE a.by_id[i]]
           b == Claim(a, id, c)
<1>1. ArenaTyped(a)
  BY DEF IsForest
<1>2. a = [containers |-> a.containers, by_id |-> a.by_id, by_article |-> a.by_article]
  BY <1>1 DEF ArenaTyped
<1>3. b = [containers |-> a.containers, by_id |-> ids, by_article |-> a.by_article]
  BY <1>2 DEF Claim
<1>4. /\ ids = [i \in DOMAIN ids |-> ids[i]] /\ ids[id] = c
      /\ DOMAIN ids = DOMAIN a.by_id \cup {id}
      /\ \A i \in DOMAIN a.by_id \ {id} : ids[i] = a.by_id[i]
      /\ \A i \in DOMAIN ids : ids[i] \in Containers(a)
  BY <1>1 DEF ArenaTyped
<1> HIDE DEF ids, b
<1>5. a.by_article \in Seq(Containers(a))
  BY <1>1 DEF ArenaTyped
<1>6. IsForest(b) /\ Size(b) = Size(a) /\ \A d : ParentOf(b, d) = ParentOf(a, d)
  BY <1>3, <1>4, <1>5, Renamed
<1>7. b.by_id = ids /\ b.by_article = a.by_article
  BY <1>3
<1> QED BY <1>4, <1>6, <1>7 DEF b

\* A record gets one container more in by_article (Arena::insert).
LEMMA InsertedKeeps ==
    ASSUME NEW a, IsForest(a), NEW index \in Nat, NEW id
    PROVE  LET b == Inserted(a, index, id)
           IN  /\ IsForest(b) /\ Size(b) = Size(a) + 1
               /\ Len(b.by_article) = Len(a.by_article) + 1
               /\ b.by_article = Append(a.by_article, Size(a) + 1)
               /\ \A i \in DOMAIN b.by_id : \/ i \in DOMAIN a.by_id /\ b.by_id[i] = a.by_id[i]
                                            \/ i = id /\ b.by_id[i] = Size(a) + 1
               /\ \A d \in Containers(a) : ParentOf(b, d) = ParentOf(a, d)
               /\ ParentOf(b, Size(a) + 1) = 0
PROOF
<1> DEFINE c == Size(a) + 1
           n == NewContainer(a, index)
           new == [n EXCEPT !.by_article = Append(@, c)]
           list == Append(n.by_article, c)
           b == Inserted(a, index, id)
<1>1. /\ IsForest(n) /\ Size(n) = c /\ n.by_article = a.by_article /\ n.by_id = a.by_id
      /\ \A d \in Containers(a) : ParentOf(n, d) = ParentOf(a, d)
      /\ ParentOf(n, c) = 0
  BY NewContainerKeeps
<1> HIDE DEF n
<1>2. /\ n = [containers |-> n.containers, by_id |-> n.by_id, by_article |-> n.by_article]
      /\ n.by_id = [i \in DOMAIN n.by_id |-> n.by_id[i]]
      /\ \A i \in DOMAIN n.by_id : n.by_id[i] \in Containers(n)
      /\ n.by_article \in Seq(Containers(n))
  BY <1>1 DEF IsForest, ArenaTyped
<1>3. c \in Containers(n)
  <2>1. Size(a) \in Nat
    BY SizeIs DEF IsForest
  <2> QED BY <1>1, <2>1 DEF Containers
<1>4. list \in Seq(Containers(n)) /\ Len(list) = Len(a.by_article) + 1
  <2>1. Len(list) = Len(n.by_article) + 1
    BY <1>2, <1>3
  <2> QED BY <1>1, <1>2, <1>3, <2>1
<1>5. new = [containers |-> n.containers, by_id |-> n.by_id, by_article |-> list]
  <2>1. DOMAIN n = {"containers", "by_id", "by_article"}
    BY <1>2
  <2>2. new = [n EXCEPT !.by_article = list]
    OBVIOUS
  <2> HIDE DEF new, list
  <2>3. new = [f \in DOMAIN n |-> new[f]]
    BY <2>1, <2>2
  <2>4. new.containers = n.containers /\ new.by_id = n.by_id /\ new.by_article = list
    BY <2>1, <2>2
  <2> QED BY <2>1, <2>3, <2>4
<1> HIDE DEF list, new, c
<1>6. /\ IsForest(new) /\ Size(new) = Size(n) /\ new.by_article = list /\ new.by_id = a.by_id
      /\ \A d : ParentOf(new, d) = ParentOf(n, d)
  <2>1. IsForest(new) /\ Size(new) = Size(n) /\ \A d : ParentOf(new, d) = ParentOf(n, d)
    BY <1>1, <1>2, <1>4, <1>5, Renamed
  <2> QED BY <1>1, <1>5, <2>1
<1>7. c \in Containers(new)
  BY <1>3, <1>6 DEF Containers
<1>8. b = IF id = NoId \/ id \in DOMAIN a.by_id THEN new ELSE Claim(new, id, c)
  BY DEF Inserted, new, n, c
<1> HIDE DEF b
<1>9. /\ IsForest(b) /\ b.by_article = new.by_article /\ Size(b) = Size(new)
      /\ \A i \in DOMAIN b.by_id : \/ i \in DOMAIN a.by_id /\ b.by_id[i] = a.by_id[i]
                                   \/ i = id /\ b.by_id[i] = c
      /\ \A d : ParentOf(b, d) = ParentOf(new, d)
  <2>1. CASE id = NoId \/ id \in DOMAIN a.by_id
    <3>1. b = new
      BY <1>8, <2>1
    <3> QED BY <1>6, <3>1
  <2>2. CASE ~(id = NoId \/ id \in DOMAIN a.by_id)
    <3>1. b = Claim(new, id, c)
      BY <1>8, <2>2
    <3> QED BY <1>6, <1>7, <3>1, ClaimKeeps
  <2> QED BY <2>1, <2>2
<1>10. b.by_article = Append(a.by_article, c)
  BY <1>1, <1>6, <1>9 DEF list
<1> QED BY <1>1, <1>4, <1>6, <1>9, <1>10 DEF b, c

\* A reference finds a container or makes one (Arena::container_for_id).
LEMMA ContainerForIdKeeps ==
    ASSUME NEW a, IsForest(a), NEW id
    PROVE  LET b == ContainerForId(a, id)
           IN  /\ IsForest(b) /\ Containers(a) \subseteq Containers(b)
               /\ b.by_article = a.by_article
               /\ b.by_id[id] \in Containers(b)
               /\ DOMAIN b.by_id = DOMAIN a.by_id \cup {id}
               /\ \A i \in DOMAIN a.by_id : b.by_id[i] = a.by_id[i]
               /\ id \in DOMAIN a.by_id \/ b.by_id[id] \notin Containers(a)
               /\ \A d \in Containers(a) : ParentOf(b, d) = ParentOf(a, d)
PROOF
<1> DEFINE b == ContainerForId(a, id)
           n == NewContainer(a, 0)
           c == Size(a) + 1
<1>1. CASE id \in DOMAIN a.by_id
  <2>1. b = a
    BY <1>1 DEF ContainerForId
  <2> HIDE DEF b
  <2>2. b.by_id[id] \in Containers(b)
    BY <1>1, <2>1 DEF IsForest, ArenaTyped
  <2> QED BY <1>1, <2>1, <2>2 DEF b
<1>2. CASE id \notin DOMAIN a.by_id
  <2>1. b = Claim(n, id, c)
    BY <1>2 DEF ContainerForId
  <2> HIDE DEF b
  <2>2. /\ IsForest(n) /\ Size(n) = c /\ n.by_article = a.by_article /\ n.by_id = a.by_id
        /\ \A d \in Containers(a) : ParentOf(n, d) = ParentOf(a, d)
    BY NewContainerKeeps
  <2> HIDE DEF n
  <2>3. Size(a) \in Nat
    BY SizeIs DEF IsForest
  <2>4. c \in Containers(n)
    BY <2>2, <2>3 DEF Containers
  <2> HIDE DEF c
  <2>5. /\ IsForest(b) /\ Size(b) = c /\ b.by_article = a.by_article /\ b.by_id[id] = c
        /\ DOMAIN b.by_id = DOMAIN n.by_id \cup {id}
        /\ \A i \in DOMAIN n.by_id \ {id} : b.by_id[i] = n.by_id[i]
        /\ \A d : ParentOf(b, d) = ParentOf(n, d)
    BY <2>1, <2>2, <2>4, ClaimKeeps
  <2>6. c \in Containers(b) /\ c \notin Containers(a) /\ Containers(a) \subseteq Containers(b)
    BY <2>3, <2>5 DEF Containers, c
  <2>7. \A i \in DOMAIN a.by_id : b.by_id[i] = a.by_id[i]
    BY <1>2, <2>2, <2>5
  <2> QED BY <2>2, <2>5, <2>6, <2>7 DEF b
<1> QED BY <1>1, <1>2

\* One reference of a record, linked under the one before (link_references).
LEMMA ReferredKeeps ==
    ASSUME NEW a, IsForest(a), NEW previous \in {0} \cup Containers(a), NEW id
    PROVE  LET b == Referred(a, previous, id)
           IN  /\ IsForest(b) /\ b.by_article = a.by_article
               /\ b.by_id[id] \in Containers(b)
PROOF
<1> DEFINE found == ContainerForId(a, id)
           b == Referred(a, previous, id)
<1>1. /\ IsForest(found) /\ Containers(a) \subseteq Containers(found)
      /\ found.by_article = a.by_article
      /\ found.by_id[id] \in Containers(found)
  BY ContainerForIdKeeps
<1>2. b = IF previous = 0 THEN found ELSE SetParent(found, found.by_id[id], previous)
  BY DEF Referred
<1> HIDE DEF found, b
<1>3. CASE previous = 0
  <2>1. b = found
    BY <1>2, <1>3
  <2> QED BY <1>1, <2>1 DEF b
<1>4. CASE previous # 0
  <2>1. b = SetParent(found, found.by_id[id], previous) /\ previous \in Containers(found)
    BY <1>1, <1>2, <1>4
  <2>2. IsForest(b) /\ Size(b) = Size(found) /\ b.by_id = found.by_id /\ b.by_article = found.by_article
    BY <1>1, <2>1, SetParentKeeps
  <2>3. Containers(b) = Containers(found)
    BY <2>2 DEF Containers
  <2> QED BY <1>1, <2>2, <2>3 DEF b
<1> QED BY <1>3, <1>4

\* The record linked under its nearest reference (link_references).
LEMMA AttachedKeeps ==
    ASSUME NEW a, IsForest(a), NEW previous \in {0} \cup Containers(a),
           NEW index \in DOMAIN a.by_article
    PROVE  LET b == Attached(a, index, previous)
           IN  IsForest(b) /\ b.by_article = a.by_article
PROOF
<1> DEFINE b == Attached(a, index, previous)
<1>1. b = IF previous = 0 THEN a ELSE SetParent(a, a.by_article[index], previous)
  BY DEF Attached
<1>2. a.by_article[index] \in Containers(a)
  <2>1. a.by_article \in Seq(Containers(a))
    BY DEF IsForest, ArenaTyped
  <2> QED BY <2>1
<1> HIDE DEF b
<1>3. CASE previous = 0
  <2>1. b = a
    BY <1>1, <1>3
  <2> QED BY <2>1 DEF b
<1>4. CASE previous # 0
  <2>1. b = SetParent(a, a.by_article[index], previous) /\ previous \in Containers(a)
    BY <1>1, <1>4
  <2>2. IsForest(b) /\ b.by_article = a.by_article
    BY <1>2, <2>1, SetParentKeeps
  <2> QED BY <2>2 DEF b
<1> QED BY <1>3, <1>4

-----------------------------------------------------------------------------
(* Subtrees                                                                *)

\* One level more.
WithChildren(a, above) == above \cup UNION {ToSet(ChildrenOf(a, d)) : d \in above}

\* The children of the containers of a set.
LEMMA BelowIs ==
    ASSUME NEW a, IsForest(a), NEW above \in SUBSET Containers(a)
    PROVE  UNION {ToSet(ChildrenOf(a, d)) : d \in above}
               = {e \in Containers(a) : ParentOf(a, e) \in above}
PROOF
<1>1. \A d \in above : ToSet(ChildrenOf(a, d)) = {e \in Containers(a) : ParentOf(a, e) = d}
  BY DEF IsForest, Agreeing
<1> QED BY <1>1

\* The walk down from c, one level at a time.
LEMMA DescentIs ==
    ASSUME NEW a, IsForest(a), NEW c \in Containers(a)
    PROVE  \E down : /\ Subtree(a, c) = down[Size(a)]
                     /\ down[0] = {c}
                     /\ \A k \in 1..Size(a) : down[k] = WithChildren(a, down[k - 1])
PROOF
<1> DEFINE n == Size(a)
           T == SUBSET Containers(a)
           F == [k \in 1..n |-> [above \in T |-> WithChildren(a, above)]]
<1>1. n \in Nat /\ {c} \in T
  BY SizeIs DEF IsForest
<1>2. \A k \in 1..n : \A x \in T : F[k][x] = WithChildren(a, x) /\ F[k][x] \in T
  <2>1. \A x \in T : WithChildren(a, x) \in T
    BY BelowIs DEF WithChildren
  <2> QED BY <2>1
<1> HIDE DEF n, T, F
<1>3. PICK f \in [0..n -> T] : Walking!Iterates(f, F, {c}, n)
  BY <1>1, <1>2, Walking!IterationDefined
<1>4. ASSUME NEW k \in 0..n
      PROVE  f[k] = IF k = 0 THEN {c} ELSE WithChildren(a, f[k - 1])
  <2>1. CASE k = 0
    BY <1>3, <2>1 DEF Walking!Iterates
  <2>2. CASE k # 0
    <3>1. k \in 1..n /\ k - 1 \in 0..n
      BY <1>1, <2>2
    <3>2. f[k] = F[k][f[k - 1]] /\ f[k - 1] \in T
      BY <1>3, <3>1 DEF Walking!Iterates
    <3> QED BY <1>2, <2>2, <3>1, <3>2
  <2> QED BY <2>1, <2>2
<1>5. f = [k \in 0..n |-> IF k = 0 THEN {c}
                         ELSE f[k - 1] \cup UNION {ToSet(ChildrenOf(a, d)) : d \in f[k - 1]}]
  BY <1>3, <1>4 DEF WithChildren
<1>6. PICK down : /\ down = [k \in 0..n |-> IF k = 0 THEN {c}
                               ELSE down[k - 1] \cup UNION {ToSet(ChildrenOf(a, d)) : d \in down[k - 1]}]
                  /\ Subtree(a, c) = down[n]
  BY <1>5 DEF Subtree, n
<1>7. \A k \in 0..n : down[k] = IF k = 0 THEN {c} ELSE WithChildren(a, down[k - 1])
  BY <1>6 DEF WithChildren
<1>8. /\ 0 \in 0..n
      /\ \A k \in 1..n : k \in 0..n /\ k # 0
  BY <1>1
<1>9. down[0] = {c} /\ \A k \in 1..n : down[k] = WithChildren(a, down[k - 1])
  BY <1>7, <1>8
<1> QED BY <1>6, <1>9 DEF n

(***************************************************************************)
(* A subtree holds its root and, with a container, all that descends from  *)
(* it; all but the root have their parents in it.                          *)
(***************************************************************************)
LEMMA SubtreeIs ==
    ASSUME NEW a, IsForest(a), NEW c \in Containers(a)
    PROVE  LET T == Subtree(a, c)
           IN  /\ c \in T /\ T \subseteq Containers(a)
               /\ \A d \in Containers(a) : ParentOf(a, d) \in T => d \in T
               /\ \A d \in T \ {c} : ParentOf(a, d) \in T
PROOF
<1> DEFINE n == Size(a)
           All == Containers(a)
           Closed(X) == \A d \in All : ParentOf(a, d) \in X => d \in X
           Grown(X) == \A d \in X \ {c} : ParentOf(a, d) \in X
<1>1. PICK down : /\ Subtree(a, c) = down[n]
                  /\ down[0] = {c}
                  /\ \A k \in 1..n : down[k] = WithChildren(a, down[k - 1])
  BY DescentIs
<1>2. n \in Nat /\ c \in All /\ IsFiniteSet(All) /\ Cardinality(All) = n
  <2>1. n \in Nat
    BY SizeIs DEF IsForest
  <2> HIDE DEF n
  <2>2. IsFiniteSet(1..n) /\ Cardinality(1..n) = n
    BY <2>1, FS_Interval
  <2> QED BY <2>1, <2>2 DEF Containers, n
<1>3. ASSUME NEW X \in SUBSET All
      PROVE  WithChildren(a, X) = X \cup {e \in All : ParentOf(a, e) \in X}
  BY BelowIs DEF WithChildren
<1>4. ASSUME NEW X \in SUBSET All
      PROVE  IsFiniteSet(X) /\ Cardinality(X) \in Nat /\ Cardinality(X) <= n
  BY <1>2, FS_Subset, FS_CardinalityType
<1> DEFINE G == {k \in 0..n : /\ down[k] \in SUBSET All /\ c \in down[k] /\ Grown(down[k])
                              /\ Cardinality(down[k]) > k \/ Closed(down[k])}
<1> HIDE DEF n, All
<1>5. 0 \in G
  <2>1. Cardinality({c}) = 1
    BY FS_Singleton
  <2> QED BY <1>1, <1>2, <2>1
<1>6. ASSUME NEW k \in 1..n, k - 1 \in G
      PROVE  k \in G
  <2> DEFINE X == down[k - 1]
             Y == down[k]
  <2>1. /\ k \in Nat /\ k \in 0..n
        /\ X \in SUBSET All /\ c \in X /\ Grown(X)
        /\ Cardinality(X) > k - 1 \/ Closed(X)
    BY <1>2, <1>6
  <2>2. Y = X \cup {e \in All : ParentOf(a, e) \in X}
    <3>1. Y = WithChildren(a, X)
      BY <1>1
    <3> QED BY <1>3, <2>1, <3>1
  <2> HIDE DEF X, Y
  <2>3. Y \in SUBSET All /\ c \in Y /\ Grown(Y)
    BY <2>1, <2>2
  <2>4. Cardinality(Y) > k \/ Closed(Y)
    <3>1. CASE Closed(X)
      <4>1. Y = X
        BY <2>1, <2>2, <3>1
      <4> QED BY <3>1, <4>1
    <3>2. CASE ~Closed(X)
      <4>1. Cardinality(X) > k - 1 /\ X # Y /\ X \subseteq Y
        BY <2>1, <2>2, <3>2
      <4>2. /\ IsFiniteSet(Y) /\ Cardinality(Y) \in Nat /\ Cardinality(X) \in Nat
        BY <1>4, <2>1, <2>3
      <4>3. Cardinality(X) <= Cardinality(Y) /\ Cardinality(X) # Cardinality(Y)
        BY <4>1, <4>2, FS_Subset
      <4> QED BY <2>1, <4>1, <4>2, <4>3
    <3> QED BY <3>1, <3>2
  <2> QED BY <2>1, <2>3, <2>4 DEF X, Y
<1>7. 0..n \subseteq G
  <2> HIDE DEF G
  <2> QED BY <1>2, <1>5, <1>6, Walking!Upward
<1>8. n \in G
  BY <1>2, <1>7
<1>9. /\ down[n] \in SUBSET All /\ c \in down[n] /\ Grown(down[n])
      /\ Cardinality(down[n]) > n \/ Closed(down[n])
  BY <1>8
<1>10. Closed(down[n])
  <2>1. Cardinality(down[n]) \in Nat /\ Cardinality(down[n]) <= n
    BY <1>4, <1>9
  <2> HIDE DEF Closed
  <2> QED BY <1>2, <1>9, <2>1
<1> QED BY <1>1, <1>9, <1>10 DEF All, n

\* A root's parent is not below it.
LEMMA ApartFromBelow ==
    ASSUME NEW a, IsForest(a), NEW c \in Containers(a)
    PROVE  ParentOf(a, c) \notin Subtree(a, c)
PROOF
<1> DEFINE T == Subtree(a, c)
<1>1. /\ c \in T /\ T \in SUBSET Containers(a)
      /\ \A d \in T \ {c} : ParentOf(a, d) \in T
  BY SubtreeIs
<1> HIDE DEF T
<1>2. PICK d \in T : ParentOf(a, d) \notin T
  BY <1>1 DEF IsForest, Rooted
<1>3. d = c
  BY <1>1, <1>2
<1> QED BY <1>2, <1>3 DEF T

\* The oldest article of a thread is a record, or 0 (Arena::first_article).
LEMMA FirstArticleIs ==
    ASSUME NEW a, IsForest(a), NEW c \in Containers(a)
    PROVE  FirstArticle(a, c) \in Nat
PROOF
<1> DEFINE L == {ArticleOf(a, d) : d \in Subtree(a, c)} \ {0}
<1>1. L \subseteq Nat
  <2>1. Subtree(a, c) \subseteq Containers(a)
    BY SubtreeIs
  <2> QED BY <2>1, SizeIs DEF IsForest
<1>2. FirstArticle(a, c) = Lowest(L)
  BY DEF FirstArticle
<1> HIDE DEF L
<1>3. CASE L = {}
  BY <1>2, <1>3 DEF Lowest
<1>4. CASE L # {}
  <2>1. \E x \in L : \A y \in L : x <= y
    BY <1>1, <1>4, Walking!LeastNumber
  <2>2. Lowest(L) \in L
    BY <1>4, <2>1 DEF Lowest
  <2> QED BY <1>1, <1>2, <2>2
<1> QED BY <1>3, <1>4

\* The elements of S that are sorted before c.
Before(S, key, c) == {d \in S : key[d] < key[c] \/ (key[d] = key[c] /\ d < c)}

\* No two elements have as many before them, and none as many as there are.
LEMMA RankIs ==
    ASSUME NEW S \in SUBSET Nat, IsFiniteSet(S), NEW key, \A c \in S : key[c] \in Nat
    PROVE  /\ Cardinality(S) \in Nat
           /\ \A c \in S : /\ Cardinality(Before(S, key, c)) \in Nat
                           /\ Cardinality(Before(S, key, c)) < Cardinality(S)
           /\ \A c, d \in S : Cardinality(Before(S, key, c)) = Cardinality(Before(S, key, d))
                              => c = d
PROOF
<1>1. \A T \in SUBSET S : IsFiniteSet(T) /\ Cardinality(T) \in Nat
  BY FS_Subset, FS_CardinalityType
<1>2. ASSUME NEW T \in SUBSET S, NEW R \in SUBSET T, R # T
      PROVE  Cardinality(R) < Cardinality(T)
  <2>1. IsFiniteSet(T) /\ Cardinality(T) \in Nat /\ Cardinality(R) \in Nat
    BY <1>1
  <2>2. Cardinality(R) <= Cardinality(T) /\ Cardinality(R) # Cardinality(T)
    BY <1>2, <2>1, FS_Subset
  <2> QED BY <2>1, <2>2
<1>3. \A c \in S : Before(S, key, c) \in SUBSET S /\ c \notin Before(S, key, c)
  BY DEF Before
<1>4. \A c \in S : /\ Cardinality(Before(S, key, c)) \in Nat
                   /\ Cardinality(Before(S, key, c)) < Cardinality(S)
  BY <1>1, <1>2, <1>3
<1>5. ASSUME NEW c \in S, NEW d \in S, d \in Before(S, key, c)
      PROVE  Cardinality(Before(S, key, d)) < Cardinality(Before(S, key, c))
  <2>1. ASSUME NEW x \in Before(S, key, d)
        PROVE  x \in Before(S, key, c)
    <3>1. x \in S /\ (key[x] < key[d] \/ (key[x] = key[d] /\ x < d))
      BY DEF Before
    <3>2. key[d] < key[c] \/ (key[d] = key[c] /\ d < c)
      BY <1>5 DEF Before
    <3>3. /\ key[x] \in Nat /\ key[d] \in Nat /\ key[c] \in Nat
          /\ x \in Nat /\ d \in Nat /\ c \in Nat
      BY <3>1
    <3>4. key[x] < key[c] \/ (key[x] = key[c] /\ x < c)
      BY <3>1, <3>2, <3>3
    <3> QED BY <3>1, <3>4 DEF Before
  <2> QED BY <1>2, <1>3, <1>5, <2>1
<1>6. ASSUME NEW c \in S, NEW d \in S, c # d
      PROVE  Cardinality(Before(S, key, c)) # Cardinality(Before(S, key, d))
  <2>1. d \in Before(S, key, c) \/ c \in Before(S, key, d)
    BY <1>6 DEF Before
  <2> QED BY <1>4, <1>5, <2>1
<1> QED BY <1>1, <1>4, <1>6

(***************************************************************************)
(* Sorting a set lists each of its elements once, by their keys.           *)
(***************************************************************************)
LEMMA SortedByIs ==
    ASSUME NEW S \in SUBSET Nat, IsFiniteSet(S), NEW key, \A c \in S : key[c] \in Nat
    PROVE  /\ SortedBy(S, key) \in Seq(S)
           /\ ToSet(SortedBy(S, key)) = S
           /\ IsInjective(SortedBy(S, key))
           /\ \A i, j \in DOMAIN SortedBy(S, key) :
                 i < j => key[SortedBy(S, key)[i]] <= key[SortedBy(S, key)[j]]
PROOF
<1> DEFINE n == Cardinality(S)
           rank == [c \in S |-> Cardinality(Before(S, key, c)) + 1]
           list == SortedBy(S, key)
<1>1. list = [i \in 1..n |-> CHOOSE c \in S : Cardinality(Before(S, key, c)) = i - 1]
  BY DEF SortedBy, Before
<1>2. n \in Nat /\ rank \in [S -> 1..n] /\ \A c, d \in S : rank[c] = rank[d] => c = d
  BY RankIs
<1>3. IsFiniteSet(1..n) /\ Cardinality(1..n) = n
  <2> HIDE DEF n
  <2> QED BY <1>2, FS_Interval
<1>4. \A i \in 1..n : \E c \in S : rank[c] = i
  <2>1. rank \in Injection(S, 1..n)
    <3> HIDE DEF rank, n
    <3>1. DOMAIN rank = S
      BY <1>2
    <3> QED BY <1>2, <3>1 DEF Injection, IsInjective
  <2>2. rank \in Surjection(S, 1..n)
    <3> HIDE DEF rank
    <3>1. Cardinality(S) = Cardinality(1..n)
      BY <1>3
    <3> QED BY <1>3, <2>1, <3>1, FS_Injection
  <2> HIDE DEF rank, n
  <2> QED BY <2>2 DEF Surjection
<1>5. ASSUME NEW i \in 1..n
      PROVE  list[i] \in S /\ rank[list[i]] = i
  <2>1. \E c \in S : Cardinality(Before(S, key, c)) = i - 1
    <3>1. PICK c \in S : rank[c] = i
      BY <1>4
    <3>2. Cardinality(Before(S, key, c)) \in Nat
      BY RankIs
    <3> QED BY <3>1, <3>2
  <2>2. list[i] \in S /\ Cardinality(Before(S, key, list[i])) = i - 1
    BY <1>1, <2>1
  <2>3. i \in Nat
    BY <1>2
  <2> HIDE DEF list
  <2> QED BY <2>2, <2>3
<1>10. ASSUME NEW c \in S, NEW d \in S, key[c] > key[d]
       PROVE  rank[d] <= rank[c]
  <2>1. key[c] \in Nat /\ key[d] \in Nat /\ \A e \in S : key[e] \in Nat
    OBVIOUS
  <2>2. Before(S, key, d) \subseteq Before(S, key, c)
    <3>1. ASSUME NEW e \in Before(S, key, d)
          PROVE  e \in Before(S, key, c)
      <4>1. e \in S /\ key[e] \in Nat /\ key[e] <= key[d]
        BY <2>1 DEF Before
      <4>2. key[e] < key[c]
        BY <1>10, <2>1, <4>1
      <4> QED BY <4>1, <4>2 DEF Before
    <3> QED BY <3>1
  <2>3. IsFiniteSet(Before(S, key, c))
    BY FS_Subset DEF Before
  <2>4. /\ Cardinality(Before(S, key, d)) <= Cardinality(Before(S, key, c))
        /\ Cardinality(Before(S, key, d)) \in Nat /\ Cardinality(Before(S, key, c)) \in Nat
    BY <2>2, <2>3, FS_Subset, RankIs
  <2> QED BY <2>4
<1>6. DOMAIN list = 1..n
  BY <1>1
<1> HIDE DEF list, rank, n
<1>7. list \in Seq(S)
  <2>1. list \in [1..n -> S]
    <3>1. list = [i \in 1..n |-> list[i]]
      BY <1>1
    <3> QED BY <1>5, <3>1
  <2> QED BY <1>2, <2>1
<1>8. ToSet(list) = S
  <2>1. ASSUME NEW c \in S
        PROVE  \E i \in DOMAIN list : list[i] = c
    <3>1. rank[c] \in 1..n
      BY <1>2
    <3>2. list[rank[c]] \in S /\ rank[list[rank[c]]] = rank[c]
      BY <1>5, <3>1
    <3> QED BY <1>2, <1>6, <3>1, <3>2
  <2> QED BY <1>5, <1>6, <2>1 DEF ToSet
<1>9. IsInjective(list)
  BY <1>5, <1>6 DEF IsInjective
<1>11. ASSUME NEW i \in DOMAIN list, NEW j \in DOMAIN list, i < j
       PROVE  key[list[i]] <= key[list[j]]
  <2>1. /\ i \in Nat /\ j \in Nat /\ list[i] \in S /\ list[j] \in S
        /\ rank[list[i]] = i /\ rank[list[j]] = j
    BY <1>2, <1>5, <1>6
  <2>2. key[list[i]] \in Nat /\ key[list[j]] \in Nat
    BY <2>1
  <2>3. key[list[i]] > key[list[j]] => rank[list[j]] <= rank[list[i]]
    BY <1>10, <2>1
  <2> QED BY <1>11, <2>1, <2>2, <2>3
<1> QED BY <1>7, <1>8, <1>9, <1>11 DEF list

\* The roots of a forest have no parents.
LEMMA RootsOfIs ==
    ASSUME NEW a, IsForest(a)
    PROVE  /\ RootsOf(a) \in Seq(Containers(a))
           /\ \A i \in DOMAIN RootsOf(a) : ParentOf(a, RootsOf(a)[i]) = 0
PROOF
<1> DEFINE R == {c \in 1..Size(a) : ParentOf(a, c) = 0 /\ FirstArticle(a, c) # 0}
           key == [c \in R |-> FirstArticle(a, c)]
<1>1. RootsOf(a) = SortedBy(R, key)
  BY DEF RootsOf
<1>2. R \subseteq Containers(a) /\ \A c \in R : ParentOf(a, c) = 0
  BY DEF Containers
<1>3. R \in SUBSET Nat /\ IsFiniteSet(R)
  <2>1. Size(a) \in Nat
    BY SizeIs DEF IsForest
  <2>2. IsFiniteSet(1..Size(a))
    BY <2>1, FS_Interval
  <2>3. R \in SUBSET (1..Size(a))
    OBVIOUS
  <2>4. 1..Size(a) \subseteq Nat
    BY <2>1
  <2> HIDE DEF R
  <2>5. IsFiniteSet(R)
    BY <2>2, <2>3, FS_Subset
  <2> QED BY <2>3, <2>4, <2>5
<1>4. \A c \in R : key[c] \in Nat
  BY <1>2, FirstArticleIs
<1> HIDE DEF R, key
<1>5. SortedBy(R, key) \in Seq(R)
  BY <1>3, <1>4, SortedByIs
<1> QED BY <1>1, <1>2, <1>5

-----------------------------------------------------------------------------
(* clamp_depth()                                                           *)

\* One level down.
NextLevel(a, above) == UNION {ToSet(ChildrenOf(a, c)) : c \in above}

\* A list of roots that have no parents.
Topmost(a, rs) ==
    /\ rs \in Seq(Containers(a))
    /\ \A i \in DOMAIN rs : ParentOf(a, rs[i]) = 0

\* The levels under the roots, each the children of the one above.
Levelled(a, rs, n, at) ==
    /\ AtLevel(a, rs, n) = at[n]
    /\ \A k \in 0..n : at[k] \in SUBSET Containers(a)
    /\ at[0] = ToSet(rs) /\ \A c \in at[0] : ParentOf(a, c) = 0
    /\ \A k \in 1..n : at[k] = {c \in Containers(a) : ParentOf(a, c) \in at[k - 1]}

\* The walk down from the roots, one level at a time (clamp_depth).
LEMMA LevelsAre ==
    ASSUME NEW a, IsForest(a), NEW rs, Topmost(a, rs), NEW n \in Nat
    PROVE  \E at : Levelled(a, rs, n, at)
PROOF
<1> DEFINE T == SUBSET Containers(a)
           F == [k \in 1..n |-> [above \in T |-> NextLevel(a, above)]]
<1>1. ToSet(rs) \in T /\ \A c \in ToSet(rs) : ParentOf(a, c) = 0
  BY DEF Topmost, ToSet
<1>2. \A x \in T : NextLevel(a, x) = {c \in Containers(a) : ParentOf(a, c) \in x}
  BY BelowIs DEF NextLevel
<1>3. \A k \in 1..n : \A x \in T : F[k][x] = NextLevel(a, x) /\ F[k][x] \in T
  BY <1>2
<1> HIDE DEF F
<1>4. PICK f \in [0..n -> T] : Walking!Iterates(f, F, ToSet(rs), n)
  <2> HIDE DEF T
  <2> QED BY <1>1, <1>3, Walking!IterationDefined
<1>5. ASSUME NEW k \in 0..n
      PROVE  f[k] = IF k = 0 THEN ToSet(rs) ELSE NextLevel(a, f[k - 1])
  <2>1. CASE k = 0
    BY <1>4, <2>1 DEF Walking!Iterates
  <2>2. CASE k # 0
    <3>1. k \in 1..n /\ k - 1 \in 0..n
      BY <2>2
    <3>2. f[k] = F[k][f[k - 1]] /\ f[k - 1] \in T
      BY <1>4, <3>1 DEF Walking!Iterates
    <3> QED BY <1>3, <2>2, <3>1, <3>2
  <2> QED BY <2>1, <2>2
<1>6. f = [k \in 0..n |-> IF k = 0 THEN ToSet(rs)
                         ELSE UNION {ToSet(ChildrenOf(a, c)) : c \in f[k - 1]}]
  BY <1>4, <1>5 DEF NextLevel
<1>7. PICK at : /\ at = [k \in 0..n |-> IF k = 0 THEN ToSet(rs)
                               ELSE UNION {ToSet(ChildrenOf(a, c)) : c \in at[k - 1]}]
                /\ AtLevel(a, rs, n) = at[n]
  BY <1>6 DEF AtLevel
<1>8. \A k \in 0..n : at[k] = IF k = 0 THEN ToSet(rs) ELSE NextLevel(a, at[k - 1])
  BY <1>7 DEF NextLevel
<1>9. /\ 0 \in 0..n
      /\ \A k \in 1..n : k \in 0..n /\ k # 0 /\ k - 1 \in 0..n
  OBVIOUS
<1>10. at[0] = ToSet(rs) /\ \A k \in 1..n : at[k] = NextLevel(a, at[k - 1])
  BY <1>8, <1>9
<1> DEFINE G == {k \in 0..n : at[k] \in T}
<1>11. 0..n \subseteq G
  <2>1. 0 \in G
    BY <1>1, <1>9, <1>10
  <2>2. ASSUME NEW k \in 1..n, k - 1 \in G PROVE k \in G
    BY <1>2, <1>9, <1>10, <2>2
  <2> HIDE DEF G
  <2> QED BY <2>1, <2>2, Walking!Upward
<1>12. \A k \in 0..n : at[k] \in SUBSET Containers(a)
  BY <1>11
<1>13. \A k \in 1..n : at[k] = {c \in Containers(a) : ParentOf(a, c) \in at[k - 1]}
  BY <1>2, <1>9, <1>10, <1>12
<1>14. Levelled(a, rs, n, at)
  BY <1>1, <1>7, <1>10, <1>12, <1>13 DEF Levelled
<1> QED BY <1>14

\* No container is on two levels.
LEMMA LevelsApart ==
    ASSUME NEW a, IsForest(a), NEW rs, NEW n \in Nat, NEW at, Levelled(a, rs, n, at),
           NEW j \in 0..n, NEW k \in 0..n, j < k, NEW x \in at[j], x \in at[k]
    PROVE  FALSE
PROOF
<1>1. /\ \A i \in 0..n : at[i] \in SUBSET Containers(a)
      /\ \A c \in at[0] : ParentOf(a, c) = 0
      /\ \A i \in 1..n : at[i] = {c \in Containers(a) : ParentOf(a, c) \in at[i - 1]}
  BY DEF Levelled
<1>2. 0 \notin Containers(a)
  BY SizeIs DEF IsForest
<1> DEFINE G == {i \in 0..n : \A m \in 0..n : i < m => at[i] \cap at[m] = {}}
<1>3. 0 \in G
  <2> SUFFICES ASSUME NEW m \in 0..n, 0 < m, NEW c \in at[0], c \in at[m] PROVE FALSE
    OBVIOUS
  <2>1. m \in 1..n /\ m - 1 \in 0..n
    OBVIOUS
  <2>2. ParentOf(a, c) \in at[m - 1] /\ ParentOf(a, c) = 0
    BY <1>1, <2>1
  <2> QED BY <1>1, <1>2, <2>1, <2>2
<1>4. ASSUME NEW i \in 1..n, i - 1 \in G PROVE i \in G
  <2> SUFFICES ASSUME NEW m \in 0..n, i < m, NEW c \in at[i], c \in at[m] PROVE FALSE
    OBVIOUS
  <2>1. m \in 1..n /\ m - 1 \in 0..n /\ i - 1 < m - 1
    OBVIOUS
  <2>2. ParentOf(a, c) \in at[m - 1] /\ ParentOf(a, c) \in at[i - 1]
    BY <1>1, <2>1
  <2> QED BY <1>4, <2>1, <2>2
<1>5. 0..n \subseteq G
  <2> HIDE DEF G
  <2> QED BY <1>3, <1>4, Walking!Upward
<1>6. j \in G
  BY <1>5
<1> QED BY <1>6

\* The adopters: containers of one level.
LEMMA LevelIs ==
    ASSUME NEW a, IsForest(a), NEW rs, Topmost(a, rs), NEW n \in Nat
    PROVE  /\ AtLevel(a, rs, n) \in SUBSET Containers(a)
           /\ \A c, x \in AtLevel(a, rs, n) : x \in Subtree(a, c) => x = c
PROOF
<1>1. PICK at : Levelled(a, rs, n, at)
  BY LevelsAre
<1>2. /\ \A i \in 0..n : at[i] \in SUBSET Containers(a)
      /\ \A c \in at[0] : ParentOf(a, c) = 0
      /\ \A i \in 1..n : at[i] = {c \in Containers(a) : ParentOf(a, c) \in at[i - 1]}
      /\ AtLevel(a, rs, n) = at[n] /\ n \in 0..n
  BY <1>1 DEF Levelled
<1>3. ASSUME NEW c \in at[n], NEW x \in at[n], x \in Subtree(a, c)
      PROVE  x = c
  <2> DEFINE T == Subtree(a, c)
             G == {i \in 0..n : \A y \in at[i] : y \in T => y = c}
  <2>1. /\ c \in Containers(a) /\ c \in T /\ T \subseteq Containers(a)
        /\ \A d \in T \ {c} : ParentOf(a, d) \in T
    BY <1>2, SubtreeIs
  <2>2. 0 \notin Containers(a)
    BY SizeIs DEF IsForest
  <2> HIDE DEF T
  <2>3. 0 \in G
    BY <1>2, <2>1, <2>2
  <2>4. ASSUME NEW i \in 1..n, i - 1 \in G PROVE i \in G
    <3> SUFFICES ASSUME NEW y \in at[i], y \in T, y # c PROVE FALSE
      OBVIOUS
    <3>1. ParentOf(a, y) \in T /\ ParentOf(a, y) \in at[i - 1]
      BY <1>2, <2>1
    <3>2. ParentOf(a, y) = c
      BY <2>4, <3>1
    <3>3. c \in at[i - 1] /\ i - 1 \in 0..n /\ i - 1 < n /\ n \in 0..n
      BY <3>1, <3>2
    <3> QED BY <1>1, <3>3, LevelsApart
  <2>5. 0..n \subseteq G
    <3> HIDE DEF G
    <3> QED BY <2>3, <2>4, Walking!Upward
  <2>6. n \in G
    BY <2>5
  <2> QED BY <1>3, <2>6 DEF T
<1> QED BY <1>2, <1>3

\* Nothing descends from two adopters.
LEMMA SubtreesApart ==
    ASSUME NEW a, IsForest(a), NEW c \in Containers(a), NEW d \in Containers(a),
           c \notin Subtree(a, d), d \notin Subtree(a, c)
    PROVE  Subtree(a, c) \cap Subtree(a, d) = {}
PROOF
<1> DEFINE X == Subtree(a, c) \cap Subtree(a, d)
<1> SUFFICES ASSUME X # {} PROVE FALSE
  OBVIOUS
<1>1. /\ Subtree(a, c) \subseteq Containers(a)
      /\ \A x \in Subtree(a, c) \ {c} : ParentOf(a, x) \in Subtree(a, c)
      /\ \A x \in Subtree(a, d) \ {d} : ParentOf(a, x) \in Subtree(a, d)
  BY SubtreeIs
<1>2. X \in SUBSET Containers(a) /\ \A x \in X : ParentOf(a, x) \in X
  BY <1>1
<1> HIDE DEF X
<1> QED BY <1>2 DEF IsForest, Rooted

\* What descends from a container, and what descends from one on the last level.
Descendants(a, c) == Subtree(a, c) \ {c}
Adopters(a, rs) == AtLevel(a, rs, LastLevel)
Adopted(a, rs) == UNION {Descendants(a, c) : c \in Adopters(a, rs)}

\* The arena after clamp_depth().
Flat(a, rs, b) ==
    /\ b = [containers |-> b.containers, by_id |-> a.by_id, by_article |-> a.by_article]
    /\ b.containers \in Seq(Containing) /\ Size(b) = Size(a)
    /\ \A c \in Adopters(a, rs) :
          /\ ParentOf(b, c) = ParentOf(a, c)
          /\ ToSet(ChildrenOf(b, c)) = Descendants(a, c) /\ IsInjective(ChildrenOf(b, c))
    /\ \A c \in Adopted(a, rs) :
          /\ ParentOf(b, c) \in Adopters(a, rs) /\ c \in Descendants(a, ParentOf(b, c))
          /\ ChildrenOf(b, c) = <<>>
    /\ \A c \in Containers(a) :
          c \notin Adopters(a, rs) \cup Adopted(a, rs) =>
              ParentOf(b, c) = ParentOf(a, c) /\ ChildrenOf(b, c) = ChildrenOf(a, c)

\* clamp_depth() gives what is below an adopter to the adopter.
LEMMA ClampedFlattens ==
    ASSUME NEW a, IsForest(a), NEW rs, Adopters(a, rs) \in SUBSET Containers(a),
           Adopters(a, rs) \cap Adopted(a, rs) = {}
    PROVE  Flat(a, rs, Clamped(a, rs))
PROOF
<1> DEFINE A == Adopters(a, rs)
           cs == a.containers
           by(c) == [d \in Descendants(a, c) |-> ArticleOf(a, d)]
           sorted(c) == SortedBy(Descendants(a, c), by(c))
           adopter(d) == CHOOSE c \in A : d \in Descendants(a, c)
           ds == [c \in 1..Size(a) |->
                    CASE c \in A -> [cs[c] EXCEPT !.children = sorted(c)]
                      [] c \in Adopted(a, rs) -> [cs[c] EXCEPT !.parent = adopter(c), !.children = <<>>]
                      [] OTHER -> cs[c]]
           b == Clamped(a, rs)
<1>1. ArenaTyped(a) /\ Size(a) \in Nat /\ cs \in Seq(Containing) /\ Len(cs) = Size(a)
  BY SizeIs DEF IsForest, ArenaTyped, Size
<1>2. b = [a EXCEPT !.containers = ds]
  BY DEF Clamped, Adopters, Adopted, Descendants
<1>3. /\ b = [containers |-> b.containers, by_id |-> a.by_id, by_article |-> a.by_article]
      /\ b.containers = ds
  <2>1. a = [containers |-> a.containers, by_id |-> a.by_id, by_article |-> a.by_article]
    BY <1>1 DEF ArenaTyped
  <2>2. DOMAIN a = {"containers", "by_id", "by_article"}
    BY <2>1
  <2> HIDE DEF b, ds
  <2>3. b = [f \in DOMAIN a |-> b[f]]
    BY <1>2, <2>2
  <2>4. b.containers = ds /\ b.by_id = a.by_id /\ b.by_article = a.by_article
    BY <1>2, <2>2
  <2> QED BY <2>2, <2>3, <2>4
<1> HIDE DEF b
<1>4. ASSUME NEW c \in A
      PROVE  sorted(c) \in Seq(Nat) /\ ToSet(sorted(c)) = Descendants(a, c) /\ IsInjective(sorted(c))
  <2> DEFINE S == Descendants(a, c)
             key == by(c)
  <2>1. S \subseteq Containers(a)
    BY SubtreeIs DEF Descendants
  <2>2. S \in SUBSET Nat /\ IsFiniteSet(S)
    <3>1. IsFiniteSet(1..Size(a)) /\ 1..Size(a) \subseteq Nat
      BY <1>1, FS_Interval
    <3> HIDE DEF S
    <3>2. S \in SUBSET (1..Size(a))
      BY <2>1 DEF Containers
    <3>3. IsFiniteSet(S)
      BY <3>1, <3>2, FS_Subset
    <3> QED BY <3>1, <3>2, <3>3
  <2>3. \A d \in S : key[d] \in Nat
    BY <1>1, <2>1, SizeIs
  <2> HIDE DEF S, key
  <2>4. SortedBy(S, key) \in Seq(S) /\ ToSet(SortedBy(S, key)) = S /\ IsInjective(SortedBy(S, key))
    BY <2>2, <2>3, SortedByIs
  <2>5. SortedBy(S, key) \in Seq(Nat)
    <3> DEFINE list == SortedBy(S, key)
    <3>1. list \in Seq(S) /\ S \subseteq Nat
      BY <2>2, <2>4
    <3> HIDE DEF list
    <3>2. Len(list) \in Nat /\ list \in [1..Len(list) -> S]
      BY <3>1
    <3>3. list \in [1..Len(list) -> Nat]
      BY <3>1, <3>2
    <3>4. list \in Seq(Nat)
      BY <3>2, <3>3
    <3> QED BY <3>4 DEF list
  <2> QED BY <2>4, <2>5 DEF S, key
<1>5. ASSUME NEW d \in Adopted(a, rs)
      PROVE  adopter(d) \in A /\ d \in Descendants(a, adopter(d)) /\ d \in Containers(a)
  <2>1. \E c \in A : d \in Descendants(a, c)
    BY DEF Adopted
  <2>2. adopter(d) \in A /\ d \in Descendants(a, adopter(d))
    BY <2>1
  <2> HIDE DEF adopter
  <2>3. adopter(d) \in Containers(a)
    BY <2>2
  <2>4. Subtree(a, adopter(d)) \subseteq Containers(a)
    BY <2>3, SubtreeIs
  <2> QED BY <2>2, <2>4 DEF Descendants
<1> HIDE DEF sorted, adopter
<1>6. \A c \in Containers(a) : cs[c] \in Containing /\ c \in Nat
  BY <1>1, SizeIs
<1>7. ASSUME NEW c \in A
      PROVE  /\ ds[c] \in Containing /\ ds[c].parent = cs[c].parent
             /\ ds[c].children = sorted(c)
  <2>1. c \in Containers(a) /\ cs[c] \in Containing
    BY <1>6
  <2>2. ds[c] = [cs[c] EXCEPT !.children = sorted(c)]
    BY <2>1 DEF Containers
  <2> HIDE DEF ds, A
  <2> QED BY <1>4, <2>1, <2>2 DEF Containing
<1>8. ASSUME NEW c \in Adopted(a, rs)
      PROVE  /\ ds[c] \in Containing /\ ds[c].parent = adopter(c)
             /\ ds[c].children = <<>>
  <2>1. c \in Containers(a) /\ c \notin A /\ cs[c] \in Containing
    BY <1>5, <1>6
  <2>2. ds[c] = [cs[c] EXCEPT !.parent = adopter(c), !.children = <<>>]
    BY <2>1 DEF Containers
  <2>3. adopter(c) \in Nat /\ <<>> \in Seq(Nat)
    <3>1. <<>> \in Seq(Nat)
      OBVIOUS
    <3>2. adopter(c) \in Containers(a)
      BY <1>5
    <3> QED BY <1>6, <3>1, <3>2
  <2> HIDE DEF ds, A
  <2> QED BY <2>1, <2>2, <2>3 DEF Containing
<1>9. ASSUME NEW c \in Containers(a), c \notin A \cup Adopted(a, rs)
      PROVE  ds[c] = cs[c]
  <2>1. c \notin A /\ c \notin Adopted(a, rs) /\ c \in 1..Size(a)
    BY <1>9 DEF Containers
  <2> HIDE DEF A
  <2> QED BY <2>1
<1>10. ds = [c \in 1..Size(a) |-> ds[c]]
  OBVIOUS
<1> HIDE DEF ds
<1>11. ds \in Seq(Containing) /\ Len(ds) = Size(a)
  <2>1. \A c \in 1..Size(a) : ds[c] \in Containing
    <3> HIDE DEF A
    <3>1. ASSUME NEW c \in 1..Size(a) PROVE ds[c] \in Containing
      <4>1. c \in Containers(a)
        BY DEF Containers
      <4> QED BY <1>6, <1>7, <1>8, <1>9, <4>1
    <3> QED BY <3>1
  <2>2. ds \in [1..Size(a) -> Containing]
    BY <1>10, <2>1
  <2> QED BY <1>1, <2>2, LenProperties
<1>12. Size(b) = Size(a) /\ b.containers \in Seq(Containing)
  BY <1>3, <1>11 DEF Size
<1>13. \A c : ParentOf(b, c) = ds[c].parent /\ ChildrenOf(b, c) = ds[c].children
  BY <1>3 DEF ParentOf, ChildrenOf
<1>14. \A c : ParentOf(a, c) = cs[c].parent /\ ChildrenOf(a, c) = cs[c].children
  BY DEF ParentOf, ChildrenOf
<1>15. \A c \in A :
          /\ ParentOf(b, c) = ParentOf(a, c)
          /\ ToSet(ChildrenOf(b, c)) = Descendants(a, c) /\ IsInjective(ChildrenOf(b, c))
  <2> SUFFICES ASSUME NEW c \in A
               PROVE  /\ ParentOf(b, c) = ParentOf(a, c)
                      /\ ToSet(ChildrenOf(b, c)) = Descendants(a, c) /\ IsInjective(ChildrenOf(b, c))
    OBVIOUS
  <2>1. ChildrenOf(b, c) = sorted(c) /\ ParentOf(b, c) = ParentOf(a, c)
    BY <1>7, <1>13, <1>14
  <2> QED BY <1>4, <2>1
<1>16. \A c \in Adopted(a, rs) :
          /\ ParentOf(b, c) \in A /\ c \in Descendants(a, ParentOf(b, c))
          /\ ChildrenOf(b, c) = <<>>
  BY <1>5, <1>8, <1>13
<1>17. \A c \in Containers(a) : c \notin A \cup Adopted(a, rs) =>
          ParentOf(b, c) = ParentOf(a, c) /\ ChildrenOf(b, c) = ChildrenOf(a, c)
  BY <1>9, <1>13, <1>14
<1> QED BY <1>3, <1>12, <1>15, <1>16, <1>17 DEF Flat, b

(***************************************************************************)
(* Flattening what lies below one level leaves a forest.                   *)
(***************************************************************************)
LEMMA ClampedKeeps ==
    ASSUME NEW a, IsForest(a), NEW rs, Topmost(a, rs)
    PROVE  LET b == Clamped(a, rs)
           IN  /\ IsForest(b) /\ Size(b) = Size(a)
               /\ b.by_article = a.by_article /\ b.by_id = a.by_id
               /\ \A c \in Containers(a) :
                     \/ ParentOf(b, c) = ParentOf(a, c)
                     \/ ParentOf(b, c) \in Containers(a) /\ c \in Subtree(a, ParentOf(b, c))
PROOF
<1> DEFINE A == Adopters(a, rs)
           D == Adopted(a, rs)
           All == Containers(a)
           b == Clamped(a, rs)
<1>1. A \in SUBSET All /\ \A c, x \in A : x \in Subtree(a, c) => x = c
  <2>1. LastLevel \in Nat
    BY ThreadsAssumption DEF LastLevel
  <2> QED BY <2>1, LevelIs DEF Adopters
<1>2. \A c \in A : /\ c \in Subtree(a, c) /\ Subtree(a, c) \subseteq All
                   /\ \A d \in All : ParentOf(a, d) \in Subtree(a, c) => d \in Subtree(a, c)
                   /\ \A d \in Subtree(a, c) \ {c} : ParentOf(a, d) \in Subtree(a, c)
                   /\ ParentOf(a, c) \notin Subtree(a, c)
  BY <1>1, SubtreeIs, ApartFromBelow
<1>3. \A d : d \in D <=> \E c \in A : d \in Subtree(a, c) /\ d # c
  BY DEF Adopted, Descendants
<1>4. A \cap D = {} /\ D \subseteq All
  BY <1>1, <1>2, <1>3
<1>5. \A c, x \in A : \A d : d \in Subtree(a, c) /\ d \in Subtree(a, x) => c = x
  <2> SUFFICES ASSUME NEW c \in A, NEW x \in A, c # x
               PROVE  Subtree(a, c) \cap Subtree(a, x) = {}
    OBVIOUS
  <2> QED BY <1>1, SubtreesApart
<1>6. Flat(a, rs, b)
  BY <1>1, <1>4, ClampedFlattens
<1> HIDE DEF b, A, D, All
<1>7. /\ b = [containers |-> b.containers, by_id |-> a.by_id, by_article |-> a.by_article]
      /\ b.containers \in Seq(Containing) /\ Size(b) = Size(a)
      /\ \A c \in A : /\ ParentOf(b, c) = ParentOf(a, c)
                      /\ ToSet(ChildrenOf(b, c)) = Subtree(a, c) \ {c}
                      /\ IsInjective(ChildrenOf(b, c))
      /\ \A c \in D : /\ ParentOf(b, c) \in A /\ c \in Subtree(a, ParentOf(b, c)) \ {ParentOf(b, c)}
                      /\ ChildrenOf(b, c) = <<>>
      /\ \A c \in All : c \notin A \cup D =>
              ParentOf(b, c) = ParentOf(a, c) /\ ChildrenOf(b, c) = ChildrenOf(a, c)
  BY <1>6 DEF Flat, A, D, All, Descendants
<1>8. /\ Containers(b) = All /\ b.by_id = a.by_id /\ b.by_article = a.by_article
  BY <1>7 DEF Containers, All
<1>9. /\ ArenaTyped(a) /\ Rooted(a)
      /\ \A c \in All : /\ ToSet(ChildrenOf(a, c)) = {d \in All : ParentOf(a, d) = c}
                        /\ IsInjective(ChildrenOf(a, c))
                        /\ ParentOf(a, c) \in {0} \cup All /\ c # 0
  BY SizeIs DEF IsForest, Agreeing, ArenaTyped, All
\* What keeps its parent has one that is not flattened.
<1>10. ASSUME NEW c \in All \ D
       PROVE  ParentOf(b, c) = ParentOf(a, c) /\ ParentOf(a, c) \notin D
  <2>1. ParentOf(b, c) = ParentOf(a, c)
    BY <1>7
  <2>2. ASSUME ParentOf(a, c) \in D PROVE FALSE
    <3>1. PICK x \in A : ParentOf(a, c) \in Subtree(a, x) /\ ParentOf(a, c) # x
      BY <1>3, <2>2
    <3>2. c \in Subtree(a, x)
      BY <1>2, <3>1
    <3>3. c = x
      BY <1>3, <3>2
    <3> QED BY <1>2, <3>1, <3>3
  <2> QED BY <2>1, <2>2
<1>11. ArenaTyped(b)
  <2>1. \A c \in All : ParentOf(b, c) \in {0} \cup All
    BY <1>1, <1>7, <1>9, <1>10
  <2> QED BY <1>7, <1>8, <1>9, <2>1 DEF ArenaTyped, All
<1>12. Rooted(b)
  <2> SUFFICES ASSUME NEW S \in SUBSET All, S # {}, \A c \in S : ParentOf(b, c) \in S
               PROVE  FALSE
    BY <1>8 DEF Rooted
  <2> DEFINE X == S \ D
  <2>1. \A c \in X : ParentOf(a, c) \in X
    BY <1>10
  <2>2. X # {}
    <3>1. PICK c \in S : TRUE
      OBVIOUS
    <3>2. CASE c \in D
      <4>1. ParentOf(b, c) \in A /\ ParentOf(b, c) \in S
        BY <1>7, <3>2
      <4> QED BY <1>4, <4>1
    <3> QED BY <3>1, <3>2
  <2>3. X \in SUBSET All
    OBVIOUS
  <2> HIDE DEF X
  <2> QED BY <1>9, <2>1, <2>2, <2>3 DEF Rooted, All
<1>13. Agreeing(b)
  <2> SUFFICES ASSUME NEW c \in All
               PROVE  /\ ToSet(ChildrenOf(b, c)) = {d \in All : ParentOf(b, d) = c}
                      /\ IsInjective(ChildrenOf(b, c))
    BY <1>8 DEF Agreeing
  <2>1. CASE c \in A
    <3>1. ASSUME NEW d \in All, ParentOf(b, d) = c
          PROVE  d \in Subtree(a, c) \ {c}
      <4>1. CASE d \in D
        BY <1>7, <3>1, <4>1
      <4>2. CASE d \notin D
        <5>1. ParentOf(a, d) = c
          BY <1>10, <3>1, <4>2
        <5>2. d \in Subtree(a, c) /\ d # c
          BY <1>2, <2>1, <5>1
        <5> QED BY <5>2
      <4> QED BY <4>1, <4>2
    <3>2. ASSUME NEW d \in Subtree(a, c) \ {c}
          PROVE  d \in All /\ ParentOf(b, d) = c
      <4>1. d \in D /\ d \in All
        BY <1>3, <1>4, <2>1
      <4>2. ParentOf(b, d) \in A /\ d \in Subtree(a, ParentOf(b, d))
        BY <1>7, <4>1
      <4> QED BY <1>5, <2>1, <4>1, <4>2
    <3> QED BY <1>7, <2>1, <3>1, <3>2
  <2>2. CASE c \in D
    <3>1. {d \in All : ParentOf(b, d) = c} = {}
      <4> SUFFICES ASSUME NEW d \in All, ParentOf(b, d) = c PROVE FALSE
        OBVIOUS
      <4>1. CASE d \in D
        BY <1>4, <1>7, <2>2, <4>1
      <4>2. CASE d \notin D
        BY <1>10, <2>2, <4>2
      <4> QED BY <4>1, <4>2
    <3>2. ChildrenOf(b, c) = <<>> /\ DOMAIN <<>> = {}
      BY <1>7, <2>2
    <3>3. ToSet(<<>>) = {}
      BY <3>2 DEF ToSet
    <3>4. IsInjective(<<>>)
      BY <3>2 DEF IsInjective
    <3> QED BY <3>1, <3>2, <3>3, <3>4
  <2>3. CASE c \notin A \cup D
    <3>1. ChildrenOf(b, c) = ChildrenOf(a, c)
      BY <1>7, <2>3
    <3>2. ASSUME NEW d \in All
          PROVE  ParentOf(b, d) = c <=> ParentOf(a, d) = c
      <4>1. CASE d \notin D
        BY <1>10, <4>1
      <4>2. CASE d \in D
        <5>1. ParentOf(b, d) # c
          BY <1>7, <2>3, <4>2
        <5>2. PICK x \in A : d \in Subtree(a, x) /\ d # x
          BY <1>3, <4>2
        <5>3. ParentOf(a, d) \in Subtree(a, x)
          BY <1>2, <5>2
        <5>4. ParentOf(a, d) # c
          BY <1>3, <2>3, <5>3
        <5> QED BY <5>1, <5>4
      <4> QED BY <4>1, <4>2
    <3>3. {d \in All : ParentOf(b, d) = c} = {d \in All : ParentOf(a, d) = c}
      BY <3>2
    <3> QED BY <1>9, <3>1, <3>3
  <2> QED BY <2>1, <2>2, <2>3
<1>14. \A c \in All :
          \/ ParentOf(b, c) = ParentOf(a, c)
          \/ ParentOf(b, c) \in All /\ c \in Subtree(a, ParentOf(b, c))
  BY <1>1, <1>7
<1> QED BY <1>7, <1>8, <1>11, <1>12, <1>13, <1>14 DEF IsForest, b, All

-----------------------------------------------------------------------------
(* thread()                                                                *)

\* What Vec::retain leaves are elements that were not merged.
LEMMA UnmergedIs ==
    ASSUME NEW T, NEW cs \in Seq(T), NEW merged
    PROVE  Unmerged(cs, merged) \in Seq(T \ merged)
PROOF
<1> DEFINE kept == {i \in DOMAIN cs : cs[i] \notin merged}
           key == [i \in kept |-> i]
           order == SortedBy(kept, key)
           R == T \ merged
<1>1. Unmerged(cs, merged) = [j \in DOMAIN order |-> cs[order[j]]]
  BY DEF Unmerged
<1>2. Len(cs) \in Nat /\ kept \in SUBSET (1..Len(cs)) /\ kept \in SUBSET Nat
  OBVIOUS
<1>3. IsFiniteSet(kept)
  <2>1. IsFiniteSet(1..Len(cs))
    BY <1>2, FS_Interval
  <2> HIDE DEF kept
  <2> QED BY <1>2, <2>1, FS_Subset
<1>4. \A i \in kept : key[i] \in Nat
  BY <1>2
<1>5. \A i \in kept : cs[i] \in R
  OBVIOUS
<1> HIDE DEF kept, key, R
<1>6. order \in Seq(kept)
  BY <1>2, <1>3, <1>4, SortedByIs
<1> HIDE DEF order
<1>7. Len(order) \in Nat /\ DOMAIN order = 1..Len(order) /\ \A j \in 1..Len(order) : order[j] \in kept
  BY <1>6
<1>8. [j \in 1..Len(order) |-> cs[order[j]]] \in [1..Len(order) -> R]
  BY <1>5, <1>7
<1>9. [j \in 1..Len(order) |-> cs[order[j]]] \in Seq(R)
  BY <1>7, <1>8
<1> QED BY <1>1, <1>7, <1>9 DEF R

Phases == {"insert", "link", "roots", "group", "clamp", "build", "done"}

Walks == [phase : Phases, record : Nat, reference : Nat, previous : Nat]

\* Where thread() is: what it has inserted, and the reference it comes from.
WalkInv ==
    /\ Len(records) \in Nat
    /\ walk \in Walks
    /\ walk.phase = "insert" => Len(arena.by_article) + 1 = walk.record
    /\ walk.phase = "insert" => walk.record <= Len(records) + 1
    /\ walk.phase = "link" =>
          /\ Len(arena.by_article) = Len(records) /\ walk.record # 0
          /\ walk.previous \in {0} \cup Containers(arena)

\* The roots and the holders are containers; a root with a parent was merged,
\* until the merged ones are taken out.
RootsInv ==
    /\ subjects = [holders |-> subjects.holders, merged |-> subjects.merged]
    /\ walk.phase \in {"insert", "link", "roots"} => subjects.holders = <<>>
    /\ walk.phase = "group" =>
          /\ roots \in Seq(Containers(arena))
          /\ \A s \in DOMAIN subjects.holders : subjects.holders[s] \in Containers(arena)
          /\ \A i \in DOMAIN roots : roots[i] \in subjects.merged \/ ParentOf(arena, roots[i]) = 0
          /\ walk.record # 0
    /\ walk.phase = "clamp" => Topmost(arena, roots)

ThreadInv == IsForest(arena) /\ WalkInv /\ RootsInv

\* thread() starts from an empty arena (Arena::default).
LEMMA NewArenaIsForest == IsForest(NewArena) /\ Len(NewArena.by_article) = 0
PROOF
<1> DEFINE a == NewArena
<1>1. /\ a = [containers |-> a.containers, by_id |-> a.by_id, by_article |-> a.by_article]
      /\ a.containers = <<>> /\ a.by_id = <<>> /\ a.by_article = <<>>
  BY DEF NewArena
<1> HIDE DEF a
<1>2. Len(<<>>) = 0 /\ DOMAIN <<>> = {} /\ \A T : <<>> \in Seq(T)
  OBVIOUS
<1>3. Size(a) = 0 /\ Containers(a) = {}
  BY <1>1, <1>2 DEF Size, Containers
<1>4. ArenaTyped(a)
  <2>1. a.by_id = [id \in DOMAIN a.by_id |-> a.by_id[id]]
    BY <1>1, <1>2
  <2> QED BY <1>1, <1>2, <1>3, <2>1 DEF ArenaTyped
<1>5. Rooted(a) /\ Agreeing(a)
  BY <1>3 DEF Rooted, Agreeing
<1> QED BY <1>1, <1>2, <1>4, <1>5 DEF IsForest, a

\* The invariant holds before the first record.
LEMMA ThreadStarts == ThreadInit => ThreadInv
PROOF
<1> SUFFICES ASSUME ThreadInit PROVE ThreadInv
  OBVIOUS
<1>1. /\ arena = NewArena /\ records \in ThreadInputs
      /\ walk = [phase |-> "insert", record |-> 1, reference |-> 1, previous |-> 0]
      /\ subjects = [holders |-> <<>>, merged |-> {}]
  BY DEF ThreadInit
<1>2. IsForest(arena) /\ Len(arena.by_article) = 0
  BY <1>1, NewArenaIsForest
<1>3. Len(records) \in Nat
  BY <1>1, ThreadInputsAssumption
<1>4. WalkInv
  BY <1>1, <1>2, <1>3 DEF WalkInv, Walks, Phases
<1>5. RootsInv
  <2>1. subjects.holders = <<>> /\ subjects.merged = {} /\ walk.phase = "insert"
    BY <1>1
  <2> QED BY <1>1, <2>1 DEF RootsInv
<1> QED BY <1>2, <1>4, <1>5 DEF ThreadInv

\* Arena::insert() keeps the forest and counts the record.
LEMMA InsertRecordKeeps == ThreadInv /\ InsertRecord => ThreadInv'
PROOF
<1> SUFFICES ASSUME ThreadInv, InsertRecord PROVE ThreadInv'
  OBVIOUS
<1>1. /\ walk.phase = "insert" /\ walk.record <= Len(records)
      /\ arena' = Inserted(arena, walk.record, records[walk.record].id)
      /\ walk' = IF walk.record = Len(records)
                 THEN [phase |-> "link", record |-> 1, reference |-> 1, previous |-> 0]
                 ELSE [walk EXCEPT !.record = @ + 1]
      /\ UNCHANGED <<records, roots, subjects, forest>>
  BY DEF InsertRecord
<1>2. /\ IsForest(arena) /\ Len(records) \in Nat /\ walk \in Walks
      /\ Len(arena.by_article) + 1 = walk.record
      /\ walk.record \in Nat
  BY <1>1 DEF ThreadInv, WalkInv, Walks
<1>3. IsForest(arena') /\ Len(arena'.by_article) = Len(arena.by_article) + 1
  BY <1>1, <1>2, InsertedKeeps
<1>4. CASE walk.record = Len(records)
  <2>1. walk' = [phase |-> "link", record |-> 1, reference |-> 1, previous |-> 0]
    BY <1>1, <1>4
  <2>2. WalkInv'
    BY <1>1, <1>2, <1>3, <1>4, <2>1 DEF WalkInv, Walks, Phases
  <2>3. RootsInv'
    BY <1>1, <2>1 DEF ThreadInv, RootsInv
  <2> QED BY <1>3, <2>2, <2>3 DEF ThreadInv
<1>5. CASE walk.record # Len(records)
  <2>1. /\ walk' = [walk EXCEPT !.record = @ + 1] /\ walk' \in Walks
        /\ walk'.phase = "insert" /\ walk'.record = walk.record + 1
    BY <1>1, <1>2, <1>5 DEF Walks
  <2>2. WalkInv'
    BY <1>1, <1>2, <1>3, <1>5, <2>1 DEF WalkInv
  <2>3. RootsInv'
    BY <1>1, <2>1 DEF ThreadInv, RootsInv
  <2> QED BY <1>3, <2>2, <2>3 DEF ThreadInv
<1> QED BY <1>4, <1>5

\* One reference keeps the forest.
LEMMA LinkReferenceKeeps == ThreadInv /\ LinkReference => ThreadInv'
PROOF
<1> SUFFICES ASSUME ThreadInv, LinkReference PROVE ThreadInv'
  OBVIOUS
<1> DEFINE id == References[walk.reference]
<1>1. /\ walk.phase = "link"
      /\ arena' = Referred(arena, walk.previous, id)
      /\ walk' = [walk EXCEPT !.reference = @ + 1, !.previous = arena'.by_id[id]]
      /\ UNCHANGED <<records, roots, subjects, forest>>
  BY DEF LinkReference, Linking
<1> HIDE DEF id
<1>2. /\ IsForest(arena) /\ Len(records) \in Nat /\ walk \in Walks
      /\ Len(arena.by_article) = Len(records) /\ walk.record # 0
      /\ walk.previous \in {0} \cup Containers(arena)
  BY <1>1 DEF ThreadInv, WalkInv
<1>3. /\ IsForest(arena') /\ arena'.by_article = arena.by_article
      /\ arena'.by_id[id] \in Containers(arena')
  BY <1>1, <1>2, ReferredKeeps
<1>4. arena'.by_id[id] \in Nat
  BY <1>3, SizeIs DEF IsForest
<1>5. /\ walk' \in Walks /\ walk'.phase = "link" /\ walk'.record = walk.record
      /\ walk'.previous = arena'.by_id[id]
  <2> DEFINE reached == arena'.by_id[id]
  <2>1. walk' = [walk EXCEPT !.reference = @ + 1, !.previous = reached] /\ reached \in Nat
    BY <1>1, <1>4
  <2> HIDE DEF reached
  <2>2. /\ walk' \in Walks /\ walk'.phase = "link" /\ walk'.record = walk.record
        /\ walk'.previous = reached
    <3>1. /\ walk = [phase |-> walk.phase, record |-> walk.record,
                    reference |-> walk.reference, previous |-> walk.previous]
          /\ walk.phase \in Phases /\ walk.record \in Nat /\ walk.reference \in Nat
      BY <1>2 DEF Walks
    <3>2. walk' = [phase |-> "link", record |-> walk.record,
                   reference |-> walk.reference + 1, previous |-> reached]
      <4>1. DOMAIN walk = {"phase", "record", "reference", "previous"}
        BY <3>1
      <4>2. walk' = [f \in DOMAIN walk |-> walk'[f]]
        BY <2>1, <4>1
      <4>3. /\ walk'.phase = "link" /\ walk'.record = walk.record
            /\ walk'.reference = walk.reference + 1 /\ walk'.previous = reached
        BY <1>1, <2>1, <4>1
      <4> QED BY <4>1, <4>2, <4>3
    <3>3. "link" \in Phases
      BY DEF Phases
    <3>4. walk.record \in Nat /\ walk.reference + 1 \in Nat
      BY <3>1
    <3>5. walk' \in Walks
      <4> DEFINE here == walk.record
                 next == walk.reference + 1
      <4>1. /\ walk' = [phase |-> "link", record |-> here, reference |-> next, previous |-> reached]
            /\ here \in Nat /\ next \in Nat
        BY <3>2, <3>4
      <4> HIDE DEF here, next
      <4> QED BY <2>1, <3>3, <4>1 DEF Walks
    <3>6. walk'.phase = "link" /\ walk'.record = walk.record /\ walk'.previous = reached
      BY <3>2
    <3> QED BY <3>5, <3>6
  <2> QED BY <2>2 DEF reached
<1>6. WalkInv'
  BY <1>1, <1>2, <1>3, <1>5 DEF WalkInv
<1>7. RootsInv'
  BY <1>1, <1>5 DEF ThreadInv, RootsInv
<1> QED BY <1>3, <1>6, <1>7 DEF ThreadInv

\* The last link of a record keeps the forest.
LEMMA LinkChildKeeps == ThreadInv /\ LinkChild => ThreadInv'
PROOF
<1> SUFFICES ASSUME ThreadInv, LinkChild PROVE ThreadInv'
  OBVIOUS
<1>1. /\ walk.phase = "link" /\ walk.record <= Len(records)
      /\ arena' = Attached(arena, walk.record, walk.previous)
      /\ walk' = [phase |-> IF walk.record = Len(records) THEN "roots" ELSE "link",
                  record |-> walk.record + 1, reference |-> 1, previous |-> 0]
      /\ UNCHANGED <<records, roots, subjects, forest>>
  BY DEF LinkChild, Linking
<1>2. /\ IsForest(arena) /\ Len(records) \in Nat /\ walk.record \in Nat
      /\ Len(arena.by_article) = Len(records) /\ walk.record # 0
      /\ walk.previous \in {0} \cup Containers(arena)
  BY <1>1 DEF ThreadInv, WalkInv, Walks
<1>3. walk.record \in DOMAIN arena.by_article
  <2>1. arena.by_article \in Seq(Containers(arena))
    BY <1>2 DEF IsForest, ArenaTyped
  <2> QED BY <1>1, <1>2, <2>1
<1>4. IsForest(arena') /\ arena'.by_article = arena.by_article
  BY <1>1, <1>2, <1>3, AttachedKeeps
<1>5. /\ walk' \in Walks /\ walk'.phase \in {"roots", "link"} /\ walk'.record = walk.record + 1
      /\ walk'.previous = 0
  BY <1>1, <1>2 DEF Walks, Phases
<1>6. WalkInv'
  BY <1>1, <1>2, <1>4, <1>5 DEF WalkInv
<1>7. RootsInv'
  BY <1>1, <1>5 DEF ThreadInv, RootsInv
<1> QED BY <1>4, <1>6, <1>7 DEF ThreadInv

\* roots() takes containers without parents.
LEMMA CollectRootsKeeps == ThreadInv /\ CollectRoots => ThreadInv'
PROOF
<1> SUFFICES ASSUME ThreadInv, CollectRoots PROVE ThreadInv'
  OBVIOUS
<1>1. /\ walk.phase = "roots" /\ roots' = RootsOf(arena)
      /\ walk' = [walk EXCEPT !.phase = "group", !.record = 1]
      /\ UNCHANGED <<records, arena, subjects, forest>>
  BY DEF CollectRoots
<1>2. /\ IsForest(arena) /\ Len(records) \in Nat /\ walk \in Walks
      /\ subjects = [holders |-> subjects.holders, merged |-> subjects.merged]
      /\ subjects.holders = <<>>
  BY <1>1 DEF ThreadInv, WalkInv, RootsInv
<1>3. walk' \in Walks /\ walk'.phase = "group" /\ walk'.record = 1
  BY <1>1, <1>2 DEF Walks, Phases
<1>4. WalkInv'
  BY <1>1, <1>2, <1>3 DEF WalkInv
<1>5. /\ roots' \in Seq(Containers(arena))
      /\ \A i \in DOMAIN roots' : ParentOf(arena, roots'[i]) = 0
  BY <1>1, <1>2, RootsOfIs
<1>6. DOMAIN <<>> = {}
  OBVIOUS
<1>7. RootsInv'
  BY <1>1, <1>2, <1>3, <1>5, <1>6 DEF RootsInv
<1> QED BY <1>1, <1>2, <1>4, <1>7 DEF ThreadInv

\* group_by_subject() keeps the forest, and notes the root it put under another.
LEMMA GroupRootKeeps == ThreadInv /\ GroupRoot => ThreadInv'
PROOF
<1> SUFFICES ASSUME ThreadInv, GroupRoot PROVE ThreadInv'
  OBVIOUS
<1> DEFINE id == roots[walk.record]
           subject == NormaliseSubject(SubjectOf(id))
           hold(c) == [s \in DOMAIN subjects.holders \cup {subject} |->
                         IF s = subject THEN c ELSE subjects.holders[s]]
           holder == subjects.holders[subject]
           parent == IF Holds(holder, id) THEN holder ELSE id
           child == IF Holds(holder, id) THEN id ELSE holder
<1>1. /\ walk.phase = "group" /\ walk.record <= Len(roots)
      /\ \/ UNCHANGED <<arena, subjects>>
         \/ /\ subject \notin DOMAIN subjects.holders
            /\ subjects' = [subjects EXCEPT !.holders = hold(id)]
            /\ UNCHANGED arena
         \/ /\ subject \in DOMAIN subjects.holders
            /\ arena' = SetParent(arena, child, parent)
            /\ subjects' = [holders |-> hold(parent),
                            merged |-> subjects.merged \cup {child}]
      /\ walk' = [walk EXCEPT !.record = @ + 1]
      /\ UNCHANGED <<records, roots, forest>>
  BY DEF GroupRoot
<1> HIDE DEF subject
<1>2. /\ IsForest(arena) /\ Len(records) \in Nat /\ walk \in Walks /\ walk.record \in Nat
      /\ subjects = [holders |-> subjects.holders, merged |-> subjects.merged]
      /\ roots \in Seq(Containers(arena))
      /\ \A s \in DOMAIN subjects.holders : subjects.holders[s] \in Containers(arena)
      /\ \A i \in DOMAIN roots : roots[i] \in subjects.merged \/ ParentOf(arena, roots[i]) = 0
      /\ walk.record # 0
  BY <1>1 DEF ThreadInv, WalkInv, RootsInv, Walks
<1>3. id \in Containers(arena)
  BY <1>1, <1>2
<1>4. walk' \in Walks /\ walk'.phase = "group" /\ walk'.record = walk.record + 1
  BY <1>1, <1>2 DEF Walks
<1>5. WalkInv'
  BY <1>1, <1>2, <1>4 DEF WalkInv
<1>6. ASSUME NEW c \in Containers(arena)
      PROVE  \A s \in DOMAIN hold(c) : hold(c)[s] \in Containers(arena)
  BY <1>2
<1> HIDE DEF id, hold, holder
<1>7. CASE UNCHANGED <<arena, subjects>>
  <2>1. RootsInv'
    BY <1>1, <1>2, <1>4, <1>7 DEF RootsInv
  <2> QED BY <1>2, <1>5, <1>7, <2>1 DEF ThreadInv
<1>8. CASE /\ subjects' = [subjects EXCEPT !.holders = hold(id)]
           /\ UNCHANGED arena
  <2>1. subjects' = [holders |-> hold(id), merged |-> subjects.merged]
    BY <1>2, <1>8
  <2>2. subjects'.holders = hold(id) /\ subjects'.merged = subjects.merged
    BY <2>1
  <2>3. RootsInv'
    BY <1>1, <1>2, <1>3, <1>4, <1>6, <1>8, <2>1, <2>2 DEF RootsInv
  <2> QED BY <1>2, <1>5, <1>8, <2>3 DEF ThreadInv
<1>9. CASE /\ subject \in DOMAIN subjects.holders
           /\ arena' = SetParent(arena, child, parent)
           /\ subjects' = [holders |-> hold(parent), merged |-> subjects.merged \cup {child}]
  <2>1. holder \in Containers(arena)
    BY <1>2, <1>9 DEF holder
  <2>2. child \in Containers(arena) /\ parent \in Containers(arena)
    BY <1>3, <2>1
  <2> HIDE DEF child, parent
  <2>3. /\ IsForest(arena') /\ Size(arena') = Size(arena)
        /\ \A c \in Containers(arena) \ {child} : ParentOf(arena', c) = ParentOf(arena, c)
    BY <1>2, <1>9, <2>2, SetParentKeeps
  <2>4. Containers(arena') = Containers(arena)
    BY <2>3 DEF Containers
  <2>5. subjects'.holders = hold(parent) /\ subjects'.merged = subjects.merged \cup {child}
    BY <1>9
  <2>6. \A i \in DOMAIN roots : roots[i] \in subjects'.merged \/ ParentOf(arena', roots[i]) = 0
    <3>1. \A i \in DOMAIN roots : roots[i] \in Containers(arena)
      BY <1>2
    <3> QED BY <1>2, <2>3, <2>5, <3>1
  <2>7. RootsInv'
    BY <1>1, <1>2, <1>4, <1>6, <1>9, <2>2, <2>4, <2>5, <2>6 DEF RootsInv
  <2> QED BY <1>5, <2>3, <2>7 DEF ThreadInv
<1> QED BY <1>1, <1>7, <1>8, <1>9

\* What is left of the roots has no parents.
LEMMA RetainRootsKeeps == ThreadInv /\ RetainRoots => ThreadInv'
PROOF
<1> SUFFICES ASSUME ThreadInv, RetainRoots PROVE ThreadInv'
  OBVIOUS
<1>1. /\ walk.phase = "group" /\ roots' = Unmerged(roots, subjects.merged)
      /\ walk' = [walk EXCEPT !.phase = "clamp"]
      /\ UNCHANGED <<records, arena, subjects, forest>>
  BY DEF RetainRoots
<1>2. /\ IsForest(arena) /\ Len(records) \in Nat /\ walk \in Walks
      /\ subjects = [holders |-> subjects.holders, merged |-> subjects.merged]
      /\ roots \in Seq(Containers(arena))
      /\ \A i \in DOMAIN roots : roots[i] \in subjects.merged \/ ParentOf(arena, roots[i]) = 0
  BY <1>1 DEF ThreadInv, WalkInv, RootsInv
<1>3. walk' \in Walks /\ walk'.phase = "clamp"
  BY <1>1, <1>2 DEF Walks, Phases
<1>4. WalkInv'
  BY <1>1, <1>2, <1>3 DEF WalkInv
<1>5. Topmost(arena, roots')
  <2> DEFINE T == {c \in Containers(arena) : c \in subjects.merged \/ ParentOf(arena, c) = 0}
             kept == Unmerged(roots, subjects.merged)
  <2>1. roots \in Seq(T)
    <3>1. Len(roots) \in Nat /\ \A i \in 1..Len(roots) : roots[i] \in T
      BY <1>2
    <3>2. roots \in [1..Len(roots) -> T]
      <4> HIDE DEF T
      <4> QED BY <1>2, <3>1
    <3> HIDE DEF T
    <3> QED BY <3>1, <3>2
  <2>2. kept \in Seq(T \ subjects.merged)
    <3> HIDE DEF T
    <3> QED BY <2>1, UnmergedIs
  <2> DEFINE R == T \ subjects.merged
  <2>3. \A c \in R : c \in Containers(arena) /\ ParentOf(arena, c) = 0
    OBVIOUS
  <2>4. kept \in Seq(R)
    BY <2>2
  <2> HIDE DEF R, kept
  <2>5. kept \in Seq(Containers(arena)) /\ \A i \in DOMAIN kept : ParentOf(arena, kept[i]) = 0
    BY <2>3, <2>4
  <2> QED BY <1>1, <2>5 DEF Topmost, kept
<1>6. RootsInv'
  BY <1>1, <1>2, <1>3, <1>5 DEF RootsInv
<1> QED BY <1>1, <1>2, <1>4, <1>6 DEF ThreadInv

\* clamp_depth() keeps the forest.
LEMMA ClampDepthKeeps == ThreadInv /\ ClampDepth => ThreadInv'
PROOF
<1> SUFFICES ASSUME ThreadInv, ClampDepth PROVE ThreadInv'
  OBVIOUS
<1>1. /\ walk.phase = "clamp" /\ arena' = Clamped(arena, roots)
      /\ walk' = [walk EXCEPT !.phase = "build", !.record = 1]
      /\ UNCHANGED <<records, roots, subjects, forest>>
  BY DEF ClampDepth
<1>2. /\ IsForest(arena) /\ Len(records) \in Nat /\ walk \in Walks
      /\ subjects = [holders |-> subjects.holders, merged |-> subjects.merged]
      /\ Topmost(arena, roots)
  BY <1>1 DEF ThreadInv, WalkInv, RootsInv
<1>3. walk' \in Walks /\ walk'.phase = "build"
  BY <1>1, <1>2 DEF Walks, Phases
<1>4. WalkInv' /\ RootsInv'
  BY <1>1, <1>2, <1>3 DEF WalkInv, RootsInv
<1>5. IsForest(arena')
  BY <1>1, <1>2, ClampedKeeps
<1> QED BY <1>4, <1>5 DEF ThreadInv

\* build() reads the forest.
LEMMA BuildKeeps == ThreadInv /\ (BuildRoot \/ ReturnThreads) => ThreadInv'
PROOF
<1> SUFFICES ASSUME ThreadInv, BuildRoot \/ ReturnThreads PROVE ThreadInv'
  OBVIOUS
<1>1. /\ walk.phase = "build"
      /\ \/ walk' = [walk EXCEPT !.record = @ + 1]
         \/ walk' = [walk EXCEPT !.phase = "done"]
      /\ UNCHANGED <<records, arena, roots, subjects>>
  BY DEF BuildRoot, ReturnThreads
<1>2. /\ IsForest(arena) /\ Len(records) \in Nat /\ walk \in Walks
      /\ subjects = [holders |-> subjects.holders, merged |-> subjects.merged]
  BY DEF ThreadInv, WalkInv, RootsInv
<1>3. walk' \in Walks /\ walk'.phase \in {"build", "done"}
  BY <1>1, <1>2 DEF Walks, Phases
<1>4. WalkInv' /\ RootsInv'
  BY <1>1, <1>2, <1>3 DEF WalkInv, RootsInv
<1> QED BY <1>1, <1>2, <1>4 DEF ThreadInv

\* Every step keeps the forest and what is known of the walk.
LEMMA ThreadSteps == ThreadInv /\ [ThreadNext]_threadVars => ThreadInv'
PROOF
<1>1. ThreadInv /\ ThreadNext => ThreadInv'
  BY InsertRecordKeeps, LinkReferenceKeeps, LinkChildKeeps, CollectRootsKeeps,
     GroupRootKeeps, RetainRootsKeeps, ClampDepthKeeps, BuildKeeps DEF ThreadNext
<1>2. ThreadInv /\ UNCHANGED threadVars => ThreadInv'
  BY DEF threadVars, ThreadInv, WalkInv, RootsInv
<1> QED BY <1>1, <1>2

(***************************************************************************)
(* Whatever the headers say, and wherever thread() is, the parent links    *)
(* have no loop and the children lists say what the parent links say, each *)
(* child once (Arena::set_parent, is_ancestor, clamp_depth).               *)
(***************************************************************************)
THEOREM LinksFormAForest == ThreadSpec => []Forest
PROOF
<1>1. ThreadInit => ThreadInv
  BY ThreadStarts
<1>2. ThreadInv /\ [ThreadNext]_threadVars => ThreadInv'
  BY ThreadSteps
<1>3. ThreadInv => Forest
  BY DEF ThreadInv, IsForest, Rooted, Agreeing, Forest, Containers
<1> QED BY <1>1, <1>2, <1>3, PTL DEF ThreadSpec

-----------------------------------------------------------------------------
(* The thread of a container                                               *)

\* A set of containers that with each of them, but one without a parent, has
\* its parent too.
TreeOf(a, r, X) ==
    /\ X \in SUBSET Containers(a)
    /\ r \in X /\ ParentOf(a, r) = 0
    /\ \A d \in X \ {r} : ParentOf(a, d) \in X

(***************************************************************************)
(* Such a set lies below that one.                                         *)
(***************************************************************************)
LEMMA TreeIsBelow ==
    ASSUME NEW a, IsForest(a), NEW r, NEW X, TreeOf(a, r, X)
    PROVE  r \in Containers(a) /\ X \subseteq Subtree(a, r)
PROOF
<1> DEFINE T == Subtree(a, r)
           Z == X \ T
<1>1. r \in Containers(a) /\ X \in SUBSET Containers(a)
  BY DEF TreeOf
<1>2. r \in T /\ \A d \in Containers(a) : ParentOf(a, d) \in T => d \in T
  BY <1>1, SubtreeIs
<1> HIDE DEF T
<1>3. ASSUME Z # {} PROVE FALSE
  <2>1. PICK d \in Z : ParentOf(a, d) \notin Z
    BY <1>1, <1>3 DEF IsForest, Rooted
  <2>2. d \in X \ {r} /\ d \in Containers(a)
    BY <1>1, <1>2, <2>1
  <2>3. ParentOf(a, d) \in T
    BY <2>1, <2>2 DEF TreeOf
  <2> QED BY <1>2, <2>1, <2>2, <2>3
<1> QED BY <1>1, <1>3 DEF T

(***************************************************************************)
(* Below a container each level is the one above it and their children, so *)
(* a climb takes no more steps than the level.                             *)
(***************************************************************************)
LEMMA DownIsUp ==
    ASSUME NEW a, IsForest(a), NEW r \in Containers(a), NEW down, down[0] = {r},
           \A k \in 1..Size(a) : down[k] = WithChildren(a, down[k - 1])
    PROVE  /\ \A k \in 0..Size(a) : down[k] \in SUBSET Containers(a)
           /\ \A k \in 1..Size(a) : \A d \in down[k] \ {r} : ParentOf(a, d) \in down[k - 1]
PROOF
<1> DEFINE n == Size(a)
           All == Containers(a)
           G == {k \in 0..n : /\ down[k] \in SUBSET All
                              /\ k # 0 => \A d \in down[k] \ {r} : ParentOf(a, d) \in down[k - 1]}
<1>1. n \in Nat /\ r \in All
  BY SizeIs DEF IsForest
<1>2. ASSUME NEW X \in SUBSET All
      PROVE  WithChildren(a, X) = X \cup {e \in All : ParentOf(a, e) \in X}
  BY BelowIs DEF WithChildren
<1> HIDE DEF n, All
<1>3. 0 \in G
  BY <1>1
<1>4. ASSUME NEW k \in 1..n, k - 1 \in G PROVE k \in G
  <2>1. /\ k \in 0..n /\ k # 0 /\ k - 1 \in 0..n /\ down[k - 1] \in SUBSET All
        /\ k - 1 # 0 => k - 1 \in 1..n
    BY <1>1, <1>4
  <2>2. down[k] = WithChildren(a, down[k - 1])
    BY DEF n
  <2>3. down[k] = down[k - 1] \cup {e \in All : ParentOf(a, e) \in down[k - 1]}
    BY <1>2, <2>1, <2>2
  <2>4. ASSUME NEW d \in down[k] \ {r} PROVE ParentOf(a, d) \in down[k - 1]
    <3>1. CASE ParentOf(a, d) \in down[k - 1]
      BY <3>1
    <3>2. CASE d \in down[k - 1]
      <4>1. k - 1 # 0
        BY <2>4, <3>2
      <4>2. ParentOf(a, d) \in down[k - 1 - 1]
        BY <1>4, <2>4, <3>2, <4>1
      <4>3. down[k - 1] = WithChildren(a, down[k - 1 - 1])
        BY <2>1, <4>1 DEF n
      <4> QED BY <4>2, <4>3 DEF WithChildren
    <3> QED BY <2>3, <2>4, <3>1, <3>2
  <2> QED BY <2>1, <2>3, <2>4
<1>5. 0..n \subseteq G
  <2> HIDE DEF G
  <2> QED BY <1>1, <1>3, <1>4, Walking!Upward
<1>6. \A k \in 1..n : k \in 0..n /\ k # 0
  BY <1>1
<1> QED BY <1>5, <1>6 DEF n, All

(***************************************************************************)
(* RootOf climbs from any container of such a set to the one without a     *)
(* parent, and never leaves the set.                                       *)
(***************************************************************************)
LEMMA RootOfTree ==
    ASSUME NEW a, IsForest(a), NEW r, NEW X, TreeOf(a, r, X), NEW c \in X
    PROVE  /\ RootOf(a, c) = r
           /\ Climb(a, c)[Size(a) + 1] = 0
           /\ \A k \in 0..Size(a) : Climb(a, c)[k] \in X \cup {0}
PROOF
<1> DEFINE n == Size(a)
           up == Climb(a, c)
           All == Containers(a)
<1>1. /\ n \in Nat /\ n + 1 \in Nat /\ r \in All /\ X \in SUBSET All /\ 0 \notin All
      /\ c \in All /\ r # 0
  BY SizeIs, TreeIsBelow DEF IsForest, TreeOf
<1>2. up[0] = c /\ \A k \in 1..(n + 1) : up[k] = IF up[k - 1] = 0 THEN 0 ELSE ParentOf(a, up[k - 1])
  BY <1>1, ClimbIs DEF IsForest
<1>3. PICK down : /\ Subtree(a, r) = down[n]
                  /\ down[0] = {r}
                  /\ \A k \in 1..n : down[k] = WithChildren(a, down[k - 1])
  BY <1>1, DescentIs
<1>4. /\ \A k \in 0..n : down[k] \in SUBSET All
      /\ \A k \in 1..n : \A d \in down[k] \ {r} : ParentOf(a, d) \in down[k - 1]
  BY <1>1, <1>3, DownIsUp
<1>5. c \in down[n]
  BY <1>3, TreeIsBelow
<1>6. ParentOf(a, r) = 0 /\ \A d \in X \ {r} : ParentOf(a, d) \in X
  BY DEF TreeOf
<1> HIDE DEF n, up, All
<1> DEFINE AtRoot(j) == \E k \in 0..j : up[k] = r
           G == {j \in 0..n : AtRoot(j) \/ up[j] \in down[n - j]}
<1>7. AtRoot(n)
  <2>1. 0 \in G
    BY <1>1, <1>2, <1>5
  <2>2. ASSUME NEW j \in 1..n, j - 1 \in G PROVE j \in G
    <3>1. /\ j \in 0..n /\ j - 1 \in 0..n /\ j \in 1..(n + 1) /\ 0..(j - 1) \subseteq 0..j
          /\ n - (j - 1) \in 1..n /\ n - (j - 1) - 1 = n - j
      BY <1>1
    <3>2. CASE AtRoot(j - 1)
      BY <3>1, <3>2
    <3>3. CASE ~AtRoot(j - 1)
      <4>1. up[j - 1] \in down[n - (j - 1)] /\ up[j - 1] # r
        BY <2>2, <3>1, <3>3
      <4>2. up[j - 1] \in All
        BY <1>1, <1>4, <3>1, <4>1
      <4>3. up[j] = ParentOf(a, up[j - 1])
        BY <1>1, <1>2, <3>1, <4>2
      <4>4. up[j] \in down[n - j]
        BY <1>4, <3>1, <4>1, <4>3
      <4> QED BY <3>1, <4>4
    <3> QED BY <3>2, <3>3
  <2>3. 0..n \subseteq G
    <3> HIDE DEF G
    <3> QED BY <1>1, <2>1, <2>2, Walking!Upward
  <2>4. n \in 0..n /\ n - n = 0 /\ n \in 0..n
    BY <1>1
  <2>5. AtRoot(n) \/ up[n] \in {r}
    BY <1>3, <2>3, <2>4
  <2> QED BY <2>4, <2>5
<1>8. PICK k \in 0..n : up[k] = r
  BY <1>7
<1>9. \A j \in 0..n : up[j] \in X \cup {0}
  <2> DEFINE H == {j \in 0..n : up[j] \in X \cup {0}}
  <2>1. 0 \in H
    BY <1>1, <1>2
  <2>2. ASSUME NEW j \in 1..n, j - 1 \in H PROVE j \in H
    <3>1. j \in 0..n /\ j \in 1..(n + 1) /\ up[j - 1] \in X \cup {0}
      BY <1>1, <2>2
    <3>2. up[j] = IF up[j - 1] = 0 THEN 0 ELSE ParentOf(a, up[j - 1])
      BY <1>2, <3>1
    <3> QED BY <1>6, <3>1, <3>2
  <2>3. 0..n \subseteq H
    <3> HIDE DEF H
    <3> QED BY <1>1, <2>1, <2>2, Walking!Upward
  <2> QED BY <2>3
<1>10. up[k + 1] = 0
  <2>1. k + 1 \in 1..(n + 1) /\ k + 1 - 1 = k
    BY <1>1
  <2> QED BY <1>1, <1>2, <1>6, <1>8, <2>1
<1>11. up[n + 1] = 0
  <2> DEFINE H == {j \in 0..(n + 1) : k + 1 <= j => up[j] = 0}
  <2>1. 0 \in H
    BY <1>1
  <2>2. ASSUME NEW j \in 1..(n + 1), j - 1 \in H PROVE j \in H
    <3>1. j \in 0..(n + 1) /\ (k + 1 <= j => j = k + 1 \/ k + 1 <= j - 1)
      BY <1>1
    <3>2. up[j] = IF up[j - 1] = 0 THEN 0 ELSE ParentOf(a, up[j - 1])
      BY <1>2
    <3> QED BY <1>10, <2>2, <3>1, <3>2
  <2>3. 0..(n + 1) \subseteq H
    <3> HIDE DEF H
    <3> QED BY <1>1, <2>1, <2>2, Walking!Upward
  <2>4. n + 1 \in 0..(n + 1) /\ k + 1 <= n + 1
    BY <1>1
  <2> QED BY <2>3, <2>4
<1>12. RootOf(a, c) = r
  <2> DEFINE top == CHOOSE j \in 0..n : up[j] # 0 /\ up[j + 1] = 0
  <2>1. top \in 0..n /\ up[top] # 0 /\ up[top + 1] = 0
    BY <1>1, <1>8, <1>10
  <2>2. RootOf(a, c) = up[top]
    BY DEF RootOf, n, up
  <2> HIDE DEF top
  <2>3. top + 1 \in 1..(n + 1) /\ top + 1 - 1 = top
    BY <1>1, <2>1
  <2>4. ParentOf(a, up[top]) = 0
    BY <1>2, <2>1, <2>3
  <2>5. up[top] \in X
    BY <1>9, <2>1
  <2> QED BY <1>1, <1>6, <2>2, <2>4, <2>5
<1> QED BY <1>9, <1>11, <1>12 DEF n, up

(***************************************************************************)
(* Every container is in such a set.                                       *)
(***************************************************************************)
LEMMA RootIs ==
    ASSUME NEW a, IsForest(a), NEW c \in Containers(a)
    PROVE  /\ RootOf(a, c) \in Containers(a) /\ ParentOf(a, RootOf(a, c)) = 0
           /\ \E X : TreeOf(a, RootOf(a, c), X) /\ c \in X
PROOF
<1> DEFINE A == {x \in Containers(a) : c \in Subtree(a, x)}
<1>1. c \in A
  BY SubtreeIs
<1>2. PICK r \in A : ParentOf(a, r) \notin A
  BY <1>1 DEF IsForest, Rooted
<1>3. ParentOf(a, r) = 0
  <2>1. SUFFICES ASSUME ParentOf(a, r) # 0 PROVE FALSE
    OBVIOUS
  <2> DEFINE p == ParentOf(a, r)
             T == Subtree(a, p)
             S == Subtree(a, r)
             Z == S \ T
  <2>2. p \in Containers(a) /\ r \in Containers(a)
    BY <2>1 DEF IsForest, ArenaTyped
  <2>3. p \in T /\ \A d \in Containers(a) : ParentOf(a, d) \in T => d \in T
    BY <2>2, SubtreeIs
  <2>4. S \subseteq Containers(a) /\ \A d \in S \ {r} : ParentOf(a, d) \in S
    BY <2>2, SubtreeIs
  <2>5. c \in S /\ c \notin T
    BY <1>2, <2>2
  <2>6. r \in T
    BY <2>2, <2>3
  <2> HIDE DEF S, T
  <2>7. PICK d \in Z : ParentOf(a, d) \notin Z
    BY <2>4, <2>5 DEF IsForest, Rooted
  <2> QED BY <2>3, <2>4, <2>6, <2>7
<1> DEFINE X == Subtree(a, r)
<1>4. TreeOf(a, r, X) /\ c \in X /\ r \in Containers(a)
  BY <1>2, <1>3, SubtreeIs DEF TreeOf
<1> HIDE DEF X
<1>5. RootOf(a, c) = r
  BY <1>4, RootOfTree
<1> QED BY <1>3, <1>4, <1>5

(***************************************************************************)
(* A container without a parent is its own root, and a container has the   *)
(* root of its parent, and of any container it lies below.                 *)
(***************************************************************************)
LEMMA RootsWithin ==
    ASSUME NEW a, IsForest(a), NEW c \in Containers(a)
    PROVE  /\ ParentOf(a, c) = 0 => RootOf(a, c) = c
           /\ ParentOf(a, c) # 0 => /\ ParentOf(a, c) \in Containers(a)
                                    /\ RootOf(a, c) = RootOf(a, ParentOf(a, c))
           /\ \A d \in Subtree(a, c) : RootOf(a, d) = RootOf(a, c)
PROOF
<1>1. ASSUME ParentOf(a, c) = 0 PROVE RootOf(a, c) = c
  <2>1. TreeOf(a, c, {c})
    BY <1>1 DEF TreeOf
  <2> QED BY <2>1, RootOfTree
<1>2. ASSUME NEW d \in Subtree(a, c) PROVE RootOf(a, d) = RootOf(a, c)
  <2> DEFINE r == RootOf(a, c)
             T == Subtree(a, c)
  <2>1. PICK X : TreeOf(a, r, X) /\ c \in X
    BY RootIs
  <2>2. T \subseteq Containers(a) /\ \A e \in T \ {c} : ParentOf(a, e) \in T
    BY SubtreeIs
  <2> HIDE DEF r, T
  <2>3. TreeOf(a, r, X \cup T)
    BY <2>1, <2>2 DEF TreeOf
  <2>4. d \in X \cup T
    BY DEF T
  <2>5. RootOf(a, d) = r
    BY <2>3, <2>4, RootOfTree
  <2> QED BY <2>5 DEF r
<1>3. ASSUME ParentOf(a, c) # 0
      PROVE  ParentOf(a, c) \in Containers(a) /\ RootOf(a, c) = RootOf(a, ParentOf(a, c))
  <2>1. ParentOf(a, c) \in Containers(a)
    BY <1>3 DEF IsForest, ArenaTyped
  <2> DEFINE r == RootOf(a, ParentOf(a, c))
  <2>2. PICK X : TreeOf(a, r, X) /\ ParentOf(a, c) \in X
    BY <2>1, RootIs
  <2> HIDE DEF r
  <2>3. TreeOf(a, r, X \cup {c})
    BY <1>3, <2>2 DEF TreeOf
  <2>4. RootOf(a, c) = r
    BY <2>3, RootOfTree
  <2> QED BY <2>1, <2>4 DEF r
<1> QED BY <1>1, <1>2, <1>3

(***************************************************************************)
(* Containers of one thread stay in one thread when every link that is     *)
(* changed still goes to a container of the thread.                        *)
(***************************************************************************)
LEMMA StayJoined ==
    ASSUME NEW a, IsForest(a), NEW b, IsForest(b), Containers(a) \subseteq Containers(b),
           \A c \in Containers(a) : ParentOf(a, c) # 0 =>
               /\ ParentOf(b, c) \in Containers(a)
               /\ RootOf(a, ParentOf(b, c)) = RootOf(a, c),
           NEW x \in Containers(a), NEW y \in Containers(a), RootOf(a, x) = RootOf(a, y)
    PROVE  RootOf(b, x) = RootOf(b, y)
PROOF
<1> DEFINE r == RootOf(a, x)
           X == {c \in Containers(a) : RootOf(a, c) = r}
<1>1. r \in Containers(a)
  BY RootIs
<1>2. r \in Containers(b)
  BY <1>1
<1> DEFINE s == RootOf(b, r)
<1>3. PICK S : TreeOf(b, s, S) /\ r \in S
  BY <1>2, RootIs
<1>4. ASSUME NEW d \in X, d # r PROVE ParentOf(b, d) \in X
  <2>1. ParentOf(a, d) # 0
    BY <1>4, RootsWithin
  <2> QED BY <2>1
<1>5. x \in X /\ y \in X /\ X \in SUBSET Containers(b)
  OBVIOUS
<1> HIDE DEF X, s, r
<1>6. TreeOf(b, s, S \cup X)
  BY <1>3, <1>4, <1>5 DEF TreeOf
<1>7. RootOf(b, x) = s /\ RootOf(b, y) = s
  BY <1>5, <1>6, RootOfTree
<1> QED BY <1>7

(***************************************************************************)
(* A link that is made leaves together what was together, and puts the     *)
(* child, if it had no parent, in the thread of the parent; so does one    *)
(* that is left out because it would close a loop (Arena::set_parent).     *)
(***************************************************************************)
LEMMA SetParentJoins ==
    ASSUME NEW a, IsForest(a), NEW child \in Containers(a), NEW parent \in Containers(a)
    PROVE  LET b == SetParent(a, child, parent)
           IN  /\ \A x, y \in Containers(a) :
                     RootOf(a, x) = RootOf(a, y) => RootOf(b, x) = RootOf(b, y)
               /\ ParentOf(a, child) = 0 => RootOf(b, child) = RootOf(b, parent)
PROOF
<1> DEFINE b == SetParent(a, child, parent)
<1>1. CASE child = parent \/ ParentOf(a, child) # 0
  <2>1. b = a
    BY <1>1 DEF SetParent
  <2> HIDE DEF b
  <2>2. RootOf(b, child) = RootOf(b, parent) \/ ParentOf(a, child) # 0
    BY <1>1
  <2> QED BY <2>1, <2>2 DEF b
<1>2. CASE IsAncestor(a, child, parent)
  <2>1. b = a
    BY <1>2 DEF SetParent
  <2> HIDE DEF b
  <2> DEFINE r == RootOf(a, parent)
             up == Climb(a, parent)
  <2>2. PICK X : TreeOf(a, r, X) /\ parent \in X
    BY RootIs
  <2> HIDE DEF r
  <2>3. /\ RootOf(a, parent) = r
        /\ up[Size(a) + 1] = 0
        /\ \A k \in 0..Size(a) : up[k] \in X \cup {0}
    BY <2>2, RootOfTree
  <2>4. child # 0
    BY SizeIs DEF IsForest
  <2>5. child \in X
    BY <1>2, <2>3, <2>4 DEF IsAncestor
  <2>6. RootOf(a, child) = r
    BY <2>2, <2>5, RootOfTree
  <2> QED BY <2>1, <2>3, <2>6 DEF b
<1>3. CASE /\ child # parent
           /\ ParentOf(a, child) = 0
           /\ ~IsAncestor(a, child, parent)
  <2>1. b = [a EXCEPT !.containers[child].parent = parent,
                      !.containers[parent].children = Append(@, child)]
    BY <1>3 DEF SetParent
  <2>2. OneLinkMore(a, b, child, parent)
    BY <1>3, <2>1, LinkIs DEF IsForest
  <2>3. IsForest(b) /\ Size(b) = Size(a)
    BY SetParentKeeps
  <2> HIDE DEF b
  <2>4. \A c \in Containers(a) : ParentOf(b, c) = IF c = child THEN parent ELSE ParentOf(a, c)
    BY <2>2 DEF OneLinkMore
  <2>5. Containers(b) = Containers(a)
    BY <2>3 DEF Containers
  <2>6. \A c \in Containers(a) : ParentOf(a, c) # 0 =>
            ParentOf(b, c) \in Containers(a) /\ RootOf(a, ParentOf(b, c)) = RootOf(a, c)
    <3> SUFFICES ASSUME NEW c \in Containers(a), ParentOf(a, c) # 0
                 PROVE  ParentOf(b, c) \in Containers(a) /\ RootOf(a, ParentOf(b, c)) = RootOf(a, c)
      OBVIOUS
    <3>1. ParentOf(b, c) = ParentOf(a, c)
      BY <1>3, <2>4
    <3> QED BY <3>1, RootsWithin
  <2>7. \A x, y \in Containers(a) : RootOf(a, x) = RootOf(a, y) => RootOf(b, x) = RootOf(b, y)
    BY <2>3, <2>5, <2>6, StayJoined
  <2>8. RootOf(b, child) = RootOf(b, parent)
    <3>1. ParentOf(b, child) = parent /\ parent # 0
      BY <2>4, SizeIs DEF IsForest
    <3> QED BY <2>3, <2>5, <3>1, RootsWithin
  <2> QED BY <2>7, <2>8 DEF b
<1> QED BY <1>1, <1>2, <1>3

\* A new container is nobody's parent.
LEMMA FoundJoins ==
    ASSUME NEW a, IsForest(a), NEW id
    PROVE  LET b == ContainerForId(a, id)
           IN  \A x, y \in Containers(a) :
                  RootOf(a, x) = RootOf(a, y) => RootOf(b, x) = RootOf(b, y)
PROOF
<1> DEFINE b == ContainerForId(a, id)
<1>1. /\ IsForest(b) /\ Containers(a) \subseteq Containers(b)
      /\ \A d \in Containers(a) : ParentOf(b, d) = ParentOf(a, d)
  BY ContainerForIdKeeps
<1> HIDE DEF b
<1>2. \A c \in Containers(a) : ParentOf(a, c) # 0 =>
          ParentOf(b, c) \in Containers(a) /\ RootOf(a, ParentOf(b, c)) = RootOf(a, c)
  BY <1>1, RootsWithin
<1>3. \A x, y \in Containers(a) : RootOf(a, x) = RootOf(a, y) => RootOf(b, x) = RootOf(b, y)
  BY <1>1, <1>2, StayJoined
<1> QED BY <1>3 DEF b

\* What moves to the last level moves within its thread (clamp_depth).
LEMMA ClampedJoins ==
    ASSUME NEW a, IsForest(a), NEW rs, Topmost(a, rs)
    PROVE  LET b == Clamped(a, rs)
           IN  \A x, y \in Containers(a) :
                  RootOf(a, x) = RootOf(a, y) => RootOf(b, x) = RootOf(b, y)
PROOF
<1> DEFINE b == Clamped(a, rs)
<1>1. /\ IsForest(b) /\ Size(b) = Size(a)
      /\ \A c \in Containers(a) :
            \/ ParentOf(b, c) = ParentOf(a, c)
            \/ ParentOf(b, c) \in Containers(a) /\ c \in Subtree(a, ParentOf(b, c))
  BY ClampedKeeps
<1> HIDE DEF b
<1>2. Containers(a) = Containers(b)
  BY <1>1 DEF Containers
<1>3. \A c \in Containers(a) : ParentOf(a, c) # 0 =>
          ParentOf(b, c) \in Containers(a) /\ RootOf(a, ParentOf(b, c)) = RootOf(a, c)
  BY <1>1, RootsWithin
<1>4. \A x, y \in Containers(a) : RootOf(a, x) = RootOf(a, y) => RootOf(b, x) = RootOf(b, y)
  BY <1>1, <1>2, <1>3, StayJoined
<1> QED BY <1>4 DEF b

(***************************************************************************)
(* One reference: what it adds, what it links, and what stays together     *)
(* (link_references).                                                      *)
(***************************************************************************)
LEMMA ReferredJoins ==
    ASSUME NEW a, IsForest(a), NEW previous \in {0} \cup Containers(a), NEW id
    PROVE  LET b == Referred(a, previous, id)
           IN  /\ Containers(a) \subseteq Containers(b)
               /\ DOMAIN b.by_id = DOMAIN a.by_id \cup {id}
               /\ \A i \in DOMAIN a.by_id : b.by_id[i] = a.by_id[i]
               /\ id \in DOMAIN a.by_id \/ b.by_id[id] \notin Containers(a)
               /\ \A d \in Containers(a) :
                     \/ ParentOf(b, d) = ParentOf(a, d)
                     \/ d = b.by_id[id] /\ previous # 0
               /\ \A x, y \in Containers(a) :
                     RootOf(a, x) = RootOf(a, y) => RootOf(b, x) = RootOf(b, y)
PROOF
<1> DEFINE found == ContainerForId(a, id)
           b == Referred(a, previous, id)
<1>1. /\ IsForest(found) /\ Containers(a) \subseteq Containers(found)
      /\ found.by_id[id] \in Containers(found)
      /\ DOMAIN found.by_id = DOMAIN a.by_id \cup {id}
      /\ \A i \in DOMAIN a.by_id : found.by_id[i] = a.by_id[i]
      /\ id \in DOMAIN a.by_id \/ found.by_id[id] \notin Containers(a)
      /\ \A d \in Containers(a) : ParentOf(found, d) = ParentOf(a, d)
  BY ContainerForIdKeeps
<1>2. \A x, y \in Containers(a) : RootOf(a, x) = RootOf(a, y) => RootOf(found, x) = RootOf(found, y)
  BY FoundJoins
<1>3. b = IF previous = 0 THEN found ELSE SetParent(found, found.by_id[id], previous)
  BY DEF Referred
<1> HIDE DEF found, b
<1>4. CASE previous = 0
  <2>1. b = found
    BY <1>3, <1>4
  <2> QED BY <1>1, <1>2, <2>1 DEF b
<1>5. CASE previous # 0
  <2>1. b = SetParent(found, found.by_id[id], previous) /\ previous \in Containers(found)
    BY <1>1, <1>3, <1>5
  <2>2. /\ Size(b) = Size(found) /\ b.by_id = found.by_id
        /\ \A c \in Containers(found) \ {found.by_id[id]} : ParentOf(b, c) = ParentOf(found, c)
    BY <1>1, <2>1, SetParentKeeps
  <2>3. \A x, y \in Containers(found) : RootOf(found, x) = RootOf(found, y) => RootOf(b, x) = RootOf(b, y)
    <3> DEFINE child == found.by_id[id]
    <3>1. child \in Containers(found) /\ b = SetParent(found, child, previous)
      BY <1>1, <2>1
    <3> HIDE DEF child
    <3>2. \A x, y \in Containers(found) :
              RootOf(found, x) = RootOf(found, y)
              => RootOf(SetParent(found, child, previous), x) = RootOf(SetParent(found, child, previous), y)
      BY <1>1, <2>1, <3>1, SetParentJoins
    <3> QED BY <3>1, <3>2
  <2>4. Containers(b) = Containers(found)
    BY <2>2 DEF Containers
  <2>5. \A d \in Containers(a) : \/ ParentOf(b, d) = ParentOf(a, d)
                                 \/ d = b.by_id[id] /\ previous # 0
    BY <1>1, <1>5, <2>2
  <2>6. \A x, y \in Containers(a) : RootOf(a, x) = RootOf(a, y) => RootOf(b, x) = RootOf(b, y)
    BY <1>1, <1>2, <2>3
  <2> QED BY <1>1, <2>2, <2>4, <2>5, <2>6 DEF b
<1> QED BY <1>4, <1>5

\* The references considered end as the header does.
LEMMA ConsideredIs ==
    ASSUME NEW S, NEW refs \in Seq(S)
    PROVE  /\ Considered(refs) \in Seq(S)
           /\ refs = <<>> => Considered(refs) = <<>>
           /\ refs # <<>> => /\ Len(Considered(refs)) \in Nat \ {0}
                             /\ Considered(refs)[Len(Considered(refs))] = refs[Len(refs)]
PROOF
<1> DEFINE n == Len(refs)
           m == MaxReferences
<1>1. n \in Nat /\ m \in Nat \ {0} /\ (refs # <<>> => n # 0)
  BY ThreadsAssumption
<1>2. CASE n > m
  <2>1. Considered(refs) = SubSeq(refs, n - m + 1, n)
    BY <1>2 DEF Considered
  <2>2. n - m + 1 \in 1..n /\ n \in 1..n /\ n - m + 1 <= n + 1
    BY <1>1, <1>2
  <2>3. /\ SubSeq(refs, n - m + 1, n) \in Seq(S)
        /\ Len(SubSeq(refs, n - m + 1, n)) = n - (n - m + 1) + 1
        /\ SubSeq(refs, n - m + 1, n)[m] = refs[n - m + 1 + m - 1]
    <3> DEFINE k == n - m + 1
    <3>1. k \in 1..n /\ n \in 1..n /\ m \in 1..(n - k + 1) /\ k \in Nat \ {0}
      BY <1>1, <1>2
    <3>2. k + m - 1 = n
      BY <1>1
    <3> HIDE DEF k, n, m
    <3>3. /\ SubSeq(refs, k, n) \in Seq(S) /\ Len(SubSeq(refs, k, n)) = n - k + 1
          /\ SubSeq(refs, k, n)[m] = refs[k + m - 1]
      BY <3>1 DEF n
    <3> QED BY <3>3 DEF k
  <2>4. n - (n - m + 1) + 1 = m /\ n - m + 1 + m - 1 = n
    BY <1>1
  <2> QED BY <1>1, <1>2, <2>1, <2>3, <2>4
<1>3. CASE ~(n > m)
  <2>1. Considered(refs) = refs
    BY <1>3 DEF Considered
  <2> QED BY <1>1, <2>1
<1> QED BY <1>2, <1>3

-----------------------------------------------------------------------------
(* Replies and what they answer                                            *)

\* A record as the overview gives it to thread().
Overview == [id : MessageIds \cup {NoId}, references : Seq(MessageIds), subject : Seq(STRING)]

\* The references of a header are a list of ids.
LEMMA HeadersAreChains ==
    ASSUME NEW rs \in Seq(Overview), NEW i \in 1..Len(rs)
    PROVE  rs[i].references \in Seq(MessageIds)
PROOF
<1>1. rs[i] \in Overview
  OBVIOUS
<1> QED BY <1>1 DEF Overview

\* A record in the thread of its nearest reference.
Together(i) ==
    LET refs == records[i].references
    IN  refs # <<>> /\ ~NamedInside(i) =>
            /\ refs[Len(refs)] \in DOMAIN arena.by_id
            /\ RootOf(arena, arena.by_article[i]) = RootOf(arena, arena.by_id[refs[Len(refs)]])

\* Each record has a container of its own, which only its own id can name.
OwnContainers ==
    /\ \A i, j \in DOMAIN arena.by_article :
          arena.by_article[i] = arena.by_article[j] => i = j
    /\ \A i \in DOMAIN arena.by_article : \A id \in DOMAIN arena.by_id :
          arena.by_id[id] = arena.by_article[i] => records[i].id = id

\* Where a chain is followed: the container of the last reference read.
ChainInv ==
    /\ walk.record \in 1..Len(records)
    /\ walk.reference \in 1..(Len(References) + 1)
    /\ walk.reference = 1 <=> walk.previous = 0
    /\ walk.reference # 1 =>
          /\ References[walk.reference - 1] \in DOMAIN arena.by_id
          /\ arena.by_id[References[walk.reference - 1]] = walk.previous

\* Until a record is linked, only a chain that goes past it gives it a parent.
Unlinked ==
    \A i \in 1..Len(records) :
        walk.record <= i /\ ~NamedInside(i) => ParentOf(arena, arena.by_article[i]) = 0

JoinInv ==
    /\ records \in Seq(Overview)
    /\ OwnContainers
    /\ walk.phase = "insert" => \A c \in Containers(arena) : ParentOf(arena, c) = 0
    /\ walk.phase # "insert" => Len(arena.by_article) = Len(records)
    /\ walk.phase = "link" => ChainInv /\ Unlinked
    /\ walk.phase # "insert" =>
          \A i \in 1..Len(records) : (walk.phase = "link" => i < walk.record) => Together(i)

\* The containers of a record and of what it names.
LEMMA NamedContainers ==
    ASSUME ThreadInv
    PROVE  /\ \A i \in DOMAIN arena.by_article : arena.by_article[i] \in Containers(arena)
           /\ DOMAIN arena.by_article = 1..Len(arena.by_article)
           /\ \A id \in DOMAIN arena.by_id : arena.by_id[id] \in Containers(arena)
PROOF
<1>1. /\ arena.by_article \in Seq(Containers(arena))
      /\ \A id \in DOMAIN arena.by_id : arena.by_id[id] \in Containers(arena)
  BY DEF ThreadInv, IsForest, ArenaTyped
<1> QED BY <1>1

\* The same after a step.
LEMMA NamedContainersThen ==
    ASSUME ThreadInv'
    PROVE  \A i \in 1..Len(arena'.by_article) : arena'.by_article[i] \in Containers(arena')
PROOF
<1>1. arena'.by_article \in Seq(Containers(arena'))
  BY DEF ThreadInv, IsForest, ArenaTyped
<1> QED BY <1>1

\* A record stays with its reference while threads are only put together.
LEMMA TogetherStays ==
    ASSUME ThreadInv, NEW i \in DOMAIN arena.by_article, Together(i),
           records' = records, arena'.by_article = arena.by_article,
           \A id \in DOMAIN arena.by_id :
               id \in DOMAIN arena'.by_id /\ arena'.by_id[id] = arena.by_id[id],
           \A x, y \in Containers(arena) :
               RootOf(arena, x) = RootOf(arena, y) => RootOf(arena', x) = RootOf(arena', y)
    PROVE  Together(i)'
PROOF
<1> DEFINE refs == records[i].references
           last == refs[Len(refs)]
<1>1. NamedInside(i)' <=> NamedInside(i)
  BY DEF NamedInside
<1> SUFFICES ASSUME refs # <<>>, ~NamedInside(i)
             PROVE  /\ last \in DOMAIN arena'.by_id
                    /\ RootOf(arena', arena'.by_article[i]) = RootOf(arena', arena'.by_id[last])
  BY <1>1 DEF Together
<1>2. /\ last \in DOMAIN arena.by_id
      /\ RootOf(arena, arena.by_article[i]) = RootOf(arena, arena.by_id[last])
  BY DEF Together
<1> HIDE DEF last
<1>3. arena.by_article[i] \in Containers(arena) /\ arena.by_id[last] \in Containers(arena)
  BY <1>2, NamedContainers
<1> QED BY <1>2, <1>3

\* thread() starts with no links and no records inserted.
LEMMA JoiningStarts == ThreadInit => JoinInv
PROOF
<1> SUFFICES ASSUME ThreadInit PROVE JoinInv
  OBVIOUS
<1>1. /\ records \in ThreadInputs /\ arena = NewArena /\ walk.phase = "insert"
  BY DEF ThreadInit
<1>2. records \in Seq(Overview)
  BY <1>1, ThreadInputsAssumption DEF Overview
<1>3. arena.by_article = <<>> /\ arena.containers = <<>> /\ DOMAIN arena.by_article = {}
  BY <1>1 DEF NewArena
<1>4. Containers(arena) = {}
  <2>1. Size(arena) = 0
    BY <1>3 DEF Size
  <2> QED BY <2>1 DEF Containers
<1>5. OwnContainers
  BY <1>3 DEF OwnContainers
<1> QED BY <1>1, <1>2, <1>4, <1>5 DEF JoinInv

(***************************************************************************)
(* A record inserted gets a container of its own (Arena::insert).          *)
(***************************************************************************)
LEMMA InsertRecordJoins == ThreadInv /\ JoinInv /\ ThreadInv' /\ InsertRecord => JoinInv'
PROOF
<1> SUFFICES ASSUME ThreadInv, JoinInv, ThreadInv', InsertRecord PROVE JoinInv'
  OBVIOUS
<1> DEFINE c == Size(arena) + 1
           own == records[walk.record].id
           list == arena.by_article
           m == Len(list)
<1>1. /\ walk.phase = "insert" /\ walk.record <= Len(records)
      /\ arena' = Inserted(arena, walk.record, own)
      /\ walk' = IF walk.record = Len(records)
                 THEN [phase |-> "link", record |-> 1, reference |-> 1, previous |-> 0]
                 ELSE [walk EXCEPT !.record = @ + 1]
      /\ records' = records
  BY DEF InsertRecord
<1>2. /\ IsForest(arena) /\ Len(records) \in Nat /\ walk \in Walks
      /\ m + 1 = walk.record /\ walk.record \in Nat
  BY <1>1 DEF ThreadInv, WalkInv, Walks
<1>3. /\ OwnContainers /\ \A d \in Containers(arena) : ParentOf(arena, d) = 0
      /\ records \in Seq(Overview)
  BY <1>1 DEF JoinInv
<1>4. /\ Size(arena') = c
      /\ arena'.by_article = Append(list, c)
      /\ \A i \in DOMAIN arena'.by_id :
            \/ i \in DOMAIN arena.by_id /\ arena'.by_id[i] = arena.by_id[i]
            \/ i = own /\ arena'.by_id[i] = c
      /\ \A d \in Containers(arena) : ParentOf(arena', d) = ParentOf(arena, d)
      /\ ParentOf(arena', c) = 0
  BY <1>1, <1>2, InsertedKeeps
<1>5. /\ list \in Seq(Containers(arena)) /\ m \in Nat /\ DOMAIN list = 1..m
      /\ \A i \in 1..m : list[i] \in Containers(arena)
      /\ \A id \in DOMAIN arena.by_id : arena.by_id[id] \in Containers(arena)
  BY <1>2 DEF IsForest, ArenaTyped
<1>6. Containers(arena') = Containers(arena) \cup {c} /\ c \notin Containers(arena)
  <2>1. Size(arena) \in Nat
    BY <1>2, SizeIs DEF IsForest
  <2> QED BY <1>4, <2>1 DEF Containers
<1>7. /\ Len(Append(list, c)) = m + 1 /\ DOMAIN Append(list, c) = 1..(m + 1)
      /\ Append(list, c)[m + 1] = c
      /\ \A i \in 1..m : Append(list, c)[i] = list[i]
  <2>1. list \in Seq(Containers(arena) \cup {c})
    BY <1>5
  <2> HIDE DEF c, list
  <2> QED BY <2>1 DEF m
<1> HIDE DEF c, own, list, m
<1>8. \A d \in Containers(arena') : ParentOf(arena', d) = 0
  BY <1>3, <1>4, <1>6
<1>9. \A i \in 1..(m + 1) : i \in 1..m \/ i = m + 1
  BY <1>5
<1>10. OwnContainers'
  <2> DEFINE longer == Append(list, c)
  <2>1. \A i, j \in 1..m : list[i] = list[j] => i = j
    BY <1>3, <1>5 DEF OwnContainers, list
  <2>2. \A i \in 1..m : \A id \in DOMAIN arena.by_id : arena.by_id[id] = list[i] => records[i].id = id
    BY <1>3, <1>5 DEF OwnContainers, list
  <2>3. longer[m + 1] = c /\ \A i \in 1..m : longer[i] = list[i]
    BY <1>7
  <2>4. DOMAIN longer = 1..(m + 1) /\ arena'.by_article = longer
    BY <1>4, <1>7
  <2> HIDE DEF longer
  <2>5. \A i, j \in 1..(m + 1) : longer[i] = longer[j] => i = j
    BY <1>5, <1>6, <1>9, <2>1, <2>3
  <2>6. ASSUME NEW i \in 1..(m + 1), NEW id \in DOMAIN arena'.by_id, arena'.by_id[id] = longer[i]
        PROVE  records[i].id = id
    <3>1. CASE id \in DOMAIN arena.by_id /\ arena'.by_id[id] = arena.by_id[id]
      <4>1. arena.by_id[id] \in Containers(arena)
        BY <1>5, <3>1
      <4>2. i \in 1..m /\ arena.by_id[id] = list[i]
        BY <1>6, <1>9, <2>3, <2>6, <3>1, <4>1
      <4> QED BY <2>2, <3>1, <4>2
    <3>2. CASE id = own /\ arena'.by_id[id] = c
      <4>1. i = m + 1
        BY <1>5, <1>6, <1>9, <2>3, <2>6, <3>2
      <4> QED BY <1>2, <3>2, <4>1 DEF own
    <3> QED BY <1>4, <3>1, <3>2
  <2> QED BY <1>1, <2>4, <2>5, <2>6 DEF OwnContainers
<1>11. CASE walk.record = Len(records)
  <2>1. /\ walk' = [phase |-> "link", record |-> 1, reference |-> 1, previous |-> 0]
        /\ walk'.phase = "link" /\ walk'.record = 1 /\ walk'.reference = 1 /\ walk'.previous = 0
    BY <1>1, <1>11
  <2>2. Len(arena'.by_article) = Len(records)
    BY <1>2, <1>4, <1>7, <1>11
  <2>3. 1 \in 1..Len(records)
    BY <1>2, <1>5, <1>11
  <2>4. ChainInv'
    <3>1. records[1].references \in Seq(MessageIds)
      BY <1>3, <2>3, HeadersAreChains
    <3>2. Len(Considered(records[1].references)) \in Nat
      BY <3>1, ConsideredIs
    <3>3. References' = Considered(records[1].references)
      BY <1>1, <2>1 DEF References
    <3> QED BY <1>1, <2>1, <2>3, <3>2, <3>3 DEF ChainInv
  <2>5. Unlinked'
    <3>1. \A i \in 1..Len(records) : arena'.by_article[i] \in Containers(arena')
      BY <2>2, NamedContainersThen
    <3> QED BY <1>1, <1>8, <3>1 DEF Unlinked
  <2>6. \A i \in 1..Len(records) : ~(i < 1)
    BY <1>2
  <2> QED BY <1>1, <1>3, <1>10, <2>1, <2>2, <2>4, <2>5, <2>6 DEF JoinInv
<1>12. CASE walk.record # Len(records)
  <2>1. walk'.phase = "insert"
    BY <1>1, <1>2, <1>12 DEF Walks
  <2> QED BY <1>1, <1>3, <1>8, <1>10, <2>1 DEF JoinInv
<1> QED BY <1>11, <1>12

(***************************************************************************)
(* A reference gives a parent only to what the chain names after another   *)
(* (Arena::link_references).                                               *)
(***************************************************************************)
LEMMA LinkReferenceJoins == ThreadInv /\ JoinInv /\ LinkReference => JoinInv'
PROOF
<1> SUFFICES ASSUME ThreadInv, JoinInv, LinkReference PROVE JoinInv'
  OBVIOUS
<1> DEFINE id == References[walk.reference]
           list == arena.by_article
<1>1. /\ walk.phase = "link" /\ walk.reference <= Len(References)
      /\ arena' = Referred(arena, walk.previous, id)
      /\ walk' = [walk EXCEPT !.reference = @ + 1, !.previous = arena'.by_id[id]]
      /\ records' = records
  BY DEF LinkReference, Linking
<1>2. /\ IsForest(arena) /\ Len(records) \in Nat /\ walk \in Walks
      /\ walk.previous \in {0} \cup Containers(arena)
  BY <1>1 DEF ThreadInv, WalkInv
<1>3. /\ records \in Seq(Overview) /\ OwnContainers /\ Len(list) = Len(records)
      /\ ChainInv /\ Unlinked
      /\ \A i \in 1..Len(records) : i < walk.record => Together(i)
  BY <1>1 DEF JoinInv
<1>4. /\ Containers(arena) \subseteq Containers(arena')
      /\ DOMAIN arena'.by_id = DOMAIN arena.by_id \cup {id}
      /\ \A i \in DOMAIN arena.by_id : arena'.by_id[i] = arena.by_id[i]
      /\ id \in DOMAIN arena.by_id \/ arena'.by_id[id] \notin Containers(arena)
      /\ \A d \in Containers(arena) :
            \/ ParentOf(arena', d) = ParentOf(arena, d)
            \/ d = arena'.by_id[id] /\ walk.previous # 0
      /\ \A x, y \in Containers(arena) :
            RootOf(arena, x) = RootOf(arena, y) => RootOf(arena', x) = RootOf(arena', y)
  <2> DEFINE above == walk.previous
             b == Referred(arena, above, id)
  <2>0. above \in {0} \cup Containers(arena)
    BY <1>2
  <2> HIDE DEF id, above
  <2>1. /\ Containers(arena) \subseteq Containers(b)
        /\ DOMAIN b.by_id = DOMAIN arena.by_id \cup {id}
        /\ \A i \in DOMAIN arena.by_id : b.by_id[i] = arena.by_id[i]
        /\ id \in DOMAIN arena.by_id \/ b.by_id[id] \notin Containers(arena)
        /\ \A d \in Containers(arena) :
              \/ ParentOf(b, d) = ParentOf(arena, d)
              \/ d = b.by_id[id] /\ above # 0
        /\ \A x, y \in Containers(arena) :
              RootOf(arena, x) = RootOf(arena, y) => RootOf(b, x) = RootOf(b, y)
    BY <1>2, <2>0, ReferredJoins
  <2>2. arena' = b
    BY <1>1 DEF above
  <2> HIDE DEF b
  <2> QED BY <2>1, <2>2 DEF above
<1>5. /\ IsForest(arena') /\ arena'.by_article = list /\ arena'.by_id[id] \in Containers(arena')
  BY <1>1, <1>2, ReferredKeeps
<1>6. /\ \A i \in 1..Len(records) : list[i] \in Containers(arena)
      /\ DOMAIN list = 1..Len(records)
  BY <1>3, NamedContainers
<1>7. /\ walk.record \in 1..Len(records) /\ walk.reference \in 1..(Len(References) + 1)
      /\ walk.reference = 1 <=> walk.previous = 0
      /\ Len(References) \in Nat
  <2>1. records[walk.record].references \in Seq(MessageIds)
    BY <1>3, HeadersAreChains DEF ChainInv
  <2>2. Len(References) \in Nat
    BY <2>1, ConsideredIs DEF References
  <2> QED BY <1>3, <2>2 DEF ChainInv
<1>8. /\ walk'.phase = "link" /\ walk'.record = walk.record
      /\ walk'.reference = walk.reference + 1 /\ walk'.previous = arena'.by_id[id]
  <2> DEFINE reached == arena'.by_id[id]
  <2>1. walk' = [walk EXCEPT !.reference = @ + 1, !.previous = reached]
    BY <1>1
  <2>2. DOMAIN walk = {"phase", "record", "reference", "previous"}
    BY <1>2 DEF Walks
  <2> HIDE DEF reached
  <2>3. /\ walk'.phase = walk.phase /\ walk'.record = walk.record
        /\ walk'.reference = walk.reference + 1 /\ walk'.previous = reached
    BY <2>1, <2>2
  <2> QED BY <1>1, <2>3 DEF reached
<1>9. References' = References
  BY <1>1, <1>8 DEF References
<1>10. \A i : NamedInside(i)' <=> NamedInside(i)
  BY <1>1 DEF NamedInside
<1>11. OwnContainers'
  <2>1. ASSUME NEW i \in DOMAIN list, NEW n \in DOMAIN arena'.by_id, arena'.by_id[n] = list[i]
        PROVE  records[i].id = n
    <3>1. n \in DOMAIN arena.by_id /\ arena.by_id[n] = list[i]
      BY <1>4, <1>6, <2>1
    <3> QED BY <1>3, <3>1 DEF OwnContainers
  <2> QED BY <1>1, <1>3, <1>5, <2>1 DEF OwnContainers
<1>12. ChainInv'
  <2>1. walk'.reference \in 1..(Len(References) + 1) /\ walk'.reference - 1 = walk.reference
        /\ walk'.reference # 1
    BY <1>1, <1>7, <1>8
  <2>2. walk'.previous # 0
    BY <1>5, <1>8, SizeIs DEF IsForest
  <2>3. References'[walk'.reference - 1] = id
    BY <1>9, <2>1
  <2> QED BY <1>1, <1>4, <1>7, <1>8, <1>9, <2>1, <2>2, <2>3 DEF ChainInv
<1>13. Unlinked'
  <2> SUFFICES ASSUME NEW i \in 1..Len(records), walk.record <= i, ~NamedInside(i)
               PROVE  ParentOf(arena', list[i]) = 0
    BY <1>1, <1>5, <1>8, <1>10 DEF Unlinked
  <2>1. ParentOf(arena, list[i]) = 0
    BY <1>3 DEF Unlinked
  <2>2. SUFFICES ASSUME list[i] = arena'.by_id[id], walk.previous # 0 PROVE FALSE
    BY <1>4, <1>6, <2>1
  <2>3. walk.reference \in 2..Len(References)
    BY <1>1, <1>7, <2>2
  <2>4. records[i].id = id
    BY <1>1, <1>4, <1>5, <1>6, <1>11, <2>2 DEF OwnContainers
  <2>5. NamedInside(i)
    BY <1>7, <2>3, <2>4 DEF NamedInside, References
  <2> QED BY <2>5
<1>14. \A i \in 1..Len(records) : i < walk.record => Together(i)'
  <2>1. \A n \in DOMAIN arena.by_id : n \in DOMAIN arena'.by_id /\ arena'.by_id[n] = arena.by_id[n]
    BY <1>4
  <2> SUFFICES ASSUME NEW i \in 1..Len(records), i < walk.record PROVE Together(i)'
    OBVIOUS
  <2>2. i \in DOMAIN arena.by_article /\ Together(i)
    BY <1>3, <1>6
  <2> QED BY <1>1, <1>4, <1>5, <2>1, <2>2, TogetherStays
<1> HIDE DEF id
<1> QED BY <1>1, <1>3, <1>5, <1>8, <1>11, <1>12, <1>13, <1>14 DEF JoinInv

(***************************************************************************)
(* A record is linked under its nearest reference, unless a chain that     *)
(* goes past it gave it a parent before (Arena::link_references).          *)
(***************************************************************************)
LEMMA LinkChildJoins == ThreadInv /\ JoinInv /\ LinkChild => JoinInv'
PROOF
<1> SUFFICES ASSUME ThreadInv, JoinInv, LinkChild PROVE JoinInv'
  OBVIOUS
<1>0. PICK now : now = walk.record
  OBVIOUS
<1> DEFINE list == arena.by_article
           child == list[now]
           refs == records[now].references
           last == refs[Len(refs)]
<1>1. /\ walk.phase = "link" /\ walk.reference > Len(References)
      /\ arena' = Attached(arena, now, walk.previous)
      /\ walk' = [phase |-> IF now = Len(records) THEN "roots" ELSE "link",
                  record |-> now + 1, reference |-> 1, previous |-> 0]
      /\ records' = records
  BY <1>0 DEF LinkChild, Linking
<1>2. /\ IsForest(arena) /\ Len(records) \in Nat
      /\ walk.previous \in {0} \cup Containers(arena)
  BY <1>1 DEF ThreadInv, WalkInv
<1>3. /\ records \in Seq(Overview) /\ OwnContainers /\ Len(list) = Len(records)
      /\ ChainInv /\ Unlinked
      /\ \A i \in 1..Len(records) : i < now => Together(i)
  BY <1>0, <1>1 DEF JoinInv
<1>4. /\ \A i \in 1..Len(records) : list[i] \in Containers(arena)
      /\ DOMAIN list = 1..Len(records)
  BY <1>3, NamedContainers
<1>5. /\ now \in 1..Len(records) /\ now \in Nat /\ refs \in Seq(MessageIds)
      /\ Len(References) \in Nat /\ walk.reference = Len(References) + 1
      /\ (refs = <<>> => References = <<>>)
      /\ (refs # <<>> => Len(References) # 0 /\ References[Len(References)] = last)
  <2>1. refs \in Seq(MessageIds) /\ now \in 1..Len(records)
    BY <1>0, <1>3, HeadersAreChains DEF ChainInv
  <2>2. References = Considered(refs)
    BY <1>0 DEF References
  <2> HIDE DEF refs
  <2>3. /\ Len(References) \in Nat
        /\ (refs = <<>> => References = <<>>)
        /\ (refs # <<>> => Len(References) # 0 /\ References[Len(References)] = last)
    BY <2>1, <2>2, ConsideredIs
  <2>4. walk.reference = Len(References) + 1
    BY <1>1, <1>3, <2>3 DEF ChainInv
  <2> QED BY <1>2, <2>1, <2>3, <2>4
<1>6. arena' = IF walk.previous = 0 THEN arena ELSE SetParent(arena, child, walk.previous)
  BY <1>1 DEF Attached
<1>7. child \in Containers(arena)
  BY <1>4, <1>5
<1>8. /\ refs # <<>> => /\ walk.previous \in Containers(arena)
                        /\ last \in DOMAIN arena.by_id /\ arena.by_id[last] = walk.previous
      /\ refs = <<>> => walk.previous = 0
  <2>1. CASE refs = <<>>
    <3>1. Len(References) = 0
      BY <1>5, <2>1
    <3> QED BY <1>3, <1>5, <2>1, <3>1 DEF ChainInv
  <2>2. CASE refs # <<>>
    <3>1. walk.reference # 1 /\ walk.reference - 1 = Len(References)
      BY <1>5, <2>2
    <3>2. /\ References[Len(References)] \in DOMAIN arena.by_id
          /\ arena.by_id[References[Len(References)]] = walk.previous
          /\ walk.previous # 0
      BY <1>3, <3>1 DEF ChainInv
    <3> QED BY <1>2, <1>5, <2>2, <3>2
  <2> QED BY <2>1, <2>2
<1> HIDE DEF child, refs, last
<1>9. /\ arena'.by_id = arena.by_id /\ arena'.by_article = list
      /\ \A c \in Containers(arena) \ {child} : ParentOf(arena', c) = ParentOf(arena, c)
      /\ \A x, y \in Containers(arena) :
            RootOf(arena, x) = RootOf(arena, y) => RootOf(arena', x) = RootOf(arena', y)
      /\ walk.previous # 0 /\ ParentOf(arena, child) = 0
            => RootOf(arena', child) = RootOf(arena', walk.previous)
  <2>1. CASE walk.previous = 0
    <3>1. arena' = arena
      BY <1>6, <2>1
    <3> QED BY <2>1, <3>1
  <2>2. CASE walk.previous # 0
    <3> DEFINE parent == walk.previous
    <3>1. parent \in Containers(arena) /\ arena' = SetParent(arena, child, parent)
      BY <1>2, <1>6, <2>2
    <3> HIDE DEF parent
    <3>2. /\ arena'.by_id = arena.by_id /\ arena'.by_article = arena.by_article
          /\ \A c \in Containers(arena) \ {child} : ParentOf(arena', c) = ParentOf(arena, c)
      BY <1>2, <1>7, <3>1, SetParentKeeps
    <3> DEFINE b == SetParent(arena, child, parent)
    <3>3. /\ \A x, y \in Containers(arena) :
                RootOf(arena, x) = RootOf(arena, y) => RootOf(b, x) = RootOf(b, y)
          /\ ParentOf(arena, child) = 0 => RootOf(b, child) = RootOf(b, parent)
      BY <1>2, <1>7, <3>1, SetParentJoins
    <3>4. arena' = b
      BY <3>1
    <3> HIDE DEF b
    <3> QED BY <3>2, <3>3, <3>4 DEF parent
  <2> QED BY <2>1, <2>2
<1>10. \A i : NamedInside(i)' <=> NamedInside(i)
  BY <1>1 DEF NamedInside
<1>11. \A i \in 1..Len(records) : i < now => Together(i)'
  <2>1. \A n \in DOMAIN arena.by_id : n \in DOMAIN arena'.by_id /\ arena'.by_id[n] = arena.by_id[n]
    BY <1>9
  <2> SUFFICES ASSUME NEW i \in 1..Len(records), i < now PROVE Together(i)'
    OBVIOUS
  <2>2. i \in DOMAIN arena.by_article /\ Together(i)
    BY <1>3, <1>4
  <2> QED BY <1>1, <1>9, <2>1, <2>2, TogetherStays
<1>12. Together(now)'
  <2> SUFFICES ASSUME refs # <<>>, ~NamedInside(now)
               PROVE  /\ last \in DOMAIN arena'.by_id
                      /\ RootOf(arena', child) = RootOf(arena', arena'.by_id[last])
    <3>1. refs = (records[now].references) /\ last = refs[Len(refs)] /\ child = list[now]
      BY DEF refs, last, child
    <3> QED BY <1>1, <1>9, <1>10, <3>1 DEF Together
  <2>1. ParentOf(arena, child) = 0
    BY <1>0, <1>3, <1>5 DEF Unlinked, child
  <2>2. walk.previous # 0
    BY <1>2, <1>8, SizeIs DEF IsForest
  <2> QED BY <1>8, <1>9, <2>1, <2>2
<1>13. OwnContainers'
  BY <1>1, <1>3, <1>9 DEF OwnContainers
<1>14. \A i \in 1..Len(records) : i < now + 1 => Together(i)'
  <2>1. \A i \in 1..Len(records) : i < now + 1 => i < now \/ i = now
    BY <1>2, <1>5
  <2> QED BY <1>11, <1>12, <2>1
<1>15. CASE now = Len(records)
  <2>1. walk'.phase = "roots"
    BY <1>1, <1>15
  <2>2. \A i \in 1..Len(records) : Together(i)'
    BY <1>2, <1>14, <1>15
  <2> QED BY <1>1, <1>3, <1>9, <1>13, <2>1, <2>2 DEF JoinInv
<1>16. CASE now # Len(records)
  <2>1. /\ walk'.phase = "link" /\ walk'.record = now + 1 /\ walk'.reference = 1
        /\ walk'.previous = 0
    BY <1>1, <1>16
  <2>2. now + 1 \in 1..Len(records)
    BY <1>2, <1>5, <1>16
  <2>3. ChainInv'
    <3>1. records[now + 1].references \in Seq(MessageIds)
      BY <1>3, <2>2, HeadersAreChains
    <3>2. Len(Considered(records[now + 1].references)) \in Nat
      BY <3>1, ConsideredIs
    <3>3. References' = Considered(records[now + 1].references)
      BY <1>1, <2>1 DEF References
    <3> QED BY <1>1, <2>1, <2>2, <3>2, <3>3 DEF ChainInv
  <2>4. Unlinked'
    <3> SUFFICES ASSUME NEW i \in 1..Len(records), now + 1 <= i, ~NamedInside(i)
                 PROVE  ParentOf(arena', list[i]) = 0
      BY <1>1, <1>9, <1>10, <2>1 DEF Unlinked
    <3>1. now <= i /\ i # now
      BY <1>5
    <3>2. ParentOf(arena, list[i]) = 0
      BY <1>0, <1>3, <3>1 DEF Unlinked
    <3>3. list[i] # child
      BY <1>3, <1>4, <1>5, <3>1 DEF OwnContainers, child
    <3> QED BY <1>4, <1>9, <3>2, <3>3
  <2> QED BY <1>1, <1>3, <1>9, <1>13, <1>14, <2>1, <2>3, <2>4 DEF JoinInv
<1> QED BY <1>15, <1>16

\* From then on threads are only put together.
LEMMA LaterJoins ==
    ASSUME ThreadInv, JoinInv, walk.phase \notin {"insert", "link"},
           walk'.phase \notin {"insert", "link"}, records' = records,
           arena'.by_article = arena.by_article, arena'.by_id = arena.by_id,
           \A x, y \in Containers(arena) :
               RootOf(arena, x) = RootOf(arena, y) => RootOf(arena', x) = RootOf(arena', y)
    PROVE  JoinInv'
PROOF
<1>1. /\ records \in Seq(Overview) /\ OwnContainers /\ Len(arena.by_article) = Len(records)
      /\ \A i \in 1..Len(records) : Together(i)
  BY DEF JoinInv
<1>2. OwnContainers'
  BY <1>1 DEF OwnContainers
<1>3. ASSUME NEW i \in 1..Len(records) PROVE Together(i)'
  <2>1. i \in DOMAIN arena.by_article /\ Together(i)
    BY <1>1, NamedContainers
  <2> QED BY <2>1, TogetherStays
<1> QED BY <1>1, <1>2, <1>3 DEF JoinInv

\* Grouping by subject links two whole threads (group_by_subject).
LEMMA GroupRootJoins == ThreadInv /\ JoinInv /\ GroupRoot => JoinInv'
PROOF
<1> SUFFICES ASSUME ThreadInv, JoinInv, GroupRoot PROVE JoinInv'
  OBVIOUS
<1> DEFINE id == roots[walk.record]
           subject == NormaliseSubject(SubjectOf(id))
           holder == subjects.holders[subject]
           parent == IF Holds(holder, id) THEN holder ELSE id
           child == IF Holds(holder, id) THEN id ELSE holder
<1>1. /\ walk.phase = "group" /\ walk.record <= Len(roots)
      /\ \/ UNCHANGED arena
         \/ /\ subject \in DOMAIN subjects.holders
            /\ arena' = SetParent(arena, child, parent)
      /\ walk' = [walk EXCEPT !.record = @ + 1]
      /\ records' = records
  BY DEF GroupRoot
<1> HIDE DEF subject
<1>2. /\ IsForest(arena) /\ walk \in Walks /\ walk.record \in Nat
      /\ roots \in Seq(Containers(arena))
      /\ \A s \in DOMAIN subjects.holders : subjects.holders[s] \in Containers(arena)
      /\ walk.record # 0
  BY <1>1 DEF ThreadInv, WalkInv, RootsInv, Walks
<1>3. id \in Containers(arena)
  BY <1>1, <1>2
<1>4. walk'.phase = "group"
  BY <1>1, <1>2 DEF Walks
<1>5. CASE UNCHANGED arena
  BY <1>1, <1>4, <1>5, LaterJoins
<1>6. CASE subject \in DOMAIN subjects.holders /\ arena' = SetParent(arena, child, parent)
  <2>1. child \in Containers(arena) /\ parent \in Containers(arena)
    BY <1>2, <1>3, <1>6
  <2> HIDE DEF child, parent
  <2> DEFINE b == SetParent(arena, child, parent)
  <2>2. /\ b.by_id = arena.by_id /\ b.by_article = arena.by_article
    BY <1>2, <2>1, SetParentKeeps
  <2>3. \A x, y \in Containers(arena) :
            RootOf(arena, x) = RootOf(arena, y) => RootOf(b, x) = RootOf(b, y)
    BY <1>2, <2>1, SetParentJoins
  <2>4. arena' = b
    BY <1>6
  <2> HIDE DEF b
  <2> QED BY <1>1, <1>4, <2>2, <2>3, <2>4, LaterJoins
<1> QED BY <1>1, <1>5, <1>6

\* clamp_depth() moves containers within their threads.
LEMMA ClampDepthJoins == ThreadInv /\ JoinInv /\ ClampDepth => JoinInv'
PROOF
<1> SUFFICES ASSUME ThreadInv, JoinInv, ClampDepth PROVE JoinInv'
  OBVIOUS
<1> DEFINE b == Clamped(arena, roots)
<1>1. /\ walk.phase = "clamp" /\ arena' = b
      /\ walk' = [walk EXCEPT !.phase = "build", !.record = 1]
      /\ records' = records
  BY DEF ClampDepth
<1>2. IsForest(arena) /\ walk \in Walks /\ Topmost(arena, roots)
  BY <1>1 DEF ThreadInv, WalkInv, RootsInv
<1>3. walk'.phase = "build"
  BY <1>1, <1>2 DEF Walks
<1>4. b.by_article = arena.by_article /\ b.by_id = arena.by_id
  BY <1>2, ClampedKeeps
<1>5. \A x, y \in Containers(arena) :
          RootOf(arena, x) = RootOf(arena, y) => RootOf(b, x) = RootOf(b, y)
  BY <1>2, ClampedJoins
<1> HIDE DEF b
<1> QED BY <1>1, <1>3, <1>4, <1>5, LaterJoins

\* The other steps after linking only read the links.
LEMMA ReadingJoins ==
    ThreadInv /\ JoinInv /\ (CollectRoots \/ RetainRoots \/ BuildRoot \/ ReturnThreads) => JoinInv'
PROOF
<1> SUFFICES ASSUME ThreadInv, JoinInv, CollectRoots \/ RetainRoots \/ BuildRoot \/ ReturnThreads
             PROVE  JoinInv'
  OBVIOUS
<1>1. /\ walk.phase \in {"roots", "group", "build"}
      /\ \/ walk' = [walk EXCEPT !.phase = "group", !.record = 1]
         \/ walk' = [walk EXCEPT !.phase = "clamp"]
         \/ walk.phase = "build" /\ walk' = [walk EXCEPT !.record = @ + 1]
         \/ walk' = [walk EXCEPT !.phase = "done"]
      /\ records' = records /\ arena' = arena
  BY DEF CollectRoots, RetainRoots, BuildRoot, ReturnThreads
<1>2. walk \in Walks
  BY DEF ThreadInv, WalkInv
<1>3. walk'.phase \in {"group", "clamp", "build", "done"}
  BY <1>1, <1>2 DEF Walks
<1> QED BY <1>1, <1>3, LaterJoins

\* Every step keeps the replies with what they answer.
LEMMA JoinSteps == ThreadInv /\ JoinInv /\ [ThreadNext]_threadVars => JoinInv'
PROOF
<1>1. ThreadInv /\ JoinInv /\ ThreadNext => JoinInv'
  BY ThreadSteps, InsertRecordJoins, LinkReferenceJoins, LinkChildJoins, GroupRootJoins,
     ClampDepthJoins, ReadingJoins DEF ThreadNext
<1>2. ThreadInv /\ JoinInv /\ UNCHANGED threadVars => JoinInv'
  <2> SUFFICES ASSUME JoinInv, UNCHANGED threadVars PROVE JoinInv'
    OBVIOUS
  <2>1. records' = records /\ arena' = arena /\ walk' = walk
    BY DEF threadVars
  <2>2. \A i : Together(i)' <=> Together(i)
    BY <2>1 DEF Together, NamedInside
  <2>3. (OwnContainers' <=> OwnContainers) /\ (ChainInv' <=> ChainInv) /\ (Unlinked' <=> Unlinked)
    BY <2>1 DEF OwnContainers, ChainInv, Unlinked, References, NamedInside
  <2> QED BY <2>1, <2>2, <2>3 DEF JoinInv
<1> QED BY <1>1, <1>2

(***************************************************************************)
(* A record that no chain goes past is in the thread of its nearest        *)
(* reference when the headers have been read, and stays there through the  *)
(* grouping by subject and the depth limit.                                *)
(***************************************************************************)
THEOREM RepliesAreTogether == ThreadSpec => []RepliesJoinTheirParent
PROOF
<1>1. ThreadInit => ThreadInv /\ JoinInv
  BY ThreadStarts, JoiningStarts
<1>2. ThreadInv /\ [ThreadNext]_threadVars => ThreadInv'
  BY ThreadSteps
<1>3. ThreadInv /\ JoinInv /\ [ThreadNext]_threadVars => JoinInv'
  BY JoinSteps
<1>4. ThreadInv /\ JoinInv => RepliesJoinTheirParent
  <2> SUFFICES ASSUME JoinInv, walk.phase \in {"roots", "group", "clamp", "build", "done"},
                      NEW i \in 1..Len(records)
               PROVE  LET refs == records[i].references
                      IN  refs # <<>> /\ ~NamedInside(i) =>
                              RootOf(arena, arena.by_article[i])
                              = RootOf(arena, arena.by_id[refs[Len(refs)]])
    BY DEF RepliesJoinTheirParent
  <2>1. Together(i)
    BY DEF JoinInv
  <2> QED BY <2>1 DEF Together
<1> QED BY <1>1, <1>2, <1>3, <1>4, PTL DEF ThreadSpec

-----------------------------------------------------------------------------
(* ThreadNode                                                              *)

\* One level more of a node, and one level down.
WithReplies(above) == above \cup UNION {ToSet(m.children) : m \in above}

WithRepliesStep(c, above, k) == WithReplies(above)

Replying == INSTANCE FoldTheorems WITH
    step <- WithRepliesStep, weigh <- NoWeight, Holds <- NoClaim

Spread(x, n, f) ==
    /\ NodesWithin(x, n) = f[n]
    /\ f[0] = {x}
    /\ \A k \in 1..n : f[k] = WithReplies(f[k - 1])

\* The nodes within a number of levels, level by level.
LEMMA NodesWithinAre ==
    ASSUME NEW x, NEW n \in Nat
    PROVE  \E f : Spread(x, n, f)
PROOF
<1>1. PICK g : Replying!Recurses(g, x, {x}, n)
  BY Replying!RecursionDefined
<1>2. g = [k \in 0..n |-> IF k = 0 THEN {x} ELSE WithReplies(g[k - 1])]
  BY <1>1 DEF Replying!Recurses, WithRepliesStep
<1> DEFINE f == CHOOSE h : h = [k \in 0..n |-> IF k = 0 THEN {x} ELSE WithReplies(h[k - 1])]
<1>3. f = [k \in 0..n |-> IF k = 0 THEN {x} ELSE WithReplies(f[k - 1])]
  BY <1>2
<1>4. NodesWithin(x, n) = f[n]
  BY DEF NodesWithin, WithReplies
<1> HIDE DEF f
<1>5. \A k \in 0..n : f[k] = IF k = 0 THEN {x} ELSE WithReplies(f[k - 1])
  BY <1>3
<1>6. Spread(x, n, f)
  BY <1>4, <1>5 DEF Spread
<1> QED BY <1>6

\* Each number of levels adds the replies to the nodes within one less.
LEMMA NodesWithinGrow ==
    ASSUME NEW x
    PROVE  /\ NodesWithin(x, 0) = {x}
           /\ \A n \in Nat : NodesWithin(x, n + 1) = WithReplies(NodesWithin(x, n))
PROOF
<1>1. NodesWithin(x, 0) = {x}
  <2>1. PICK f : Spread(x, 0, f)
    BY NodesWithinAre
  <2> QED BY <2>1 DEF Spread
<1>2. ASSUME NEW n \in Nat
      PROVE  NodesWithin(x, n + 1) = WithReplies(NodesWithin(x, n))
  <2>1. PICK f : Spread(x, n, f)
    BY NodesWithinAre
  <2>2. PICK g : Spread(x, n + 1, g)
    BY NodesWithinAre
  <2> DEFINE G == {k \in 0..n : f[k] = g[k]}
  <2>3. 0 \in G
    BY <2>1, <2>2 DEF Spread
  <2>4. \A k \in 1..n : k - 1 \in G => k \in G
    BY <2>1, <2>2 DEF Spread
  <2>5. 0..n \subseteq G
    <3> HIDE DEF G
    <3> QED BY <2>3, <2>4, Walking!Upward
  <2>6. f[n] = g[n]
    BY <2>5
  <2>7. g[n + 1] = WithReplies(g[n + 1 - 1]) /\ n + 1 - 1 = n
    BY <2>2 DEF Spread
  <2> QED BY <2>1, <2>2, <2>6, <2>7 DEF Spread
<1> QED BY <1>1, <1>2

(***************************************************************************)
(* Seen from the top: the node, and what is within its replies.            *)
(***************************************************************************)
LEMMA NodesWithinReplies ==
    ASSUME NEW x
    PROVE  \A n \in Nat : NodesWithin(x, n + 1)
                          = {x} \cup UNION {NodesWithin(y, n) : y \in ToSet(x.children)}
PROOF
<1> DEFINE Kids == ToSet(x.children)
           FromTop(n) == NodesWithin(x, n + 1) = {x} \cup UNION {NodesWithin(y, n) : y \in Kids}
<1>1. FromTop(0)
  <2>1. NodesWithin(x, 0 + 1) = WithReplies({x}) /\ \A y : NodesWithin(y, 0) = {y}
    BY NodesWithinGrow
  <2>2. WithReplies({x}) = {x} \cup Kids
    BY DEF WithReplies
  <2> HIDE DEF Kids
  <2> QED BY <2>1, <2>2
<1>2. ASSUME NEW n \in Nat, FromTop(n)
      PROVE  FromTop(n + 1)
  <2>0. n + 1 \in Nat
    OBVIOUS
  <2>1. /\ NodesWithin(x, n + 1 + 1) = WithReplies(NodesWithin(x, n + 1))
        /\ \A y : NodesWithin(y, n + 1) = WithReplies(NodesWithin(y, n))
    BY <2>0, NodesWithinGrow
  <2>2. \A y : y \in NodesWithin(y, n)
    <3> DEFINE H == {k \in 0..n : \A y : y \in NodesWithin(y, k)}
    <3>1. 0 \in H
      BY NodesWithinGrow
    <3>2. ASSUME NEW k \in 1..n, k - 1 \in H PROVE k \in H
      <4>1. k - 1 \in Nat /\ k - 1 + 1 = k
        OBVIOUS
      <4>2. \A y : NodesWithin(y, k) = WithReplies(NodesWithin(y, k - 1))
        BY <4>1, NodesWithinGrow
      <4> QED BY <3>2, <4>2 DEF WithReplies
    <3>3. 0..n \subseteq H
      <4> HIDE DEF H
      <4> QED BY <3>1, <3>2, Walking!Upward
    <3> QED BY <3>3
  <2> DEFINE Old == {x} \cup UNION {NodesWithin(y, n) : y \in Kids}
             New == {x} \cup UNION {NodesWithin(y, n + 1) : y \in Kids}
  <2>3. \A y : NodesWithin(y, n) \subseteq NodesWithin(y, n + 1)
    BY <2>1 DEF WithReplies
  <2>4. \A y : \A m \in NodesWithin(y, n) : ToSet(m.children) \subseteq NodesWithin(y, n + 1)
    BY <2>1 DEF WithReplies
  <2>5. \A y : \A z \in NodesWithin(y, n + 1) :
           z \in NodesWithin(y, n) \/ \E m \in NodesWithin(y, n) : z \in ToSet(m.children)
    BY <2>1 DEF WithReplies
  <2>6. WithReplies(Old) = New
    <3>1. ASSUME NEW z \in WithReplies(Old) PROVE z \in New
      <4>1. CASE z \in Old
        BY <2>3, <4>1
      <4>2. CASE z \in ToSet(x.children)
        BY <2>2, <2>3, <4>2
      <4>3. ASSUME NEW y \in Kids, NEW m \in NodesWithin(y, n), z \in ToSet(m.children)
            PROVE  z \in New
        BY <2>4, <4>3
      <4> QED BY <3>1, <4>1, <4>2, <4>3 DEF WithReplies
    <3>2. ASSUME NEW z \in New PROVE z \in WithReplies(Old)
      <4>1. CASE z = x
        BY <4>1 DEF WithReplies
      <4>2. ASSUME NEW y \in Kids, z \in NodesWithin(y, n + 1)
            PROVE  z \in WithReplies(Old)
        BY <2>5, <4>2 DEF WithReplies
      <4> QED BY <4>1, <4>2
    <3> QED BY <3>1, <3>2
  <2> QED BY <1>2, <2>1, <2>6
<1> HIDE DEF FromTop
<1>3. \A n \in Nat : FromTop(n)
  <2> SUFFICES ASSUME NEW n \in Nat PROVE FromTop(n)
    OBVIOUS
  <2> DEFINE G == {k \in 0..n : FromTop(k)}
  <2>1. 0 \in G
    BY <1>1
  <2>2. ASSUME NEW k \in 1..n, k - 1 \in G PROVE k \in G
    <3>1. k - 1 \in Nat /\ k - 1 + 1 = k /\ FromTop(k - 1)
      BY <2>2
    <3> QED BY <1>2, <3>1
  <2>3. 0..n \subseteq G
    <3> HIDE DEF G
    <3> QED BY <2>1, <2>2, Walking!Upward
  <2> QED BY <2>3
<1> QED BY <1>3 DEF FromTop

-----------------------------------------------------------------------------
(* The trees built                                                         *)

\* What the children of a container have been built into.
Branches(a, t, c) == [i \in DOMAIN ChildrenOf(a, c) |-> t[ChildrenOf(a, c)[i]]]

\* One level more is built.
Grow(a, t) == [c \in 1..Size(a) |-> Pruned(ArticleOf(a, c), Gathered(a, Branches(a, t, c)))]

GrowStep(a, t, k) == Grow(a, t)

Leaves(a) == [c \in 1..Size(a) |-> Pruned(ArticleOf(a, c), <<>>)]

Building == INSTANCE FoldTheorems WITH step <- GrowStep, weigh <- NoWeight, Holds <- NoClaim

(***************************************************************************)
(* Each tree is made of those of the children with one level less.         *)
(***************************************************************************)
LEMMA TreesAre ==
    ASSUME NEW a, Size(a) \in Nat
    PROVE  /\ \A c \in Containers(a) : Trees(a)[0][c] = Pruned(ArticleOf(a, c), <<>>)
           /\ \A n \in 1..Size(a) : \A c \in Containers(a) :
                 Trees(a)[n][c]
                 = Pruned(ArticleOf(a, c), Gathered(a, Branches(a, Trees(a)[n - 1], c)))
PROOF
<1> DEFINE N == Size(a)
           F(t) == [n \in 0..N |-> IF n = 0 THEN Leaves(a) ELSE Grow(a, t[n - 1])]
<1>1. PICK g : Building!Recurses(g, a, Leaves(a), N)
  BY Building!RecursionDefined
<1>2. g = F(g)
  BY <1>1 DEF Building!Recurses, GrowStep
<1>3. ASSUME NEW t
      PROVE  F(t) = [n \in 0..N |->
                [c \in 1..N |->
                   IF n = 0 THEN Pruned(ArticleOf(a, c), <<>>)
                   ELSE LET below == [i \in DOMAIN ChildrenOf(a, c) |-> t[n - 1][ChildrenOf(a, c)[i]]]
                        IN  Pruned(ArticleOf(a, c), Gathered(a, below))]]
  BY DEF Leaves, Grow, Branches
<1> DEFINE t == CHOOSE t : t = F(t)
<1>4. Trees(a) = t
  BY <1>3 DEF Trees
<1>5. t = F(t)
  <2> HIDE DEF F
  <2> QED BY <1>2
<1> HIDE DEF t
<1>6. /\ t[0] = Leaves(a)
      /\ \A n \in 1..N : t[n] = Grow(a, t[n - 1])
  BY <1>5
<1> QED BY <1>4, <1>6 DEF Leaves, Grow, Containers

-----------------------------------------------------------------------------
\* The lowest of some numbers is one of them.
LEMMA LowestIs ==
    ASSUME NEW X \in SUBSET Nat, X # {}
    PROVE  Lowest(X) \in X /\ \A y \in X : Lowest(X) <= y
PROOF
<1>1. PICK m \in X : \A y \in X : m <= y
  BY Walking!LeastNumber
<1> QED BY <1>1 DEF Lowest

\* The trees there are, in an order of their oldest articles.
InOrder(a, trees, order) ==
    /\ order \in Seq(DOMAIN trees) /\ IsInjective(order)
    /\ ToSet(order) = {i \in DOMAIN trees : trees[i] # <<>>}
    /\ Gathered(a, trees) = [j \in DOMAIN order |-> trees[order[j]][1]]
    /\ \A i, j \in DOMAIN order :
          i < j => Oldest(a, trees[order[i]][1]) <= Oldest(a, trees[order[j]][1])

LEMMA GatheredIs ==
    ASSUME NEW a, NEW n \in Nat, NEW trees, DOMAIN trees = 1..n,
           \A i \in 1..n : trees[i] # <<>> => Oldest(a, trees[i][1]) \in Nat
    PROVE  \E order : InOrder(a, trees, order)
PROOF
<1> DEFINE kept == {i \in DOMAIN trees : trees[i] # <<>>}
           key == [i \in kept |-> Oldest(a, trees[i][1])]
           order == SortedBy(kept, key)
<1>1. kept \in SUBSET (1..n) /\ kept \in SUBSET Nat
  OBVIOUS
<1>2. IsFiniteSet(kept)
  <2>1. IsFiniteSet(1..n)
    BY FS_Interval
  <2> HIDE DEF kept
  <2> QED BY <1>1, <2>1, FS_Subset
<1>3. \A i \in kept : key[i] = Oldest(a, trees[i][1]) /\ key[i] \in Nat
  OBVIOUS
<1>4. Gathered(a, trees) = [j \in DOMAIN order |-> trees[order[j]][1]]
  BY DEF Gathered
<1>5. kept = {i \in DOMAIN trees : trees[i] # <<>>} /\ kept \subseteq DOMAIN trees
  OBVIOUS
<1> HIDE DEF kept, key
<1>6. /\ order \in Seq(kept) /\ ToSet(order) = kept /\ IsInjective(order)
      /\ \A i, j \in DOMAIN order : i < j => key[order[i]] <= key[order[j]]
  BY <1>1, <1>2, <1>3, SortedByIs
<1> HIDE DEF order
<1>7. \A j \in DOMAIN order : order[j] \in kept
  BY <1>6
<1>8. order \in Seq(DOMAIN trees)
  BY <1>5, <1>6
<1>9. \A i, j \in DOMAIN order :
         i < j => Oldest(a, trees[order[i]][1]) <= Oldest(a, trees[order[j]][1])
  BY <1>3, <1>6, <1>7
<1>10. InOrder(a, trees, order)
  BY <1>4, <1>5, <1>6, <1>8, <1>9 DEF InOrder
<1> QED BY <1>10

-----------------------------------------------------------------------------
(* What a tree holds                                                       *)

\* All the articles of a node, and those of the containers below one.
ArticlesIn(a, x) == ArticlesWithin(x, Size(a))

ArticlesUnder(a, c) == {ArticleOf(a, d) : d \in Subtree(a, c)} \ {0}

\* n levels reach everything in a node.
Settled(x, n) == \A m \in NodesWithin(x, n) : ToSet(m.children) \subseteq NodesWithin(x, n)

\* A list of nodes with articles of their own, oldest first.
Listed(a, list) ==
    /\ list = [j \in 1..Len(list) |-> list[j]] /\ Len(list) \in Nat
    /\ \A j \in 1..Len(list) : /\ ArticlesIn(a, list[j]) \in SUBSET Nat
                               /\ ArticlesIn(a, list[j]) # {}
    /\ \A i, j \in 1..Len(list) :
          i # j => ArticlesIn(a, list[i]) \cap ArticlesIn(a, list[j]) = {}

\* A node as build() makes it.
Sound(a, x) ==
    /\ Listed(a, x.children)
    /\ x.article = 0 => Len(x.children) >= 2
    /\ \A i, j \in 1..Len(x.children) : i < j => Oldest(a, x.children[i]) < Oldest(a, x.children[j])
    /\ ArticlesIn(a, x) = ({x.article} \cup UNION {ArticlesIn(a, y) : y \in ToSet(x.children)}) \ {0}
    /\ \A y \in ToSet(x.children) : x.article \notin ArticlesIn(a, y)

\* A tree of c of n levels at most.
GoodTree(a, c, n, x) ==
    /\ Settled(x, n)
    /\ \A m \in NodesWithin(x, n) : Sound(a, m)
    /\ ArticlesIn(a, x) \in SUBSET Nat /\ ArticlesIn(a, x) # {}
    /\ ArticlesIn(a, x) \subseteq ArticlesUnder(a, c)

\* A node is within itself, and settled once for all.
LEMMA SettledLevels ==
    ASSUME NEW x, NEW n \in Nat
    PROVE  /\ x \in NodesWithin(x, n)
           /\ \A k \in Nat : Settled(x, n) /\ n <= k => NodesWithin(x, k) = NodesWithin(x, n)
PROOF
<1>1. \A k \in Nat : NodesWithin(x, k + 1) = WithReplies(NodesWithin(x, k))
  BY NodesWithinGrow
<1>2. x \in NodesWithin(x, n)
  <2> DEFINE H == {k \in 0..n : x \in NodesWithin(x, k)}
  <2>1. 0 \in H
    BY NodesWithinGrow
  <2>2. ASSUME NEW k \in 1..n, k - 1 \in H PROVE k \in H
    <3>1. k - 1 \in Nat /\ k - 1 + 1 = k
      OBVIOUS
    <3>2. NodesWithin(x, k) = WithReplies(NodesWithin(x, k - 1))
      BY <1>1, <3>1
    <3> QED BY <2>2, <3>2 DEF WithReplies
  <2>3. 0..n \subseteq H
    <3> HIDE DEF H
    <3> QED BY <2>1, <2>2, Walking!Upward
  <2> QED BY <2>3
<1>3. ASSUME NEW k \in Nat, Settled(x, n), n <= k
      PROVE  NodesWithin(x, k) = NodesWithin(x, n)
  <2> DEFINE G == {j \in 0..(k - n) : NodesWithin(x, n + j) = NodesWithin(x, n)}
  <2>1. 0 \in G
    BY <1>3
  <2>2. ASSUME NEW j \in 1..(k - n), j - 1 \in G PROVE j \in G
    <3>1. n + (j - 1) \in Nat /\ n + (j - 1) + 1 = n + j
      OBVIOUS
    <3>2. NodesWithin(x, n + j) = WithReplies(NodesWithin(x, n + (j - 1)))
      BY <1>1, <3>1
    <3>3. NodesWithin(x, n + (j - 1)) = NodesWithin(x, n)
      BY <2>2
    <3>4. WithReplies(NodesWithin(x, n)) = NodesWithin(x, n)
      BY <1>3 DEF WithReplies, Settled
    <3> QED BY <3>2, <3>3, <3>4
  <2>3. 0..(k - n) \subseteq G
    <3>1. k - n \in Nat
      BY <1>3
    <3> HIDE DEF G
    <3> QED BY <2>1, <2>2, <3>1, Walking!Upward
  <2>4. k - n \in 0..(k - n) /\ n + (k - n) = k
    BY <1>3
  <2> QED BY <2>3, <2>4
<1> QED BY <1>2, <1>3

-----------------------------------------------------------------------------
(* Containers with articles of their own                                   *)

\* No article is in two containers.
Apart(a) ==
    \A c, d \in Containers(a) :
        ArticleOf(a, c) = ArticleOf(a, d) /\ ArticleOf(a, c) # 0 => c = d

\* The children of a container: what is below one is below the container,
\* which is not, and what is below two of them is in neither.
Offspring(a, c) ==
    LET kids == ChildrenOf(a, c)
    IN  /\ Len(kids) \in Nat /\ DOMAIN kids = 1..Len(kids)
        /\ \A i \in 1..Len(kids) : /\ kids[i] \in Containers(a) /\ ParentOf(a, kids[i]) = c
                                   /\ c \notin Subtree(a, kids[i])
                                   /\ Subtree(a, kids[i]) \subseteq Subtree(a, c)
        /\ \A i, j \in 1..Len(kids) :
              i # j => Subtree(a, kids[i]) \cap Subtree(a, kids[j]) = {}
        /\ \A d \in Containers(a) : ParentOf(a, d) = c => \E i \in 1..Len(kids) : kids[i] = d

LEMMA ChildrenAre ==
    ASSUME NEW a, IsForest(a), NEW c \in Containers(a)
    PROVE  Offspring(a, c)
PROOF
<1> DEFINE kids == ChildrenOf(a, c)
<1>1. /\ kids \in Seq(Nat) /\ IsInjective(kids)
      /\ ToSet(kids) = {d \in Containers(a) : ParentOf(a, d) = c}
  BY SizeIs DEF IsForest, Agreeing
<1> HIDE DEF kids
<1>2. Len(kids) \in Nat /\ DOMAIN kids = 1..Len(kids)
  BY <1>1
<1>3. \A i \in 1..Len(kids) : kids[i] \in Containers(a) /\ ParentOf(a, kids[i]) = c
  BY <1>1, <1>2 DEF ToSet
<1>4. ASSUME NEW d \in Containers(a), ParentOf(a, d) = c
      PROVE  Subtree(a, d) \subseteq Subtree(a, c)
  <2> DEFINE T == Subtree(a, c)
             U == Subtree(a, d)
             X == U \ T
  <2>1. /\ c \in T /\ \A e \in Containers(a) : ParentOf(a, e) \in T => e \in T
        /\ U \subseteq Containers(a) /\ \A e \in U \ {d} : ParentOf(a, e) \in U
    BY SubtreeIs
  <2> HIDE DEF T, U
  <2>2. d \in T
    BY <1>4, <2>1
  <2>3. X \in SUBSET Containers(a) /\ \A e \in X : ParentOf(a, e) \in X
    BY <2>1, <2>2
  <2> HIDE DEF X
  <2>4. X = {}
    BY <2>3 DEF IsForest, Rooted
  <2> QED BY <2>4 DEF X, T, U
<1>5. \A i \in 1..Len(kids) : c \notin Subtree(a, kids[i]) /\ Subtree(a, kids[i]) \subseteq Subtree(a, c)
  BY <1>3, <1>4, ApartFromBelow
<1>6. ASSUME NEW i \in 1..Len(kids), NEW j \in 1..Len(kids), i # j
      PROVE  Subtree(a, kids[i]) \cap Subtree(a, kids[j]) = {}
  <2>1. kids[i] # kids[j]
    BY <1>1, <1>2, <1>6 DEF IsInjective
  <2>2. ASSUME NEW d \in Containers(a), NEW e \in Containers(a), d # e,
               ParentOf(a, d) = c, c \notin Subtree(a, e)
        PROVE  d \notin Subtree(a, e)
    BY <2>2, SubtreeIs
  <2>3. kids[i] \notin Subtree(a, kids[j]) /\ kids[j] \notin Subtree(a, kids[i])
    BY <1>3, <1>5, <2>1, <2>2
  <2> QED BY <1>3, <2>3, SubtreesApart
<1>7. \A d \in Containers(a) : ParentOf(a, d) = c => \E i \in 1..Len(kids) : kids[i] = d
  BY <1>1, <1>2 DEF ToSet
<1>8. /\ Len(kids) \in Nat /\ DOMAIN kids = 1..Len(kids)
      /\ \A i \in 1..Len(kids) : /\ kids[i] \in Containers(a) /\ ParentOf(a, kids[i]) = c
                                 /\ c \notin Subtree(a, kids[i])
                                 /\ Subtree(a, kids[i]) \subseteq Subtree(a, c)
      /\ \A i, j \in 1..Len(kids) : i # j => Subtree(a, kids[i]) \cap Subtree(a, kids[j]) = {}
      /\ \A d \in Containers(a) : ParentOf(a, d) = c => \E i \in 1..Len(kids) : kids[i] = d
  BY <1>2, <1>3, <1>5, <1>6, <1>7
<1> QED BY <1>8 DEF Offspring, kids

\* What is below two containers shares no article when they share no container.
LEMMA ArticlesApart ==
    ASSUME NEW a, IsForest(a), Apart(a), NEW c \in Containers(a), NEW d \in Containers(a),
           Subtree(a, c) \cap Subtree(a, d) = {}
    PROVE  ArticlesUnder(a, c) \cap ArticlesUnder(a, d) = {}
PROOF
<1>1. Subtree(a, c) \subseteq Containers(a) /\ Subtree(a, d) \subseteq Containers(a)
  BY SubtreeIs
<1> QED BY <1>1 DEF Apart, ArticlesUnder

-----------------------------------------------------------------------------
(* Putting a node over its replies                                         *)

\* Whole trees of n levels at most, apart from each other and oldest first.
GoodList(a, n, list) ==
    /\ Listed(a, list)
    /\ \A j \in 1..Len(list) : /\ Settled(list[j], n)
                               /\ \A m \in NodesWithin(list[j], n) : Sound(a, m)
    /\ \A i, j \in 1..Len(list) : i < j => Oldest(a, list[i]) < Oldest(a, list[j])

LEMMA NodeIs ==
    ASSUME NEW a, Size(a) \in Nat, NEW n \in Nat, n + 1 <= Size(a), NEW art \in Nat,
           NEW kids, GoodList(a, n, kids), art = 0 => Len(kids) >= 2,
           \A j \in 1..Len(kids) : art \notin ArticlesIn(a, kids[j])
    PROVE  LET x == Node(art, kids)
           IN  /\ Settled(x, n + 1)
               /\ \A m \in NodesWithin(x, n + 1) : Sound(a, m)
               /\ ArticlesIn(a, x)
                  = ({art} \cup UNION {ArticlesIn(a, kids[j]) : j \in 1..Len(kids)}) \ {0}
PROOF
<1>0. PICK x : x = Node(art, kids)
  OBVIOUS
<1>1. x.article = art /\ x.children = kids
  BY <1>0 DEF Node
<1>2. /\ Len(kids) \in Nat /\ kids = [j \in 1..Len(kids) |-> kids[j]]
      /\ Listed(a, kids)
  BY DEF GoodList, Listed
<1>3. ToSet(kids) = {kids[j] : j \in 1..Len(kids)}
  BY <1>2 DEF ToSet
<1> DEFINE K == ToSet(kids)
<1>4. \A y \in K : Settled(y, n) /\ \A m \in NodesWithin(y, n) : Sound(a, m)
  BY <1>3 DEF GoodList
<1>5. NodesWithin(x, n + 1) = {x} \cup UNION {NodesWithin(y, n) : y \in K}
  BY <1>1, NodesWithinReplies
<1>6. \A y \in K : y \in NodesWithin(y, n)
  BY SettledLevels
<1> HIDE DEF K
<1>7. Settled(x, n + 1)
  <2>1. \A m \in NodesWithin(x, n + 1) : ToSet(m.children) \subseteq NodesWithin(x, n + 1)
    <3> SUFFICES ASSUME NEW m \in NodesWithin(x, n + 1), NEW z \in ToSet(m.children)
                 PROVE  z \in NodesWithin(x, n + 1)
      OBVIOUS
    <3>1. CASE m = x
      BY <1>1, <1>5, <1>6, <3>1 DEF K
    <3>2. ASSUME NEW y \in K, m \in NodesWithin(y, n)
          PROVE  z \in NodesWithin(x, n + 1)
      BY <1>4, <1>5, <3>2 DEF Settled
    <3> QED BY <1>5, <3>1, <3>2
  <2> QED BY <2>1 DEF Settled
<1>8. \A y \in K : NodesWithin(y, Size(a)) = NodesWithin(y, n)
  BY <1>4, SettledLevels
<1>9. NodesWithin(x, Size(a)) = NodesWithin(x, n + 1)
  <2>1. n + 1 \in Nat
    OBVIOUS
  <2> QED BY <1>7, <2>1, SettledLevels
<1>10. ArticlesIn(a, x) = ({art} \cup UNION {ArticlesIn(a, y) : y \in K}) \ {0}
  <2>1. ArticlesIn(a, x) = {m.article : m \in NodesWithin(x, n + 1)} \ {0}
    BY <1>9 DEF ArticlesIn, ArticlesWithin
  <2>2. \A y \in K : ArticlesIn(a, y) = {m.article : m \in NodesWithin(y, n)} \ {0}
    BY <1>8 DEF ArticlesIn, ArticlesWithin
  <2> DEFINE A == ({art} \cup UNION {ArticlesIn(a, y) : y \in K}) \ {0}
  <2>3. ASSUME NEW v \in ArticlesIn(a, x) PROVE v \in A
    <3>1. PICK m \in NodesWithin(x, n + 1) : v = m.article /\ v # 0
      BY <2>1, <2>3
    <3>2. CASE m = x
      BY <1>1, <3>1, <3>2
    <3>3. ASSUME NEW y \in K, m \in NodesWithin(y, n) PROVE v \in A
      BY <2>2, <3>1, <3>3
    <3> QED BY <1>5, <3>2, <3>3
  <2>4. ASSUME NEW v \in A PROVE v \in ArticlesIn(a, x)
    <3>1. CASE v = art
      BY <1>1, <1>5, <2>1, <2>4, <3>1
    <3>2. ASSUME NEW y \in K, v \in ArticlesIn(a, y) PROVE v \in ArticlesIn(a, x)
      <4>1. PICK m \in NodesWithin(y, n) : v = m.article /\ v # 0
        BY <2>2, <3>2
      <4>2. m \in NodesWithin(x, n + 1)
        BY <1>5
      <4> QED BY <2>1, <4>1, <4>2
    <3> QED BY <2>4, <3>1, <3>2
  <2> HIDE DEF A
  <2> QED BY <2>3, <2>4 DEF A
<1>11. Sound(a, x)
  <2>1. \A i, j \in 1..Len(kids) : i < j => Oldest(a, kids[i]) < Oldest(a, kids[j])
    BY DEF GoodList
  <2>2. \A y \in K : art \notin ArticlesIn(a, y)
    BY <1>3 DEF K
  <2> QED BY <1>1, <1>2, <1>10, <2>1, <2>2 DEF Sound, K
<1>12. \A m \in NodesWithin(x, n + 1) : Sound(a, m)
  BY <1>4, <1>5, <1>11
<1>13. UNION {ArticlesIn(a, y) : y \in K} = UNION {ArticlesIn(a, kids[j]) : j \in 1..Len(kids)}
  BY <1>3 DEF K
<1> QED BY <1>0, <1>7, <1>10, <1>12, <1>13

\* A tree without replies.
LEMMA LeafIs ==
    ASSUME NEW a, Size(a) \in Nat, NEW art \in Nat, art # 0
    PROVE  LET x == Node(art, <<>>)
           IN  /\ Settled(x, 0)
               /\ \A m \in NodesWithin(x, 0) : Sound(a, m)
               /\ ArticlesIn(a, x) = {art}
PROOF
<1>0. PICK x : x = Node(art, <<>>)
  OBVIOUS
<1>1. x.article = art /\ x.children = <<>> /\ Len(<<>>) = 0 /\ DOMAIN <<>> = {}
  BY <1>0 DEF Node
<1>2. ToSet(x.children) = {}
  BY <1>1 DEF ToSet
<1>3. NodesWithin(x, 0) = {x}
  BY NodesWithinGrow
<1>4. Settled(x, 0)
  BY <1>2, <1>3 DEF Settled
<1>5. NodesWithin(x, Size(a)) = {x}
  BY <1>3, <1>4, SettledLevels
<1>6. ArticlesIn(a, x) = {art}
  BY <1>1, <1>5 DEF ArticlesIn, ArticlesWithin
<1>7. Sound(a, x)
  <2>1. Listed(a, x.children)
    <3>1. <<>> = [j \in 1..0 |-> <<>>[j]]
      OBVIOUS
    <3> QED BY <1>1, <3>1 DEF Listed
  <2>2. \A i, j \in 1..Len(x.children) : FALSE
    BY <1>1
  <2> QED BY <1>1, <1>2, <1>6, <2>1, <2>2 DEF Sound
<1> QED BY <1>0, <1>3, <1>4, <1>6, <1>7

-----------------------------------------------------------------------------
(* build()                                                                 *)

\* The articles of a list of trees.
Held(a, list) == UNION {ArticlesIn(a, list[j]) : j \in 1..Len(list)}

\* No tree, or one of c.
OneTree(a, c, n, t) == t = <<>> \/ \E x : t = <<x>> /\ GoodTree(a, c, n, x)

\* The trees of what is below c, and its own article.
Growing(a, c, n, art, kids) ==
    /\ GoodList(a, n, kids)
    /\ \A j \in 1..Len(kids) : art \notin ArticlesIn(a, kids[j])
    /\ (({art} \cup Held(a, kids)) \ {0}) \subseteq ArticlesUnder(a, c)

\* What build() makes of a container with an article, a reply or more, or none.
LEMMA PrunedIs ==
    ASSUME NEW a, Size(a) \in Nat, NEW n \in Nat, n + 1 <= Size(a), NEW art \in Nat,
           NEW c, NEW kids, Growing(a, c, n, art, kids)
    PROVE  /\ OneTree(a, c, n + 1, Pruned(art, kids))
           /\ Held(a, Pruned(art, kids)) = ({art} \cup Held(a, kids)) \ {0}
PROOF
<1> DEFINE t == Pruned(art, kids)
<1>0. /\ GoodList(a, n, kids)
      /\ \A j \in 1..Len(kids) : art \notin ArticlesIn(a, kids[j])
      /\ (({art} \cup Held(a, kids)) \ {0}) \subseteq ArticlesUnder(a, c)
  BY DEF Growing
<1>1. /\ Len(kids) \in Nat /\ kids = [j \in 1..Len(kids) |-> kids[j]]
      /\ \A j \in 1..Len(kids) : ArticlesIn(a, kids[j]) \in SUBSET Nat /\ ArticlesIn(a, kids[j]) # {}
  BY <1>0 DEF GoodList, Listed
<1>2. 0 \notin Held(a, kids) /\ Held(a, kids) \in SUBSET Nat
  <2>1. \A j \in 1..Len(kids) : 0 \notin ArticlesIn(a, kids[j])
    BY DEF ArticlesIn, ArticlesWithin
  <2> QED BY <1>1, <2>1 DEF Held
<1>3. CASE art = 0 /\ Len(kids) = 0
  <2>1. kids = <<>>
    BY <1>1, <1>3
  <2>2. t = <<>>
    BY <1>3, <2>1 DEF Pruned
  <2>3. Held(a, t) = {} /\ Held(a, kids) = {}
    BY <1>3, <2>1, <2>2 DEF Held
  <2> HIDE DEF t
  <2> QED BY <1>3, <2>2, <2>3 DEF OneTree, t
<1>4. CASE art = 0 /\ Len(kids) = 1
  <2> DEFINE x == kids[1]
  <2>1. kids = <<x>> /\ 1 \in 1..Len(kids)
    <3>1. kids = [j \in 1..1 |-> kids[j]]
      BY <1>1, <1>4
    <3> QED BY <1>4, <3>1
  <2>2. t = kids
    BY <1>4 DEF Pruned
  <2>3. Settled(x, n) /\ \A m \in NodesWithin(x, n) : Sound(a, m)
    BY <1>0, <2>1 DEF GoodList
  <2>4. NodesWithin(x, n + 1) = NodesWithin(x, n)
    BY <2>3, SettledLevels
  <2>5. Held(a, kids) = ArticlesIn(a, x)
    BY <1>4 DEF Held
  <2>6. ArticlesIn(a, x) \in SUBSET Nat /\ ArticlesIn(a, x) # {}
    BY <1>1, <2>1
  <2>7. ArticlesIn(a, x) \subseteq ArticlesUnder(a, c)
    BY <1>0, <1>2, <2>5
  <2> HIDE DEF x, t
  <2>8. GoodTree(a, c, n + 1, x)
    BY <2>3, <2>4, <2>6, <2>7 DEF GoodTree, Settled
  <2>9. OneTree(a, c, n + 1, t)
    BY <2>1, <2>2, <2>8 DEF OneTree
  <2>10. Held(a, t) = ({art} \cup Held(a, kids)) \ {0}
    BY <1>2, <1>4, <2>2
  <2> QED BY <2>9, <2>10 DEF t
<1>5. CASE art # 0 \/ Len(kids) >= 2
  <2> DEFINE x == Node(art, kids)
  <2>1. t = <<x>>
    <3>1. ~(art = 0 /\ Len(kids) <= 1)
      BY <1>1, <1>5
    <3> QED BY <3>1 DEF Pruned
  <2>2. art = 0 => Len(kids) >= 2
    BY <1>5
  <2>3. /\ Settled(x, n + 1)
        /\ \A m \in NodesWithin(x, n + 1) : Sound(a, m)
        /\ ArticlesIn(a, x) = ({art} \cup Held(a, kids)) \ {0}
    BY <1>0, <2>2, NodeIs DEF Held
  <2> HIDE DEF x, t
  <2>4. ArticlesIn(a, x) # {}
    <3>1. CASE art # 0
      BY <2>3, <3>1
    <3>2. CASE art = 0
      <4>1. 1 \in 1..Len(kids)
        BY <1>1, <2>2, <3>2
      <4>2. PICK v \in ArticlesIn(a, kids[1]) : TRUE
        BY <1>1, <4>1
      <4>3. v \in Held(a, kids)
        BY <4>1, <4>2 DEF Held
      <4> QED BY <1>2, <2>3, <4>3
    <3> QED BY <3>1, <3>2
  <2>5. ArticlesIn(a, x) \in SUBSET Nat
    BY <1>2, <2>3
  <2>6. GoodTree(a, c, n + 1, x)
    BY <1>0, <2>3, <2>4, <2>5 DEF GoodTree
  <2>7. OneTree(a, c, n + 1, t)
    BY <2>1, <2>6 DEF OneTree
  <2>8. Held(a, t) = ArticlesIn(a, x)
    <3>1. Len(t) = 1 /\ t[1] = x
      BY <2>1
    <3>2. \A j \in 1..Len(t) : j = 1
      BY <3>1
    <3>3. 1 \in 1..Len(t)
      BY <3>1
    <3> HIDE DEF t
    <3> QED BY <3>1, <3>2, <3>3 DEF Held
  <2> QED BY <2>3, <2>7, <2>8 DEF t
<1>6. (art = 0 /\ Len(kids) = 0) \/ (art = 0 /\ Len(kids) = 1) \/ art # 0 \/ Len(kids) >= 2
  BY <1>1
<1> QED BY <1>3, <1>4, <1>5, <1>6

\* The articles of one tree at most.
LEMMA HeldIs ==
    ASSUME NEW a
    PROVE  /\ Held(a, <<>>) = {}
           /\ \A x : Held(a, <<x>>) = ArticlesIn(a, x)
PROOF
<1>1. Held(a, <<>>) = {}
  <2>1. \A j \in 1..Len(<<>>) : FALSE
    OBVIOUS
  <2> QED BY <2>1 DEF Held
<1>2. ASSUME NEW x
      PROVE  Held(a, <<x>>) = ArticlesIn(a, x)
  <2> DEFINE t == <<x>>
  <2>1. Len(t) = 1 /\ t[1] = x
    OBVIOUS
  <2> HIDE DEF t
  <2>2. 1..Len(t) = {1}
    BY <2>1
  <2>3. Held(a, t) = ArticlesIn(a, x)
    BY <2>1, <2>2 DEF Held
  <2> QED BY <2>3 DEF t
<1> QED BY <1>1, <1>2

(***************************************************************************)
(* What build() makes of a container and n levels below is a whole tree,   *)
(* if the children and n - 1 levels were: nothing they hold is left out.   *)
(***************************************************************************)
LEMMA TreeGrows ==
    ASSUME NEW a, IsForest(a), Apart(a), NEW n \in 1..Size(a), NEW c \in Containers(a),
           \A d \in Containers(a) : OneTree(a, d, n - 1, Trees(a)[n - 1][d])
    PROVE  /\ OneTree(a, c, n, Trees(a)[n][c])
           /\ ArticleOf(a, c) # 0 => ArticleOf(a, c) \in Held(a, Trees(a)[n][c])
           /\ \A d \in Containers(a) : ParentOf(a, d) = c =>
                 Held(a, Trees(a)[n - 1][d]) \subseteq Held(a, Trees(a)[n][c])
PROOF
<1> DEFINE art == ArticleOf(a, c)
           cs == ChildrenOf(a, c)
           t == Trees(a)[n - 1]
           below == Branches(a, t, c)
           kids == Gathered(a, below)
<1>0. Size(a) \in Nat /\ art \in Nat /\ n - 1 \in Nat /\ n - 1 + 1 = n /\ n <= Size(a)
  BY SizeIs DEF IsForest
<1>1. Trees(a)[n][c] = Pruned(art, kids)
  BY <1>0, TreesAre
<1>2. /\ Len(cs) \in Nat /\ DOMAIN cs = 1..Len(cs)
      /\ \A i \in 1..Len(cs) : /\ cs[i] \in Containers(a) /\ ParentOf(a, cs[i]) = c
                               /\ c \notin Subtree(a, cs[i])
                               /\ Subtree(a, cs[i]) \subseteq Subtree(a, c)
      /\ \A i, j \in 1..Len(cs) : i # j => Subtree(a, cs[i]) \cap Subtree(a, cs[j]) = {}
      /\ \A d \in Containers(a) : ParentOf(a, d) = c => \E i \in 1..Len(cs) : cs[i] = d
  <2>1. Offspring(a, c)
    BY ChildrenAre
  <2> QED BY <2>1 DEF Offspring
<1>3. DOMAIN below = 1..Len(cs) /\ \A i \in 1..Len(cs) : below[i] = t[cs[i]]
  BY <1>2 DEF Branches
<1>4. \A i \in 1..Len(cs) : OneTree(a, cs[i], n - 1, below[i])
  BY <1>2, <1>3
<1> HIDE DEF below, t, cs, art, kids
<1>5. \A i \in 1..Len(cs) : below[i] # <<>> =>
         /\ below[i] = <<below[i][1]>> /\ GoodTree(a, cs[i], n - 1, below[i][1])
  BY <1>4 DEF OneTree
<1>6. \A i \in 1..Len(cs) : below[i] # <<>> =>
         /\ Oldest(a, below[i][1]) \in ArticlesIn(a, below[i][1])
         /\ Oldest(a, below[i][1]) \in Nat
  <2>1. \A x : ArticlesIn(a, x) \in SUBSET Nat /\ ArticlesIn(a, x) # {} =>
                  Oldest(a, x) \in ArticlesIn(a, x) /\ Oldest(a, x) \in Nat
    BY LowestIs DEF Oldest, ArticlesIn
  <2> QED BY <1>5, <2>1 DEF GoodTree
<1>7. PICK order : InOrder(a, below, order)
  BY <1>2, <1>3, <1>6, GatheredIs
<1>8. /\ Len(order) \in Nat /\ DOMAIN order = 1..Len(order)
      /\ \A j \in 1..Len(order) : order[j] \in 1..Len(cs) /\ below[order[j]] # <<>>
      /\ \A i, j \in 1..Len(order) : i # j => order[i] # order[j]
      /\ kids = [j \in 1..Len(order) |-> below[order[j]][1]]
      /\ \A i, j \in 1..Len(order) :
            i < j => Oldest(a, below[order[i]][1]) <= Oldest(a, below[order[j]][1])
      /\ \A i \in 1..Len(cs) : below[i] # <<>> => \E j \in 1..Len(order) : order[j] = i
  <2>1. order \in Seq(1..Len(cs)) /\ IsInjective(order)
        /\ ToSet(order) = {i \in 1..Len(cs) : below[i] # <<>>}
        /\ kids = [j \in DOMAIN order |-> below[order[j]][1]]
        /\ \A i, j \in DOMAIN order :
              i < j => Oldest(a, below[order[i]][1]) <= Oldest(a, below[order[j]][1])
    BY <1>3, <1>7 DEF InOrder, kids
  <2>2. Len(order) \in Nat /\ DOMAIN order = 1..Len(order)
    BY <2>1
  <2>3. \A j \in 1..Len(order) : order[j] \in {i \in 1..Len(cs) : below[i] # <<>>}
    BY <2>1, <2>2 DEF ToSet
  <2>4. \A i, j \in 1..Len(order) : i # j => order[i] # order[j]
    BY <2>1, <2>2 DEF IsInjective
  <2>5. \A i \in 1..Len(cs) : below[i] # <<>> => \E j \in 1..Len(order) : order[j] = i
    BY <2>1, <2>2 DEF ToSet
  <2>6. kids = [j \in 1..Len(order) |-> below[order[j]][1]]
    BY <2>1, <2>2
  <2> QED BY <2>1, <2>2, <2>3, <2>4, <2>5, <2>6
<1>9. Len(kids) = Len(order) /\ \A j \in 1..Len(kids) : kids[j] = below[order[j]][1]
  BY <1>8
<1>10. \A j \in 1..Len(kids) :
          /\ GoodTree(a, cs[order[j]], n - 1, kids[j])
          /\ Oldest(a, kids[j]) \in ArticlesIn(a, kids[j]) /\ Oldest(a, kids[j]) \in Nat
  BY <1>5, <1>6, <1>8, <1>9
<1>11. \A i, j \in 1..Len(kids) :
          i # j => ArticlesIn(a, kids[i]) \cap ArticlesIn(a, kids[j]) = {}
  <2> SUFFICES ASSUME NEW i \in 1..Len(kids), NEW j \in 1..Len(kids), i # j
               PROVE  ArticlesIn(a, kids[i]) \cap ArticlesIn(a, kids[j]) = {}
    OBVIOUS
  <2>1. ArticlesUnder(a, cs[order[i]]) \cap ArticlesUnder(a, cs[order[j]]) = {}
    <3>1. /\ order[i] \in 1..Len(cs) /\ order[j] \in 1..Len(cs) /\ order[i] # order[j]
      BY <1>8, <1>9
    <3> QED BY <1>2, <3>1, ArticlesApart
  <2> QED BY <1>10, <2>1 DEF GoodTree
<1>12. GoodList(a, n - 1, kids)
  <2>1. Listed(a, kids)
    <3>1. kids = [j \in 1..Len(kids) |-> kids[j]] /\ Len(kids) \in Nat
      BY <1>8, <1>9
    <3> QED BY <1>10, <1>11, <3>1 DEF Listed, GoodTree
  <2>2. ASSUME NEW i \in 1..Len(kids), NEW j \in 1..Len(kids), i < j
        PROVE  Oldest(a, kids[i]) < Oldest(a, kids[j])
    <3>1. Oldest(a, kids[i]) <= Oldest(a, kids[j])
      BY <1>8, <1>9, <2>2
    <3>2. i # j
      BY <2>2, <1>8, <1>9
    <3>3. Oldest(a, kids[i]) # Oldest(a, kids[j])
      BY <1>10, <1>11, <3>2
    <3> QED BY <1>10, <3>1, <3>3
  <2> QED BY <1>10, <2>1, <2>2 DEF GoodList, GoodTree
<1>13. \A i \in 1..Len(cs) : ArticlesUnder(a, cs[i]) \subseteq ArticlesUnder(a, c)
  BY <1>2 DEF ArticlesUnder
<1>14. (({art} \cup Held(a, kids)) \ {0}) \subseteq ArticlesUnder(a, c)
  <2>1. art # 0 => art \in ArticlesUnder(a, c)
    BY SubtreeIs DEF ArticlesUnder, art
  <2>2. \A j \in 1..Len(kids) : ArticlesIn(a, kids[j]) \subseteq ArticlesUnder(a, c)
    BY <1>8, <1>9, <1>10, <1>13 DEF GoodTree
  <2> QED BY <2>1, <2>2 DEF Held
<1>15. \A j \in 1..Len(kids) : art \notin ArticlesIn(a, kids[j])
  <2> SUFFICES ASSUME NEW j \in 1..Len(kids), art \in ArticlesIn(a, kids[j]) PROVE FALSE
    OBVIOUS
  <2> DEFINE d == cs[order[j]]
  <2>1. d \in Containers(a) /\ c \notin Subtree(a, d) /\ Subtree(a, d) \subseteq Containers(a)
    BY <1>2, <1>8, <1>9, SubtreeIs
  <2>2. art \in ArticlesUnder(a, d)
    BY <1>10 DEF GoodTree
  <2> HIDE DEF d
  <2> QED BY <2>1, <2>2 DEF ArticlesUnder, Apart, art
<1>16. /\ OneTree(a, c, n, Pruned(art, kids))
       /\ Held(a, Pruned(art, kids)) = ({art} \cup Held(a, kids)) \ {0}
  <2> DEFINE m == n - 1
  <2>1. m \in Nat /\ m + 1 <= Size(a) /\ Growing(a, c, m, art, kids) /\ m + 1 = n
    BY <1>0, <1>12, <1>14, <1>15 DEF Growing
  <2> HIDE DEF m
  <2>2. /\ OneTree(a, c, m + 1, Pruned(art, kids))
        /\ Held(a, Pruned(art, kids)) = ({art} \cup Held(a, kids)) \ {0}
    BY <1>0, <2>1, PrunedIs
  <2> QED BY <2>1, <2>2
<1>17. ASSUME NEW d \in Containers(a), ParentOf(a, d) = c
       PROVE  Held(a, Trees(a)[n - 1][d]) \subseteq Held(a, kids)
  <2>1. PICK i \in 1..Len(cs) : cs[i] = d
    BY <1>2, <1>17
  <2>2. below[i] = Trees(a)[n - 1][d]
    BY <1>3, <2>1 DEF t
  <2>3. CASE below[i] = <<>>
    BY <2>2, <2>3, HeldIs
  <2>4. CASE below[i] # <<>>
    <3>1. PICK j \in 1..Len(kids) : order[j] = i
      BY <1>8, <1>9, <2>4
    <3>2. below[i] = <<kids[j]>>
      BY <1>5, <1>9, <2>4, <3>1
    <3>3. Held(a, below[i]) = ArticlesIn(a, kids[j])
      BY <3>2, HeldIs
    <3> QED BY <2>2, <3>3 DEF Held
  <2> QED BY <2>3, <2>4
<1>18. 0 \notin Held(a, kids)
  BY DEF Held, ArticlesIn, ArticlesWithin
<1>19. \A d \in Containers(a) : ParentOf(a, d) = c =>
          Held(a, Trees(a)[n - 1][d]) \subseteq Held(a, Trees(a)[n][c])
  BY <1>1, <1>16, <1>17, <1>18
<1>20. art # 0 => art \in Held(a, Trees(a)[n][c])
  BY <1>1, <1>16
<1> QED BY <1>1, <1>16, <1>19, <1>20 DEF art

-----------------------------------------------------------------------------
(***************************************************************************)
(* build() makes a whole tree of every container, or none.                 *)
(***************************************************************************)
LEMMA TreesAreWhole ==
    ASSUME NEW a, IsForest(a), Apart(a)
    PROVE  /\ \A n \in 0..Size(a) : \A c \in Containers(a) : OneTree(a, c, n, Trees(a)[n][c])
           /\ \A n \in 0..Size(a) : \A c \in Containers(a) :
                 ArticleOf(a, c) # 0 => ArticleOf(a, c) \in Held(a, Trees(a)[n][c])
PROOF
<1>0. Size(a) \in Nat /\ \A c \in Containers(a) : ArticleOf(a, c) \in Nat
  BY SizeIs DEF IsForest
<1> DEFINE N == Size(a)
           G == {n \in 0..N : \A c \in Containers(a) :
                    /\ OneTree(a, c, n, Trees(a)[n][c])
                    /\ ArticleOf(a, c) # 0 => ArticleOf(a, c) \in Held(a, Trees(a)[n][c])}
<1>1. 0 \in G
  <2> SUFFICES ASSUME NEW c \in Containers(a)
               PROVE  /\ OneTree(a, c, 0, Trees(a)[0][c])
                      /\ ArticleOf(a, c) # 0 => ArticleOf(a, c) \in Held(a, Trees(a)[0][c])
    BY <1>0
  <2> DEFINE art == ArticleOf(a, c)
             x == Node(art, <<>>)
  <2>1. Trees(a)[0][c] = Pruned(art, <<>>) /\ Len(<<>>) = 0
    BY <1>0, TreesAre
  <2>2. CASE art = 0
    <3>1. Trees(a)[0][c] = <<>>
      BY <2>1, <2>2 DEF Pruned
    <3> QED BY <2>2, <3>1 DEF OneTree
  <2>3. CASE art # 0
    <3>1. Trees(a)[0][c] = <<x>>
      BY <2>1, <2>3 DEF Pruned
    <3>2. /\ Settled(x, 0) /\ \A m \in NodesWithin(x, 0) : Sound(a, m)
          /\ ArticlesIn(a, x) = {art}
      BY <1>0, <2>3, LeafIs
    <3>3. art \in ArticlesUnder(a, c)
      BY <2>3, SubtreeIs DEF ArticlesUnder
    <3> HIDE DEF x
    <3>4. GoodTree(a, c, 0, x)
      BY <1>0, <3>2, <3>3 DEF GoodTree
    <3> QED BY <3>1, <3>2, <3>4, HeldIs DEF OneTree
  <2> QED BY <2>2, <2>3
<1>2. ASSUME NEW n \in 1..N, n - 1 \in G PROVE n \in G
  <2>1. \A c \in Containers(a) :
           /\ OneTree(a, c, n, Trees(a)[n][c])
           /\ ArticleOf(a, c) # 0 => ArticleOf(a, c) \in Held(a, Trees(a)[n][c])
    BY <1>2, TreeGrows
  <2> QED BY <1>0, <2>1
<1>3. 0..N \subseteq G
  <2> HIDE DEF G
  <2> QED BY <1>0, <1>1, <1>2, Walking!Upward
<1> QED BY <1>3

(***************************************************************************)
(* A tree of enough levels holds what is below its container.              *)
(***************************************************************************)
LEMMA TreeHolds ==
    ASSUME NEW a, IsForest(a), Apart(a), NEW d \in Containers(a), ArticleOf(a, d) # 0,
           NEW k \in 0..Size(a), Climb(a, d)[k] # 0, NEW n \in k..Size(a)
    PROVE  ArticleOf(a, d) \in Held(a, Trees(a)[n][Climb(a, d)[k]])
PROOF
<1> DEFINE up == Climb(a, d)
           N == Size(a)
           v == ArticleOf(a, d)
           G == {j \in 0..N : up[j] # 0 =>
                    up[j] \in Containers(a) /\ \A m \in j..N : v \in Held(a, Trees(a)[m][up[j]])}
<1>1. N \in Nat
  BY SizeIs DEF IsForest
<1>2. /\ up[0] = d
      /\ \A j \in 1..N + 1 : up[j] = IF up[j - 1] = 0 THEN 0 ELSE ParentOf(a, up[j - 1])
  BY ClimbIs DEF IsForest
<1> HIDE DEF up
<1>3. 0 \in G
  <2>1. \A m \in 0..N : v \in Held(a, Trees(a)[m][d])
    BY TreesAreWhole
  <2> QED BY <1>1, <1>2, <2>1
<1>4. ASSUME NEW j \in 1..N, j - 1 \in G PROVE j \in G
  <2> SUFFICES ASSUME up[j] # 0
               PROVE  /\ up[j] \in Containers(a)
                      /\ \A m \in j..N : v \in Held(a, Trees(a)[m][up[j]])
    OBVIOUS
  <2> DEFINE e == up[j - 1]
  <2>1. e # 0 /\ up[j] = ParentOf(a, e) /\ j \in 1..N + 1
    BY <1>1, <1>2
  <2>2. e \in Containers(a) /\ \A m \in (j - 1)..N : v \in Held(a, Trees(a)[m][e])
    BY <1>4, <2>1
  <2>3. up[j] \in Containers(a)
    BY <2>1, <2>2 DEF IsForest, ArenaTyped
  <2> HIDE DEF e, v
  <2>4. ASSUME NEW m \in j..N PROVE v \in Held(a, Trees(a)[m][up[j]])
    <3>1. m - 1 \in (j - 1)..N /\ m \in 1..N /\ m - 1 \in 0..N
      BY <1>1
    <3>2. v \in Held(a, Trees(a)[m - 1][e])
      BY <2>2, <3>1
    <3>3. \A x \in Containers(a) : OneTree(a, x, m - 1, Trees(a)[m - 1][x])
      BY <3>1, TreesAreWhole
    <3>4. Held(a, Trees(a)[m - 1][e]) \subseteq Held(a, Trees(a)[m][up[j]])
      BY <2>1, <2>2, <2>3, <3>1, <3>3, TreeGrows
    <3> QED BY <3>2, <3>4
  <2> QED BY <2>3, <2>4
<1>5. 0..N \subseteq G
  <2> HIDE DEF G
  <2> QED BY <1>1, <1>3, <1>4, Walking!Upward
<1>6. k \in G
  BY <1>5
<1> QED BY <1>6 DEF up

\* So the tree of a root holds every article of its thread.
LEMMA BuiltHolds ==
    ASSUME NEW a, IsForest(a), Apart(a), NEW d \in Containers(a), ArticleOf(a, d) # 0
    PROVE  /\ RootOf(a, d) \in Containers(a)
           /\ ArticleOf(a, d) \in Held(a, Built(a, RootOf(a, d)))
PROOF
<1> DEFINE up == Climb(a, d)
           N == Size(a)
           r == RootOf(a, d)
<1>1. N \in Nat /\ d \in Nat /\ d # 0
  BY SizeIs DEF IsForest
<1>2. r \in Containers(a) /\ r # 0
  BY RootIs, SizeIs DEF IsForest
<1>3. up[0] = d
  BY ClimbIs DEF IsForest
<1>4. up[N + 1] = 0
  <2>1. PICK X : TreeOf(a, r, X) /\ d \in X
    BY RootIs
  <2> QED BY <2>1, RootOfTree
<1> HIDE DEF up
<1>5. \E k \in 0..N : up[k] # 0 /\ up[k + 1] = 0
  <2> SUFFICES ASSUME \A k \in 0..N : up[k] # 0 => up[k + 1] # 0 PROVE FALSE
    OBVIOUS
  <2> DEFINE G == {k \in 0..(N + 1) : up[k] # 0}
  <2>1. 0 \in G
    BY <1>1, <1>3
  <2>2. ASSUME NEW k \in 1..(N + 1), k - 1 \in G PROVE k \in G
    <3>1. k - 1 \in 0..N /\ k - 1 + 1 = k
      BY <1>1
    <3> QED BY <2>2, <3>1
  <2>3. 0..(N + 1) \subseteq G
    <3>1. N + 1 \in Nat
      BY <1>1
    <3> HIDE DEF G
    <3> QED BY <2>1, <2>2, <3>1, Walking!Upward
  <2>4. N + 1 \in G
    BY <1>1, <2>3
  <2> QED BY <1>4, <2>4
<1>6. PICK k \in 0..N : up[k] = r
  <2>1. r = up[CHOOSE k \in 0..N : up[k] # 0 /\ up[k + 1] = 0]
    BY DEF RootOf, up
  <2> HIDE DEF r
  <2> QED BY <1>5, <2>1
<1>7. N \in k..N
  BY <1>1
<1>8. ArticleOf(a, d) \in Held(a, Trees(a)[N][up[k]])
  BY <1>2, <1>6, <1>7, TreeHolds DEF up
<1> QED BY <1>2, <1>6, <1>8 DEF Built

-----------------------------------------------------------------------------
(* The forest returned                                                     *)

\* The replies to some nodes.
RepliesTo(nodes) == UNION {ToSet(m.children) : m \in nodes}

RepliesToStep(c, nodes, k) == RepliesTo(nodes)

Answering == INSTANCE FoldTheorems WITH
    step <- RepliesToStep, weigh <- NoWeight, Holds <- NoClaim

Layered(n, f) ==
    /\ NodesAt(n) = f[n]
    /\ f[0] = ToSet(forest)
    /\ \A k \in 1..n : f[k] = RepliesTo(f[k - 1])

\* The nodes of the forest, level by level.
LEMMA NodesAtAre ==
    ASSUME NEW n \in Nat
    PROVE  \E f : Layered(n, f)
PROOF
<1>1. PICK g : Answering!Recurses(g, 0, ToSet(forest), n)
  BY Answering!RecursionDefined
<1>2. g = [k \in 0..n |-> IF k = 0 THEN ToSet(forest) ELSE RepliesTo(g[k - 1])]
  BY <1>1 DEF Answering!Recurses, RepliesToStep
<1> DEFINE f == CHOOSE h : h = [k \in 0..n |-> IF k = 0 THEN ToSet(forest) ELSE RepliesTo(h[k - 1])]
<1>3. f = [k \in 0..n |-> IF k = 0 THEN ToSet(forest) ELSE RepliesTo(f[k - 1])]
  BY <1>2
<1>4. NodesAt(n) = f[n]
  BY DEF NodesAt, RepliesTo
<1> HIDE DEF f
<1>5. \A k \in 0..n : f[k] = IF k = 0 THEN ToSet(forest) ELSE RepliesTo(f[k - 1])
  BY <1>3
<1>6. Layered(n, f)
  BY <1>4, <1>5 DEF Layered
<1> QED BY <1>6

LEMMA NodesAtGrow ==
    /\ NodesAt(0) = ToSet(forest)
    /\ \A n \in Nat : NodesAt(n + 1) = RepliesTo(NodesAt(n))
PROOF
<1>1. NodesAt(0) = ToSet(forest)
  <2>1. PICK f : Layered(0, f)
    BY NodesAtAre
  <2> QED BY <2>1 DEF Layered
<1>2. ASSUME NEW n \in Nat
      PROVE  NodesAt(n + 1) = RepliesTo(NodesAt(n))
  <2>1. PICK f : Layered(n, f)
    BY NodesAtAre
  <2>2. PICK g : Layered(n + 1, g)
    BY NodesAtAre
  <2> DEFINE G == {k \in 0..n : f[k] = g[k]}
  <2>3. 0 \in G
    BY <2>1, <2>2 DEF Layered
  <2>4. \A k \in 1..n : k - 1 \in G => k \in G
    BY <2>1, <2>2 DEF Layered
  <2>5. 0..n \subseteq G
    <3> HIDE DEF G
    <3> QED BY <2>3, <2>4, Walking!Upward
  <2>6. f[n] = g[n]
    BY <2>5
  <2>7. g[n + 1] = RepliesTo(g[n + 1 - 1]) /\ n + 1 - 1 = n
    BY <2>2 DEF Layered
  <2> QED BY <2>1, <2>2, <2>6, <2>7 DEF Layered
<1> QED BY <1>1, <1>2

\* A forest of whole trees that holds every record.
FullForest ==
    /\ Size(arena) \in Nat /\ Len(records) \in Nat
    /\ Listed(arena, forest)
    /\ \A p \in 1..Len(forest) :
          /\ Settled(forest[p], Size(arena))
          /\ \A m \in NodesWithin(forest[p], Size(arena)) : Sound(arena, m)
    /\ Held(arena, forest) = 1..Len(records)

AllNodes == UNION {NodesWithin(forest[p], Size(arena)) : p \in 1..Len(forest)}

\* Every node on a level is a node of a whole tree.
LEMMA NodesAreSound ==
    ASSUME FullForest
    PROVE  /\ ToSet(forest) \subseteq AllNodes
           /\ \A m \in AllNodes : Sound(arena, m) /\ ToSet(m.children) \subseteq AllNodes
           /\ \A n \in Nat : NodesAt(n) \subseteq AllNodes
PROOF
<1>1. /\ Size(arena) \in Nat /\ forest = [p \in 1..Len(forest) |-> forest[p]]
      /\ \A p \in 1..Len(forest) :
            /\ Settled(forest[p], Size(arena))
            /\ \A m \in NodesWithin(forest[p], Size(arena)) : Sound(arena, m)
  BY DEF FullForest, Listed
<1>2. ToSet(forest) = {forest[p] : p \in 1..Len(forest)}
  BY <1>1 DEF ToSet
<1>3. ToSet(forest) \subseteq AllNodes
  <2>1. \A x : x \in NodesWithin(x, Size(arena))
    BY <1>1, SettledLevels
  <2> QED BY <1>2, <2>1 DEF AllNodes
<1>4. \A m \in AllNodes : Sound(arena, m) /\ ToSet(m.children) \subseteq AllNodes
  <2> SUFFICES ASSUME NEW p \in 1..Len(forest), NEW m \in NodesWithin(forest[p], Size(arena))
               PROVE  Sound(arena, m) /\ ToSet(m.children) \subseteq AllNodes
    BY DEF AllNodes
  <2>1. ToSet(m.children) \subseteq NodesWithin(forest[p], Size(arena))
    BY <1>1 DEF Settled
  <2> QED BY <1>1, <2>1 DEF AllNodes
<1>5. ASSUME NEW n \in Nat PROVE NodesAt(n) \subseteq AllNodes
  <2> DEFINE G == {k \in 0..n : NodesAt(k) \subseteq AllNodes}
  <2>1. 0 \in G
    BY <1>3, NodesAtGrow
  <2>2. ASSUME NEW k \in 1..n, k - 1 \in G PROVE k \in G
    <3>1. k - 1 \in Nat /\ k - 1 + 1 = k
      OBVIOUS
    <3>2. NodesAt(k) = RepliesTo(NodesAt(k - 1))
      BY <3>1, NodesAtGrow
    <3> QED BY <1>4, <2>2, <3>2 DEF RepliesTo
  <2>3. 0..n \subseteq G
    <3> HIDE DEF G
    <3> QED BY <2>1, <2>2, Walking!Upward
  <2> QED BY <2>3
<1> QED BY <1>3, <1>4, <1>5

\* In a list of trees an article is in one tree at most.
LEMMA ListedOnce ==
    ASSUME NEW a, NEW list, Listed(a, list), NEW v,
           NEW i \in 1..Len(list), NEW j \in 1..Len(list),
           v \in ArticlesIn(a, list[i]), v \in ArticlesIn(a, list[j])
    PROVE  i = j
PROOF
<1>1. i # j => ArticlesIn(a, list[i]) \cap ArticlesIn(a, list[j]) = {}
  BY DEF Listed
<1> QED BY <1>1

\* Where a list of trees is: the forest itself, or the replies to a node.
ListAt(k, list) == IF k = 0 THEN list = forest
                   ELSE \E m \in NodesAt(k - 1) : list = m.children

LEMMA ListsAre ==
    ASSUME FullForest, NEW k \in Nat
    PROVE  /\ \A list : ListAt(k, list) =>
                 /\ Listed(arena, list) /\ DOMAIN list = 1..Len(list)
                 /\ \A p \in 1..Len(list) : list[p] \in NodesAt(k)
           /\ \A x \in NodesAt(k) :
                 \E list : ListAt(k, list) /\ \E p \in 1..Len(list) : x = list[p]
PROOF
<1>1. CASE k = 0
  <2>1. Listed(arena, forest) /\ DOMAIN forest = 1..Len(forest)
    <3>1. Listed(arena, forest)
      BY DEF FullForest
    <3>2. forest = [p \in 1..Len(forest) |-> forest[p]]
      BY <3>1 DEF Listed
    <3> QED BY <3>1, <3>2
  <2>2. NodesAt(0) = {forest[p] : p \in 1..Len(forest)}
    BY <2>1, NodesAtGrow DEF ToSet
  <2> QED BY <1>1, <2>1, <2>2 DEF ListAt
<1>2. CASE k # 0
  <2>1. k - 1 \in Nat /\ k - 1 + 1 = k
    BY <1>2
  <2>2. NodesAt(k) = RepliesTo(NodesAt(k - 1)) /\ NodesAt(k - 1) \subseteq AllNodes
    BY <2>1, NodesAtGrow, NodesAreSound
  <2>3. ASSUME NEW m \in NodesAt(k - 1)
        PROVE  /\ Listed(arena, m.children) /\ DOMAIN m.children = 1..Len(m.children)
               /\ ToSet(m.children) = {m.children[p] : p \in 1..Len(m.children)}
    <3>1. Listed(arena, m.children)
      BY <2>2, NodesAreSound DEF Sound
    <3>2. m.children = [p \in 1..Len(m.children) |-> m.children[p]]
      BY <3>1 DEF Listed
    <3> QED BY <3>1, <3>2 DEF ToSet
  <2>4. \A list : ListAt(k, list) =>
           /\ Listed(arena, list) /\ DOMAIN list = 1..Len(list)
           /\ \A p \in 1..Len(list) : list[p] \in NodesAt(k)
    BY <1>2, <2>2, <2>3 DEF ListAt, RepliesTo
  <2>5. ASSUME NEW x \in NodesAt(k)
        PROVE  \E list : ListAt(k, list) /\ \E p \in 1..Len(list) : x = list[p]
    <3>1. PICK m \in NodesAt(k - 1) : x \in ToSet(m.children)
      BY <2>2 DEF RepliesTo
    <3>2. ListAt(k, m.children) /\ \E p \in 1..Len(m.children) : x = m.children[p]
      BY <1>2, <2>3, <3>1 DEF ListAt
    <3> QED BY <3>2
  <2> QED BY <2>4, <2>5
<1> QED BY <1>1, <1>2

(***************************************************************************)
(* An article is in one tree of a level at most, and one that is in a      *)
(* reply is in what it replies to.                                         *)
(***************************************************************************)
LEMMA OneToALevel ==
    ASSUME FullForest, NEW v, v # 0, NEW k \in Nat
    PROVE  \A x, y \in NodesAt(k) :
               v \in ArticlesIn(arena, x) /\ v \in ArticlesIn(arena, y) => x = y
PROOF
<1> DEFINE In(x) == v \in ArticlesIn(arena, x)
           G == {n \in 0..k : \A x, y \in NodesAt(n) : In(x) /\ In(y) => x = y}
<1>1. 0 \in G
  <2> SUFFICES ASSUME NEW x \in NodesAt(0), NEW y \in NodesAt(0), In(x), In(y) PROVE x = y
    OBVIOUS
  <2>1. Listed(arena, forest) /\ DOMAIN forest = 1..Len(forest)
    BY ListsAre DEF ListAt
  <2>2. PICK i \in 1..Len(forest), j \in 1..Len(forest) : x = forest[i] /\ y = forest[j]
    BY <2>1, NodesAtGrow DEF ToSet
  <2> QED BY <2>1, <2>2, ListedOnce
<1>2. ASSUME NEW n \in 1..k, n - 1 \in G PROVE n \in G
  <2> SUFFICES ASSUME NEW x \in NodesAt(n), NEW y \in NodesAt(n), In(x), In(y) PROVE x = y
    OBVIOUS
  <2>1. n \in Nat /\ n # 0 /\ n - 1 \in Nat /\ n - 1 + 1 = n
    OBVIOUS
  <2>2. PICK m \in NodesAt(n - 1), w \in NodesAt(n - 1) : x \in ToSet(m.children) /\ y \in ToSet(w.children)
    BY <2>1, NodesAtGrow DEF RepliesTo
  <2>3. Sound(arena, m) /\ Sound(arena, w)
    BY <2>1, NodesAreSound
  <2>4. In(m) /\ In(w)
    BY <2>2, <2>3 DEF Sound
  <2>5. m = w
    BY <1>2, <2>4
  <2>6. Listed(arena, m.children) /\ m.children = [p \in 1..Len(m.children) |-> m.children[p]]
    BY <2>3 DEF Sound, Listed
  <2>7. DOMAIN m.children = 1..Len(m.children)
    BY <2>6
  <2>8. PICK i \in 1..Len(m.children), j \in 1..Len(m.children) :
            x = m.children[i] /\ y = m.children[j]
    BY <2>2, <2>5, <2>7 DEF ToSet
  <2> QED BY <2>6, <2>8, ListedOnce
<1>3. 0..k \subseteq G
  <2> HIDE DEF G
  <2> QED BY <1>1, <1>2, Walking!Upward
<1> QED BY <1>3

-----------------------------------------------------------------------------
\* The articles of a node are records, and a list has no more nodes than that.
LEMMA ListsAreShort ==
    ASSUME FullForest, NEW k \in Nat
    PROVE  /\ \A x \in NodesAt(k) : ArticlesIn(arena, x) \subseteq 1..Len(records)
           /\ \A list : ListAt(k, list) => Len(list) <= Len(records)
PROOF
<1> DEFINE R == 1..Len(records)
           G == {n \in 0..k : \A x \in NodesAt(n) : ArticlesIn(arena, x) \subseteq R}
<1>0. Len(records) \in Nat /\ Held(arena, forest) = R
  BY DEF FullForest
<1>1. 0 \in G
  <2> SUFFICES ASSUME NEW x \in NodesAt(0) PROVE ArticlesIn(arena, x) \subseteq R
    OBVIOUS
  <2>1. DOMAIN forest = 1..Len(forest)
    BY ListsAre DEF ListAt
  <2>2. \E i \in 1..Len(forest) : x = forest[i]
    BY <2>1, NodesAtGrow DEF ToSet
  <2> HIDE DEF R
  <2> QED BY <1>0, <2>2 DEF Held
<1>2. ASSUME NEW n \in 1..k, n - 1 \in G PROVE n \in G
  <2> SUFFICES ASSUME NEW x \in NodesAt(n) PROVE ArticlesIn(arena, x) \subseteq R
    OBVIOUS
  <2>1. n \in Nat /\ n # 0 /\ n - 1 \in Nat /\ n - 1 + 1 = n
    OBVIOUS
  <2>2. PICK m \in NodesAt(n - 1) : x \in ToSet(m.children)
    BY <2>1, NodesAtGrow DEF RepliesTo
  <2>3. Sound(arena, m) /\ Sound(arena, x)
    BY <2>1, NodesAreSound
  <2>4. ArticlesIn(arena, m) \subseteq R
    BY <1>2
  <2>5. 0 \notin ArticlesIn(arena, x)
    BY DEF ArticlesIn, ArticlesWithin
  <2>6. ArticlesIn(arena, x) \subseteq ArticlesIn(arena, m)
    BY <2>2, <2>3, <2>5 DEF Sound
  <2> QED BY <2>4, <2>6
<1>3. 0..k \subseteq G
  <2> HIDE DEF G
  <2> QED BY <1>1, <1>2, Walking!Upward
<1>4. \A x \in NodesAt(k) : ArticlesIn(arena, x) \subseteq R
  BY <1>3
<1>5. ASSUME NEW list, ListAt(k, list) PROVE Len(list) <= Len(records)
  <2> DEFINE L == 1..Len(list)
             f == [p \in L |-> CHOOSE v \in ArticlesIn(arena, list[p]) : TRUE]
  <2>1. Listed(arena, list) /\ \A p \in L : list[p] \in NodesAt(k)
    BY <1>5, ListsAre
  <2>2. Len(list) \in Nat /\ \A p \in L : ArticlesIn(arena, list[p]) # {}
    BY <2>1 DEF Listed
  <2>3. \A p \in L : f[p] \in ArticlesIn(arena, list[p])
    BY <2>2
  <2>4. IsFiniteSet(L) /\ Cardinality(L) = Len(list) /\ IsFiniteSet(R) /\ Cardinality(R) = Len(records)
    <3>1. \A n \in Nat : IsFiniteSet(1..n) /\ Cardinality(1..n) = n
      BY FS_Interval
    <3> QED BY <1>0, <2>2, <3>1
  <2> HIDE DEF L, R
  <2>5. f \in [L -> R]
    BY <1>4, <2>1, <2>3
  <2> HIDE DEF f
  <2>6. \A p, q \in L : p # q => f[p] # f[q]
    BY <2>1, <2>3, ListedOnce DEF L
  <2>7. ~ Cardinality(R) < Cardinality(L)
    BY <2>4, <2>5, <2>6, FS_PigeonHole
  <2> QED BY <1>0, <2>2, <2>4, <2>7
<1> QED BY <1>4, <1>5

\* An article that a node shows is not below it.
LEMMA NotBelow ==
    ASSUME FullForest, NEW k \in Nat, NEW m \in NodesAt(k), m.article # 0, NEW n \in Nat, k < n,
           NEW y \in NodesAt(n)
    PROVE  m.article \notin ArticlesIn(arena, y)
PROOF
<1> DEFINE v == m.article
           In(x) == v \in ArticlesIn(arena, x)
           d == n - (k + 1)
           G == {j \in 0..d : \A x \in NodesAt(k + 1 + j) : ~In(x)}
<1>1. In(m) /\ \A x \in ToSet(m.children) : ~In(x)
  BY NodesAreSound DEF Sound
<1>2. ASSUME NEW i \in Nat, NEW x \in NodesAt(i + 1), In(x)
      PROVE  \E z \in NodesAt(i) : x \in ToSet(z.children) /\ In(z)
  <2>1. PICK z \in NodesAt(i) : x \in ToSet(z.children)
    BY NodesAtGrow DEF RepliesTo
  <2>2. In(z)
    BY <1>2, <2>1, NodesAreSound DEF Sound
  <2> QED BY <2>1, <2>2
<1> HIDE DEF v
<1>3. v # 0
  BY DEF v
<1>4. 0 \in G
  <2> SUFFICES ASSUME NEW x \in NodesAt(k + 1), In(x) PROVE FALSE
    BY d \in Nat
  <2>1. PICK z \in NodesAt(k) : x \in ToSet(z.children) /\ In(z)
    BY <1>2
  <2>2. z = m
    BY <1>1, <1>3, <2>1, OneToALevel
  <2> QED BY <1>1, <2>1, <2>2
<1>5. ASSUME NEW j \in 1..d, j - 1 \in G PROVE j \in G
  <2> SUFFICES ASSUME NEW x \in NodesAt(k + 1 + j), In(x) PROVE FALSE
    OBVIOUS
  <2>1. k + j \in Nat /\ k + 1 + j = (k + j) + 1 /\ k + 1 + (j - 1) = k + j
    OBVIOUS
  <2>2. PICK z \in NodesAt(k + j) : In(z)
    BY <1>2, <2>1
  <2> QED BY <1>5, <2>1, <2>2
<1>6. 0..d \subseteq G
  <2>1. d \in Nat
    OBVIOUS
  <2> HIDE DEF G, d
  <2> QED BY <1>4, <1>5, <2>1, Walking!Upward
<1>7. d \in G /\ k + 1 + d = n
  BY <1>6
<1> QED BY <1>7 DEF v

\* The nodes within a number of levels are on those levels.
LEMMA WithinIsAbove ==
    ASSUME NEW x \in NodesAt(0), NEW n \in Nat, NEW m \in NodesWithin(x, n)
    PROVE  \E k \in 0..n : m \in NodesAt(k)
PROOF
<1> DEFINE G == {j \in 0..n : \A w \in NodesWithin(x, j) : \E k \in 0..j : w \in NodesAt(k)}
<1>1. 0 \in G
  BY NodesWithinGrow
<1>2. ASSUME NEW j \in 1..n, j - 1 \in G PROVE j \in G
  <2> SUFFICES ASSUME NEW w \in NodesWithin(x, j) PROVE \E k \in 0..j : w \in NodesAt(k)
    OBVIOUS
  <2>1. j - 1 \in Nat /\ j - 1 + 1 = j
    OBVIOUS
  <2>2. NodesWithin(x, j) = WithReplies(NodesWithin(x, j - 1))
    BY <2>1, NodesWithinGrow
  <2>3. CASE w \in NodesWithin(x, j - 1)
    BY <1>2, <2>3
  <2>4. CASE \E z \in NodesWithin(x, j - 1) : w \in ToSet(z.children)
    <3>1. PICK z \in NodesWithin(x, j - 1) : w \in ToSet(z.children)
      BY <2>4
    <3>2. PICK k \in 0..(j - 1) : z \in NodesAt(k)
      BY <1>2, <3>1
    <3>3. w \in NodesAt(k + 1) /\ k + 1 \in 0..j
      BY <3>1, <3>2, NodesAtGrow DEF RepliesTo
    <3> QED BY <3>3
  <2> QED BY <2>2, <2>3, <2>4 DEF WithReplies
<1>3. 0..n \subseteq G
  <2> HIDE DEF G
  <2> QED BY <1>1, <1>2, Walking!Upward
<1> QED BY <1>3

\* Every record has a place.
LEMMA HasPlace ==
    ASSUME FullForest, NEW v \in 1..Len(records)
    PROVE  \E k \in 0..Size(arena) : \E list :
               ListAt(k, list) /\ \E p \in 1..Len(list) : p <= Len(records) /\ list[p].article = v
PROOF
<1>1. Size(arena) \in Nat /\ Len(records) \in Nat /\ v \in Held(arena, forest) /\ v # 0
  BY DEF FullForest
<1>2. PICK i \in 1..Len(forest) : v \in ArticlesIn(arena, forest[i])
  BY <1>1 DEF Held
<1>3. PICK m \in NodesWithin(forest[i], Size(arena)) : m.article = v
  BY <1>2 DEF ArticlesIn, ArticlesWithin
<1>4. forest[i] \in NodesAt(0)
  BY <1>2, ListsAre DEF ListAt
<1>5. PICK k \in 0..Size(arena) : m \in NodesAt(k)
  BY <1>1, <1>4, WithinIsAbove
<1>6. k \in Nat
  BY <1>1
<1>7. PICK list : ListAt(k, list) /\ \E p \in 1..Len(list) : m = list[p]
  BY <1>5, <1>6, ListsAre
<1>8. Len(list) \in Nat /\ Len(list) <= Len(records)
  BY <1>6, <1>7, ListsAre, ListsAreShort DEF Listed
<1>9. PICK p \in 1..Len(list) : m = list[p]
  BY <1>7
<1>10. p <= Len(records)
  BY <1>1, <1>8
<1> QED BY <1>3, <1>7, <1>9, <1>10

\* And no record has two.
LEMMA HasOnePlace ==
    ASSUME FullForest, NEW v, v # 0, NEW k \in Nat, NEW n \in Nat, NEW list, NEW other,
           ListAt(k, list), ListAt(n, other), NEW p \in 1..Len(list), NEW q \in 1..Len(other),
           list[p].article = v, other[q].article = v
    PROVE  list = other /\ p = q
PROOF
<1> DEFINE In(x) == v \in ArticlesIn(arena, x)
<1>1. /\ Listed(arena, list) /\ Listed(arena, other)
      /\ list[p] \in NodesAt(k) /\ other[q] \in NodesAt(n)
  BY ListsAre
<1>2. In(list[p]) /\ In(other[q])
  BY <1>1, NodesAreSound DEF Sound
<1>3. k = n
  <2>1. ~(k < n) /\ ~(n < k)
    BY <1>1, <1>2, NotBelow
  <2> QED BY <2>1
<1>4. list = other
  <2>1. CASE k = 0
    BY <1>3, <2>1 DEF ListAt
  <2>2. CASE k # 0
    <3>1. k - 1 \in Nat
      BY <2>2
    <3>2. PICK m \in NodesAt(k - 1) : list = m.children
      BY <2>2 DEF ListAt
    <3>3. PICK w \in NodesAt(k - 1) : other = w.children
      BY <1>3, <2>2 DEF ListAt
    <3>4. ASSUME NEW z \in NodesAt(k - 1), NEW x \in ToSet(z.children), In(x)
          PROVE  In(z)
      BY <3>1, <3>4, NodesAreSound DEF Sound
    <3>5. list[p] \in ToSet(m.children) /\ other[q] \in ToSet(w.children)
      <4>1. DOMAIN list = 1..Len(list) /\ DOMAIN other = 1..Len(other)
        BY ListsAre
      <4> QED BY <3>2, <3>3, <4>1 DEF ToSet
    <3>6. In(m) /\ In(w)
      BY <1>2, <3>4, <3>5
    <3>7. m = w
      BY <3>1, <3>6, OneToALevel
    <3> QED BY <3>2, <3>3, <3>7
  <2> QED BY <2>1, <2>2
<1>5. p = q
  BY <1>1, <1>2, <1>4, ListedOnce
<1> QED BY <1>4, <1>5

(***************************************************************************)
(* A forest of whole trees that holds every record shows each of them once *)
(* (thread()).                                                             *)
(***************************************************************************)
LEMMA EachShownOnce ==
    ASSUME FullForest, NEW v \in 1..Len(records)
    PROVE  Shown(v) = 1
PROOF
<1> DEFINE Lists == {forest} \cup {m.children : m \in UNION {NodesAt(n) : n \in Levels}}
           P == {place \in Lists \X (1..Len(records)) :
                    /\ place[2] \in DOMAIN place[1]
                    /\ place[1][place[2]].article = v}
<1>0. Size(arena) \in Nat /\ Len(records) \in Nat /\ v # 0 /\ Levels = 0..Size(arena)
  BY DEF FullForest, Levels
<1>1. Shown(v) = Cardinality(P)
  BY DEF Shown
<1>2. \A list \in Lists : \E k \in Nat : ListAt(k, list)
  <2>1. ListAt(0, forest)
    BY DEF ListAt
  <2>2. ASSUME NEW n \in Levels, NEW m \in NodesAt(n) PROVE \E k \in Nat : ListAt(k, m.children)
    <3> DEFINE k == n + 1
    <3>1. k \in Nat /\ k # 0 /\ k - 1 = n
      BY <1>0
    <3> HIDE DEF k
    <3>2. ListAt(k, m.children)
      BY <3>1 DEF ListAt
    <3> QED BY <3>1, <3>2
  <2> QED BY <2>1, <2>2
<1>3. \A k \in 0..Size(arena) : \A list : ListAt(k, list) => list \in Lists
  <2> SUFFICES ASSUME NEW k \in 0..Size(arena), NEW list, ListAt(k, list) PROVE list \in Lists
    OBVIOUS
  <2>1. CASE k = 0
    BY <2>1 DEF ListAt
  <2>2. CASE k # 0
    <3>1. k - 1 \in Levels
      BY <1>0, <2>2
    <3> QED BY <2>2, <3>1 DEF ListAt
  <2> QED BY <2>1, <2>2
<1> HIDE DEF Lists
<1>4. PICK k, list : /\ k \in 0..Size(arena) /\ ListAt(k, list)
                     /\ \E p \in 1..Len(list) : p <= Len(records) /\ list[p].article = v
  BY HasPlace
<1>5. PICK p \in 1..Len(list) : p <= Len(records) /\ list[p].article = v
  BY <1>4
<1>6. k \in Nat /\ Len(list) \in Nat /\ DOMAIN list = 1..Len(list)
  BY <1>0, <1>4, ListsAre DEF Listed
<1>7. <<list, p>> \in P
  <2>1. list \in Lists /\ p \in 1..Len(records) /\ p \in DOMAIN list
    BY <1>0, <1>3, <1>4, <1>5, <1>6
  <2> QED BY <1>5, <2>1
<1>8. ASSUME NEW place \in P PROVE place = <<list, p>>
  <2>1. /\ place = <<place[1], place[2]>> /\ place[1] \in Lists
        /\ place[2] \in DOMAIN place[1] /\ place[1][place[2]].article = v
    OBVIOUS
  <2>2. PICK n \in Nat : ListAt(n, place[1])
    BY <1>2, <2>1
  <2>3. place[2] \in 1..Len(place[1])
    BY <2>1, <2>2, ListsAre
  <2>4. list = place[1] /\ p = place[2]
    <3>1. PICK other, q : other = place[1] /\ q = place[2]
      OBVIOUS
    <3>2. ListAt(n, other) /\ q \in 1..Len(other) /\ other[q].article = v
      BY <2>1, <2>2, <2>3, <3>1
    <3>3. ListAt(k, list) /\ list[p].article = v /\ v # 0 /\ k \in Nat /\ p \in 1..Len(list)
      BY <1>0, <1>4, <1>5, <1>6
    <3>4. list = other /\ p = q
      BY <3>2, <3>3, HasOnePlace
    <3> QED BY <3>1, <3>4
  <2> QED BY <2>1, <2>4
<1> HIDE DEF P
<1>9. P = {<<list, p>>}
  BY <1>7, <1>8
<1> QED BY <1>1, <1>9, FS_Singleton

-----------------------------------------------------------------------------
(* The depth of a built tree                                               *)

(***************************************************************************)
(* Layers of containers, the roots in the first and what is below one in   *)
(* the next, with nothing after layer MaxDepth.                            *)
(***************************************************************************)
Layers(a, rs, S) ==
    /\ ToSet(rs) \subseteq S[0]
    /\ \A k \in 0..MaxDepth : S[k] \in SUBSET Containers(a)
    /\ \A k \in 0..MaxDepth : \A c \in S[k] : ToSet(ChildrenOf(a, c)) \subseteq S[k + 1]
    /\ S[MaxDepth + 1] = {}

\* clamp_depth() leaves no more layers than that.
LEMMA ClampedIsShallow ==
    ASSUME NEW a, IsForest(a), NEW rs, Topmost(a, rs)
    PROVE  \E S : Layers(Clamped(a, rs), rs, S)
PROOF
<1> DEFINE A == Adopters(a, rs)
           D == Adopted(a, rs)
           b == Clamped(a, rs)
<1>0. LastLevel \in Nat /\ LastLevel + 1 = MaxDepth /\ MaxDepth \in Nat
  BY ThreadsAssumption DEF LastLevel
<1>1. A \in SUBSET Containers(a) /\ \A c, x \in A : x \in Subtree(a, c) => x = c
  BY <1>0, LevelIs DEF Adopters
<1>2. A \cap D = {} /\ D \subseteq Containers(a)
  <2>1. \A d : d \in D <=> \E c \in A : d \in Subtree(a, c) /\ d # c
    BY DEF Adopted, Descendants
  <2>2. \A c \in A : Subtree(a, c) \subseteq Containers(a)
    BY <1>1, SubtreeIs
  <2> HIDE DEF A, D
  <2> QED BY <1>1, <2>1, <2>2
<1>3. Flat(a, rs, b)
  BY <1>1, <1>2, ClampedFlattens
<1> HIDE DEF b
<1>4. /\ Containers(b) = Containers(a)
      /\ \A c \in A : ToSet(ChildrenOf(b, c)) \subseteq D
      /\ \A c \in D : ChildrenOf(b, c) = <<>>
      /\ \A c \in Containers(a) : c \notin A \cup D => ChildrenOf(b, c) = ChildrenOf(a, c)
  BY <1>3 DEF Flat, Containers, Adopted, Adopters
<1>5. PICK at : Levelled(a, rs, LastLevel, at)
  BY <1>0, LevelsAre
<1>6. /\ at[LastLevel] = A /\ at[0] = ToSet(rs)
      /\ \A k \in 0..LastLevel : at[k] \in SUBSET Containers(a)
      /\ \A k \in 1..LastLevel : at[k] = {c \in Containers(a) : ParentOf(a, c) \in at[k - 1]}
  BY <1>5 DEF Levelled, Adopters
<1> HIDE DEF A, D
<1> DEFINE S == [k \in 0..(MaxDepth + 1) |-> IF k <= LastLevel THEN at[k]
                                             ELSE IF k = MaxDepth THEN D ELSE {}]
<1>7. /\ \A k \in 0..LastLevel : S[k] = at[k]
      /\ S[MaxDepth] = D /\ S[MaxDepth + 1] = {}
  BY <1>0
<1> HIDE DEF S
<1>8. ToSet(<<>>) = {}
  <2>1. DOMAIN <<>> = {}
    OBVIOUS
  <2> QED BY <2>1 DEF ToSet
<1>9. ASSUME NEW k \in 0..MaxDepth, NEW c \in S[k]
      PROVE  ToSet(ChildrenOf(b, c)) \subseteq S[k + 1]
  <2>1. CASE k = MaxDepth
    BY <1>4, <1>7, <1>8, <1>9, <2>1
  <2>2. CASE k = LastLevel
    BY <1>0, <1>4, <1>6, <1>7, <1>9, <2>2
  <2>3. CASE k < LastLevel
    <3>1. k \in 0..LastLevel /\ k + 1 \in 1..LastLevel /\ k + 1 - 1 = k
          /\ k + 1 \in 0..LastLevel /\ LastLevel \in 0..LastLevel
      BY <1>0, <2>3
    <3>2. c \in at[k] /\ c \in Containers(a) /\ S[k + 1] = at[k + 1]
      BY <1>6, <1>7, <1>9, <3>1
    <3>3. c \notin A
      BY <1>0, <1>5, <1>6, <2>3, <3>1, <3>2, LevelsApart
    <3>4. CASE c \in D
      BY <1>4, <1>8, <3>4
    <3>5. CASE c \notin D
      <4>1. ChildrenOf(b, c) = ChildrenOf(a, c)
        BY <1>4, <3>2, <3>3, <3>5
      <4>2. ToSet(ChildrenOf(a, c)) = {d \in Containers(a) : ParentOf(a, d) = c}
        BY <3>2 DEF IsForest, Agreeing
      <4>3. at[k + 1] = {d \in Containers(a) : ParentOf(a, d) \in at[k]}
        BY <1>6, <3>1
      <4> QED BY <3>2, <4>1, <4>2, <4>3
    <3> QED BY <3>4, <3>5
  <2> QED BY <1>0, <2>1, <2>2, <2>3
<1>10. \A k \in 0..MaxDepth : S[k] \in SUBSET Containers(b)
  <2>1. \A k \in 0..MaxDepth : k \in 0..LastLevel \/ k = MaxDepth
    BY <1>0
  <2> QED BY <1>2, <1>4, <1>6, <1>7, <2>1
<1>11. ToSet(rs) \subseteq S[0]
  <2>1. 0 \in 0..LastLevel
    BY <1>0
  <2> QED BY <1>6, <1>7, <2>1
<1>12. Layers(b, rs, S)
  BY <1>7, <1>9, <1>10, <1>11 DEF Layers
<1> QED BY <1>12 DEF b

\* The layers from one on.
Under(S, k) == UNION {S[j] : j \in k..(MaxDepth + 1)}

LEMMA UnderIs ==
    ASSUME NEW a, NEW rs, NEW S, Layers(a, rs, S), NEW k \in 0..MaxDepth
    PROVE  /\ Under(S, k + 1) \subseteq Under(S, k)
           /\ \A c \in Under(S, k) : /\ c \in Containers(a)
                                     /\ ToSet(ChildrenOf(a, c)) \subseteq Under(S, k + 1)
           /\ Under(S, MaxDepth + 1) = {} /\ ToSet(rs) \subseteq Under(S, 0)
PROOF
<1>0. MaxDepth \in Nat
  BY ThreadsAssumption
<1>1. Under(S, MaxDepth + 1) = {}
  <2>1. \A j \in (MaxDepth + 1)..(MaxDepth + 1) : S[j] = {}
    BY <1>0 DEF Layers
  <2> QED BY <2>1 DEF Under
<1>2. Under(S, k + 1) \subseteq Under(S, k)
  <2>1. \A j \in (k + 1)..(MaxDepth + 1) : j \in k..(MaxDepth + 1)
    BY <1>0
  <2> QED BY <2>1 DEF Under
<1>3. ASSUME NEW j \in k..(MaxDepth + 1), NEW c \in S[j]
      PROVE  c \in Containers(a) /\ ToSet(ChildrenOf(a, c)) \subseteq Under(S, k + 1)
  <2>1. j # MaxDepth + 1
    BY <1>3 DEF Layers
  <2>2. j \in 0..MaxDepth /\ j + 1 \in (k + 1)..(MaxDepth + 1)
    BY <1>0, <2>1
  <2>3. c \in Containers(a) /\ ToSet(ChildrenOf(a, c)) \subseteq S[j + 1]
    BY <1>3, <2>2 DEF Layers
  <2> QED BY <2>2, <2>3 DEF Under
<1>4. ToSet(rs) \subseteq Under(S, 0)
  <2>1. 0 \in 0..(MaxDepth + 1)
    BY <1>0
  <2> QED BY <2>1 DEF Under, Layers
<1>5. \A c \in Under(S, k) : \E j \in k..(MaxDepth + 1) : c \in S[j]
  BY DEF Under
<1> QED BY <1>1, <1>2, <1>3, <1>4, <1>5

\* The replies of a node are trees of the children of its container.
LEMMA GatheredFrom ==
    ASSUME NEW a, IsForest(a), Apart(a), NEW n \in 1..Size(a), NEW c \in Containers(a)
    PROVE  LET kids == Gathered(a, Branches(a, Trees(a)[n - 1], c))
           IN  /\ kids = [j \in 1..Len(kids) |-> kids[j]] /\ Len(kids) \in Nat
               /\ \A j \in 1..Len(kids) :
                     \E d \in ToSet(ChildrenOf(a, c)) : Trees(a)[n - 1][d] = <<kids[j]>>
PROOF
<1> DEFINE cs == ChildrenOf(a, c)
           t == Trees(a)[n - 1]
           below == Branches(a, t, c)
           kids == Gathered(a, below)
<1>1. /\ Len(cs) \in Nat /\ DOMAIN cs = 1..Len(cs)
      /\ \A i \in 1..Len(cs) : cs[i] \in Containers(a)
  BY ChildrenAre DEF Offspring
<1>2. DOMAIN below = 1..Len(cs) /\ \A i \in 1..Len(cs) : below[i] = t[cs[i]]
  BY <1>1 DEF Branches
<1>3. \A d \in Containers(a) : OneTree(a, d, n - 1, t[d])
  <2>1. n - 1 \in 0..Size(a)
    BY SizeIs DEF IsForest
  <2> QED BY <2>1, TreesAreWhole
<1> HIDE DEF below, t, cs, kids
<1>4. \A i \in 1..Len(cs) : below[i] # <<>> =>
         /\ below[i] = <<below[i][1]>> /\ GoodTree(a, cs[i], n - 1, below[i][1])
  BY <1>1, <1>2, <1>3 DEF OneTree
<1>5. \A i \in 1..Len(cs) : below[i] # <<>> => Oldest(a, below[i][1]) \in Nat
  <2>1. \A x : ArticlesIn(a, x) \in SUBSET Nat /\ ArticlesIn(a, x) # {} => Oldest(a, x) \in Nat
    BY LowestIs DEF Oldest, ArticlesIn
  <2> QED BY <1>4, <2>1 DEF GoodTree
<1>6. PICK order : InOrder(a, below, order)
  BY <1>1, <1>2, <1>5, GatheredIs
<1>7. /\ order \in Seq(1..Len(cs))
      /\ ToSet(order) = {i \in 1..Len(cs) : below[i] # <<>>}
      /\ kids = [j \in DOMAIN order |-> below[order[j]][1]]
  BY <1>2, <1>6 DEF InOrder, kids
<1>8. Len(order) \in Nat /\ DOMAIN order = 1..Len(order)
  BY <1>7
<1>9. Len(kids) = Len(order) /\ kids = [j \in 1..Len(kids) |-> kids[j]] /\ Len(kids) \in Nat
      /\ \A j \in 1..Len(kids) : kids[j] = below[order[j]][1]
  BY <1>7, <1>8
<1>10. ASSUME NEW j \in 1..Len(kids)
       PROVE  \E d \in ToSet(cs) : t[d] = <<kids[j]>>
  <2> DEFINE i == order[j]
  <2>1. i \in {l \in 1..Len(cs) : below[l] # <<>>}
    BY <1>7, <1>8, <1>9 DEF ToSet
  <2>2. below[i] = <<kids[j]>> /\ below[i] = t[cs[i]]
    BY <1>2, <1>4, <1>9, <2>1
  <2>3. cs[i] \in ToSet(cs)
    BY <1>1, <2>1 DEF ToSet
  <2> QED BY <2>2, <2>3
<1> QED BY <1>9, <1>10 DEF kids, below, t, cs

\* A tree of a container of those layers.
TreeUnder(a, S, k, y) == \E d \in Under(S, k) : \E m \in 0..Size(a) : Trees(a)[m][d] = <<y>>

\* build() puts nothing higher than its container, so a reply is deeper.
LEMMA RepliesAreDeeper ==
    ASSUME NEW a, IsForest(a), Apart(a), NEW rs, NEW S, Layers(a, rs, S), NEW n \in 0..Size(a)
    PROVE  \A k \in 0..MaxDepth : \A c \in Under(S, k) : \A x : Trees(a)[n][c] = <<x>> =>
               \A y \in ToSet(x.children) : TreeUnder(a, S, k + 1, y)
PROOF
<1> DEFINE Good(m) == \A k \in 0..MaxDepth : \A c \in Under(S, k) : \A x : Trees(a)[m][c] = <<x>> =>
                          \A y \in ToSet(x.children) : TreeUnder(a, S, k + 1, y)
           G == {m \in 0..n : Good(m)}
<1>0. Size(a) \in Nat /\ MaxDepth \in Nat /\ n \in Nat /\ n <= Size(a)
  BY ThreadsAssumption, SizeIs DEF IsForest
<1>1. \A art, kids, x : <<Node(art, kids)>> = <<x>> => x.children = kids
  BY DEF Node
<1>2. Good(0)
  <2> SUFFICES ASSUME NEW k \in 0..MaxDepth, NEW c \in Under(S, k), NEW x, Trees(a)[0][c] = <<x>>,
                      NEW y \in ToSet(x.children)
               PROVE  FALSE
    OBVIOUS
  <2>1. c \in Containers(a)
    BY UnderIs
  <2>2. <<x>> = Pruned(ArticleOf(a, c), <<>>) /\ <<>> # <<x>>
    BY <1>0, <2>1, TreesAre
  <2>3. x.children = <<>>
    BY <1>1, <2>2 DEF Pruned
  <2>4. DOMAIN <<>> = {}
    OBVIOUS
  <2> QED BY <2>3, <2>4 DEF ToSet
<1>3. ASSUME NEW m \in 1..n, Good(m - 1) PROVE Good(m)
  <2> SUFFICES ASSUME NEW k \in 0..MaxDepth, NEW c \in Under(S, k), NEW x, Trees(a)[m][c] = <<x>>,
                      NEW y \in ToSet(x.children)
               PROVE  TreeUnder(a, S, k + 1, y)
    OBVIOUS
  <2> DEFINE kids == Gathered(a, Branches(a, Trees(a)[m - 1], c))
  <2>1. c \in Containers(a) /\ ToSet(ChildrenOf(a, c)) \subseteq Under(S, k + 1)
    BY UnderIs
  <2>2. m \in 1..Size(a) /\ m - 1 \in 0..Size(a)
    BY <1>0
  <2>3. <<x>> = Pruned(ArticleOf(a, c), kids)
    BY <1>0, <2>1, <2>2, TreesAre
  <2>4. /\ kids = [j \in 1..Len(kids) |-> kids[j]] /\ Len(kids) \in Nat
        /\ \A j \in 1..Len(kids) :
              \E d \in ToSet(ChildrenOf(a, c)) : Trees(a)[m - 1][d] = <<kids[j]>>
    BY <2>1, <2>2, GatheredFrom
  <2> HIDE DEF kids
  <2>5. CASE <<x>> = kids
    <3>1. 1 \in 1..Len(kids) /\ kids[1] = x
      BY <2>5
    <3>2. PICK d \in ToSet(ChildrenOf(a, c)) : Trees(a)[m - 1][d] = <<x>>
      BY <2>4, <3>1
    <3>3. d \in Under(S, k + 1)
      BY <2>1
    <3>4. k # MaxDepth
      BY <1>0, <3>3, UnderIs
    <3>5. k + 1 \in 0..MaxDepth
      BY <1>0, <3>4
    <3>6. TreeUnder(a, S, (k + 1) + 1, y)
      BY <1>3, <3>2, <3>3, <3>5
    <3>7. Under(S, (k + 1) + 1) \subseteq Under(S, k + 1)
      BY <3>5, UnderIs
    <3> QED BY <3>6, <3>7 DEF TreeUnder
  <2>6. CASE <<x>> # kids
    <3>1. x.children = kids
      BY <1>1, <2>3, <2>6 DEF Pruned
    <3>2. PICK j \in 1..Len(kids) : y = kids[j]
      BY <2>4, <3>1 DEF ToSet
    <3> QED BY <2>1, <2>2, <2>4, <3>2 DEF TreeUnder
  <2> QED BY <2>5, <2>6
<1> HIDE DEF Good
<1>4. 0..n \subseteq G
  <2>1. 0 \in G
    BY <1>0, <1>2
  <2>2. ASSUME NEW m \in 1..n, m - 1 \in G PROVE m \in G
    BY <1>3, <2>2
  <2> HIDE DEF G
  <2> QED BY <1>0, <2>1, <2>2, Walking!Upward
<1>5. n \in G
  BY <1>0, <1>4
<1> QED BY <1>5 DEF Good

(***************************************************************************)
(* A forest built from roots with that many layers has no more levels      *)
(* (clamp_depth, build).                                                   *)
(***************************************************************************)
LEMMA ShallowForest ==
    ASSUME IsForest(arena), Apart(arena), NEW S, Layers(arena, roots, S),
           \A x \in ToSet(forest) : \E c \in ToSet(roots) : Built(arena, c) = <<x>>
    PROVE  NodesAt(MaxDepth + 1) = {}
PROOF
<1> DEFINE N == MaxDepth + 1
           G == {k \in 0..N : \A x \in NodesAt(k) : TreeUnder(arena, S, k, x)}
<1>0. MaxDepth \in Nat /\ N \in Nat /\ Size(arena) \in Nat /\ 0 \in 0..MaxDepth
  BY ThreadsAssumption, SizeIs DEF IsForest
<1>1. 0 \in G
  <2>1. Size(arena) \in 0..Size(arena) /\ 0 \in 0..N
    BY <1>0
  <2>2. ToSet(roots) \subseteq Under(S, 0)
    BY <1>0, UnderIs
  <2> QED BY <2>1, <2>2, NodesAtGrow DEF TreeUnder, Built
<1>2. ASSUME NEW k \in 1..N, k - 1 \in G PROVE k \in G
  <2>1. k - 1 \in Nat /\ k - 1 + 1 = k /\ k - 1 \in 0..MaxDepth
    BY <1>0
  <2> SUFFICES ASSUME NEW y \in NodesAt(k) PROVE TreeUnder(arena, S, k, y)
    BY <1>0
  <2>2. PICK x \in NodesAt(k - 1) : y \in ToSet(x.children)
    BY <2>1, NodesAtGrow DEF RepliesTo
  <2>3. TreeUnder(arena, S, k - 1, x)
    BY <1>2
  <2>4. PICK d \in Under(S, k - 1), m \in 0..Size(arena) : Trees(arena)[m][d] = <<x>>
    BY <2>3 DEF TreeUnder
  <2>5. TreeUnder(arena, S, k - 1 + 1, y)
    BY <2>1, <2>2, <2>4, RepliesAreDeeper
  <2> QED BY <2>1, <2>5
<1>3. 0..N \subseteq G
  <2> HIDE DEF G, N
  <2> QED BY <1>0, <1>1, <1>2, Walking!Upward
<1>4. N \in G
  BY <1>0, <1>3
<1>5. Under(S, N) = {}
  BY <1>0, UnderIs
<1> QED BY <1>4, <1>5 DEF TreeUnder

-----------------------------------------------------------------------------
(* Where the articles are                                                  *)

\* Each record has a container and no container has another's article.
Homes(a) ==
    /\ \A i \in DOMAIN a.by_article : ArticleOf(a, a.by_article[i]) = i
    /\ \A c \in Containers(a) : ArticleOf(a, c) # 0 =>
          ArticleOf(a, c) \in DOMAIN a.by_article /\ a.by_article[ArticleOf(a, c)] = c

\* No article moved, and the containers added have none.
SameArticles(a, b) ==
    /\ b.by_article = a.by_article /\ Containers(a) \subseteq Containers(b)
    /\ \A c \in Containers(a) : ArticleOf(b, c) = ArticleOf(a, c)
    /\ \A c \in Containers(b) : c \in Containers(a) \/ ArticleOf(b, c) = 0

LEMMA HomesStay ==
    ASSUME NEW a, IsForest(a), Homes(a), NEW b, SameArticles(a, b)
    PROVE  Homes(b)
PROOF
<1>1. a.by_article \in Seq(Containers(a))
  BY DEF IsForest, ArenaTyped
<1>2. \A i \in DOMAIN a.by_article : a.by_article[i] \in Containers(a)
  BY <1>1
<1> QED BY <1>2 DEF Homes, SameArticles

LEMMA HomesApart ==
    ASSUME NEW a, Homes(a)
    PROVE  Apart(a)
PROOF
<1> QED BY DEF Homes, Apart

\* set_parent() leaves the articles where they are.
LEMMA SetParentArticles ==
    ASSUME NEW a, IsForest(a), NEW child \in Containers(a), NEW parent \in Containers(a)
    PROVE  SameArticles(a, SetParent(a, child, parent))
PROOF
<1> DEFINE b == SetParent(a, child, parent)
           cs == a.containers
<1>1. Containers(b) = Containers(a) /\ b.by_article = a.by_article
  BY SetParentKeeps DEF Containers
<1>2. a = [containers |-> cs, by_id |-> a.by_id, by_article |-> a.by_article]
      /\ cs \in Seq(Containing) /\ DOMAIN cs = Containers(a)
  BY DEF IsForest, ArenaTyped, Containers, Size
<1>3. CASE b = a
  BY <1>3 DEF SameArticles
<1>4. CASE b = [a EXCEPT !.containers[child].parent = parent,
                         !.containers[parent].children = Append(@, child)]
  <2> DEFINE ds == [cs EXCEPT ![child].parent = parent,
                              ![parent].children = Append(@, child)]
  <2>1. b.containers = ds
    BY <1>2, <1>4
  <2>2. \A c \in DOMAIN cs : cs[c] \in Containing
    BY <1>2
  <2>3. \A c \in DOMAIN cs : ds[c].article = cs[c].article
    BY <1>2, <2>2 DEF Containing
  <2> HIDE DEF ds, b
  <2> QED BY <1>1, <1>2, <2>1, <2>3 DEF SameArticles, ArticleOf, b
<1> QED BY <1>3, <1>4 DEF SetParent

\* A container made for a reference has no article.
LEMMA ContainerForIdArticles ==
    ASSUME NEW a, IsForest(a), NEW id
    PROVE  SameArticles(a, ContainerForId(a, id))
PROOF
<1> DEFINE b == ContainerForId(a, id)
           cs == a.containers
           n == Size(a)
<1>1. /\ cs \in Seq(Containing) /\ n \in Nat /\ n = Len(cs) /\ DOMAIN cs = Containers(a)
      /\ a = [containers |-> cs, by_id |-> a.by_id, by_article |-> a.by_article]
  BY SizeIs DEF IsForest, ArenaTyped, Containers, Size
<1>2. CASE id \in DOMAIN a.by_id
  <2>1. b = a
    BY <1>2 DEF ContainerForId
  <2> QED BY <2>1 DEF SameArticles
<1>3. CASE id \notin DOMAIN a.by_id
  <2>1. b = Claim(NewContainer(a, 0), id, n + 1)
    BY <1>3 DEF ContainerForId
  <2>2. b.containers = Append(cs, Container(0)) /\ b.by_article = a.by_article
    BY <1>1, <2>1 DEF Claim, NewContainer
  <2>3. Container(0).article = 0
    BY DEF Container
  <2> HIDE DEF b
  <2>4. /\ Size(b) = n + 1
        /\ \A c \in 1..n : b.containers[c] = cs[c]
        /\ b.containers[n + 1] = Container(0)
    BY <1>1, <2>2 DEF Size
  <2>5. \A c \in Containers(b) : c \in 1..n \/ c = n + 1
    BY <1>1, <2>4 DEF Containers
  <2>6. Containers(a) \subseteq Containers(b) /\ Containers(a) = 1..n
    BY <1>1, <2>4 DEF Containers
  <2> QED BY <2>2, <2>3, <2>4, <2>5, <2>6 DEF SameArticles, ArticleOf, b
<1> QED BY <1>2, <1>3

LEMMA SameArticlesTwice ==
    ASSUME NEW a, NEW b, NEW d, SameArticles(a, b), SameArticles(b, d)
    PROVE  SameArticles(a, d)
PROOF
<1> QED BY DEF SameArticles

LEMMA ReferredArticles ==
    ASSUME NEW a, IsForest(a), NEW previous \in {0} \cup Containers(a), NEW id
    PROVE  SameArticles(a, Referred(a, previous, id))
PROOF
<1> DEFINE b == ContainerForId(a, id)
<1>1. SameArticles(a, b) /\ IsForest(b) /\ b.by_id[id] \in Containers(b)
  BY ContainerForIdArticles, ContainerForIdKeeps
<1>2. CASE previous = 0
  <2>1. Referred(a, previous, id) = b
    BY <1>2 DEF Referred
  <2> QED BY <1>1, <2>1
<1>3. CASE previous # 0
  <2>1. Referred(a, previous, id) = SetParent(b, b.by_id[id], previous)
    BY <1>3 DEF Referred
  <2>2. previous \in Containers(b)
    BY <1>1, <1>3 DEF SameArticles
  <2> HIDE DEF b
  <2>3. SameArticles(b, SetParent(b, b.by_id[id], previous))
    BY <1>1, <2>2, SetParentArticles
  <2> QED BY <1>1, <2>1, <2>3, SameArticlesTwice
<1> QED BY <1>2, <1>3

\* clamp_depth() leaves the articles where they are.
LEMMA ClampedArticles ==
    ASSUME NEW a, IsForest(a), NEW rs, Topmost(a, rs)
    PROVE  SameArticles(a, Clamped(a, rs))
PROOF
<1> DEFINE b == Clamped(a, rs)
           cs == a.containers
           A == AtLevel(a, rs, LastLevel)
           below(c) == Subtree(a, c) \ {c}
           adopter(d) == CHOOSE c \in A : d \in below(c)
           D == UNION {below(c) : c \in A}
           sorted(c) == SortedBy(below(c), [d \in below(c) |-> ArticleOf(a, d)])
           ds == [c \in 1..Size(a) |->
                    CASE c \in A -> [cs[c] EXCEPT !.children = sorted(c)]
                      [] c \in D -> [cs[c] EXCEPT !.parent = adopter(c), !.children = <<>>]
                      [] OTHER -> cs[c]]
<1>1. /\ cs \in Seq(Containing) /\ DOMAIN cs = Containers(a)
      /\ a = [containers |-> cs, by_id |-> a.by_id, by_article |-> a.by_article]
  BY DEF IsForest, ArenaTyped, Containers, Size
<1>2. b = [a EXCEPT !.containers = ds]
  BY DEF Clamped
<1> HIDE DEF b
<1>3. b.containers = ds
  BY <1>1, <1>2
<1>4. ASSUME NEW c \in Containers(a) PROVE ds[c].article = cs[c].article
  <2>1. cs[c] \in Containing /\ c \in 1..Size(a)
    <3>1. c \in 1..Size(a)
      BY DEF Containers
    <3>2. cs[c] \in Containing
      BY <1>1
    <3> QED BY <3>1, <3>2
  <2> HIDE DEF A, D, sorted, adopter
  <2>2. \/ ds[c] = [cs[c] EXCEPT !.children = sorted(c)]
        \/ ds[c] = [cs[c] EXCEPT !.parent = adopter(c), !.children = <<>>]
        \/ ds[c] = cs[c]
    BY <2>1
  <2> HIDE DEF ds
  <2> QED BY <2>1, <2>2 DEF Containing
<1> HIDE DEF ds
<1>5. Containers(b) = Containers(a) /\ b.by_article = a.by_article
  BY ClampedKeeps DEF Containers, b
<1> QED BY <1>3, <1>4, <1>5 DEF SameArticles, ArticleOf, b

\* insert() gives the next record a container of its own.
LEMMA InsertedHomes ==
    ASSUME NEW a, IsForest(a), Homes(a), NEW id
    PROVE  Homes(Inserted(a, Len(a.by_article) + 1, id))
PROOF
<1> DEFINE index == Len(a.by_article) + 1
           b == Inserted(a, index, id)
           cs == a.containers
           n == Size(a)
<1>1. /\ cs \in Seq(Containing) /\ n \in Nat /\ n = Len(cs) /\ DOMAIN cs = Containers(a)
      /\ a = [containers |-> cs, by_id |-> a.by_id, by_article |-> a.by_article]
      /\ a.by_article \in Seq(Containers(a))
  BY SizeIs DEF IsForest, ArenaTyped, Containers, Size
<1>2. /\ index \in Nat \ {0} /\ Len(a.by_article) \in Nat
      /\ DOMAIN a.by_article = 1..Len(a.by_article)
      /\ \A i \in DOMAIN a.by_article : a.by_article[i] \in Containers(a)
  BY <1>1
<1> HIDE DEF index
<1>3. b.containers = Append(cs, Container(index)) /\ b.by_article = Append(a.by_article, n + 1)
  BY <1>1 DEF Inserted, Claim, NewContainer
<1>4. Container(index).article = index
  BY DEF Container
<1> HIDE DEF b
<1>5. /\ Size(b) = n + 1
      /\ \A c \in 1..n : b.containers[c] = cs[c]
      /\ b.containers[n + 1] = Container(index)
  BY <1>1, <1>3 DEF Size
<1>6. /\ DOMAIN b.by_article = 1..index /\ b.by_article[index] = n + 1
      /\ \A i \in DOMAIN a.by_article : b.by_article[i] = a.by_article[i]
      /\ \A i \in 1..index : i \in DOMAIN a.by_article \/ i = index
  <2>1. a.by_article \in Seq(Nat) /\ n + 1 \in Nat
    <3>1. Containers(a) \subseteq Nat
      BY DEF Containers
    <3> QED BY <1>1, <3>1
  <2>2. DOMAIN b.by_article = 1..(Len(a.by_article) + 1)
    BY <1>3, <2>1
  <2>3. b.by_article[Len(a.by_article) + 1] = n + 1
    BY <1>3, <2>1
  <2>4. \A i \in 1..Len(a.by_article) : b.by_article[i] = a.by_article[i]
    BY <1>3, <2>1
  <2> QED BY <1>2, <2>2, <2>3, <2>4 DEF index
<1>7. \A c \in Containers(b) : c \in Containers(a) \/ c = n + 1
  BY <1>1, <1>5 DEF Containers
<1>8. /\ \A c \in Containers(a) : ArticleOf(b, c) = ArticleOf(a, c)
      /\ ArticleOf(b, n + 1) = index
  BY <1>1, <1>4, <1>5 DEF ArticleOf, Containers
<1>9. index \in 1..index /\ \A i \in DOMAIN a.by_article : i \in 1..index
  BY <1>2 DEF index
<1>10. \A i \in DOMAIN b.by_article : ArticleOf(b, b.by_article[i]) = i
  BY <1>2, <1>6, <1>8 DEF Homes
<1>11. \A c \in Containers(b) : ArticleOf(b, c) # 0 =>
          ArticleOf(b, c) \in DOMAIN b.by_article /\ b.by_article[ArticleOf(b, c)] = c
  BY <1>6, <1>7, <1>8, <1>9 DEF Homes
<1>12. Homes(b)
  BY <1>10, <1>11 DEF Homes
<1> QED BY <1>12 DEF b, index

-----------------------------------------------------------------------------
(* Roots                                                                   *)

\* A forest's roots: those without a parent that hold an article, each once.
LEMMA RootsOfAre ==
    ASSUME NEW a, IsForest(a)
    PROVE  /\ IsInjective(RootsOf(a))
           /\ \A c \in Containers(a) : ParentOf(a, c) = 0 /\ FirstArticle(a, c) # 0 =>
                 c \in ToSet(RootsOf(a))
PROOF
<1> DEFINE R == {c \in 1..Size(a) : ParentOf(a, c) = 0 /\ FirstArticle(a, c) # 0}
           key == [c \in R |-> FirstArticle(a, c)]
<1>1. RootsOf(a) = SortedBy(R, key)
  BY DEF RootsOf
<1>2. R \subseteq Containers(a) /\ \A c \in Containers(a) :
         ParentOf(a, c) = 0 /\ FirstArticle(a, c) # 0 => c \in R
  BY DEF Containers
<1>3. R \in SUBSET Nat /\ IsFiniteSet(R)
  <2>1. Size(a) \in Nat
    BY SizeIs DEF IsForest
  <2>2. IsFiniteSet(1..Size(a))
    BY <2>1, FS_Interval
  <2>3. R \in SUBSET (1..Size(a))
    OBVIOUS
  <2>4. 1..Size(a) \subseteq Nat
    BY <2>1
  <2> HIDE DEF R
  <2>5. IsFiniteSet(R)
    BY <2>2, <2>3, FS_Subset
  <2> QED BY <2>3, <2>4, <2>5
<1>4. \A c \in R : key[c] \in Nat
  BY <1>2, FirstArticleIs
<1> HIDE DEF R, key
<1>5. IsInjective(SortedBy(R, key)) /\ ToSet(SortedBy(R, key)) = R
  BY <1>3, <1>4, SortedByIs
<1> QED BY <1>1, <1>2, <1>5

\* The root of a container with an article is among them.
LEMMA RootsHoldAll ==
    ASSUME NEW a, IsForest(a), NEW c \in Containers(a), ArticleOf(a, c) # 0
    PROVE  RootOf(a, c) \in ToSet(RootsOf(a))
PROOF
<1> DEFINE r == RootOf(a, c)
           L == {ArticleOf(a, d) : d \in Subtree(a, r)} \ {0}
<1>1. r \in Containers(a) /\ ParentOf(a, r) = 0
  BY RootIs
<1>2. c \in Subtree(a, r)
  <2>1. PICK X : TreeOf(a, r, X) /\ c \in X
    BY RootIs
  <2> QED BY <2>1, TreeIsBelow
<1>3. L \in SUBSET Nat
  <2>1. Subtree(a, r) \subseteq Containers(a)
    BY <1>1, SubtreeIs
  <2> QED BY <2>1, SizeIs DEF IsForest
<1>4. L # {} /\ FirstArticle(a, r) = Lowest(L) /\ 0 \notin L
  BY <1>2 DEF FirstArticle
<1> HIDE DEF L, r
<1>5. Lowest(L) \in L
  BY <1>3, <1>4, LowestIs
<1> QED BY <1>1, <1>4, <1>5, RootsOfAre DEF r

\* Vec::retain keeps every root that was not merged, once.
LEMMA UnmergedAre ==
    ASSUME NEW T, NEW cs \in Seq(T), IsInjective(cs), NEW merged
    PROVE  /\ IsInjective(Unmerged(cs, merged))
           /\ \A x \in ToSet(cs) : x \notin merged => x \in ToSet(Unmerged(cs, merged))
PROOF
<1> DEFINE kept == {i \in DOMAIN cs : cs[i] \notin merged}
           key == [i \in kept |-> i]
           order == SortedBy(kept, key)
<1>1. Unmerged(cs, merged) = [j \in DOMAIN order |-> cs[order[j]]]
  BY DEF Unmerged
<1>2. Len(cs) \in Nat /\ kept \in SUBSET (1..Len(cs)) /\ kept \in SUBSET Nat
  OBVIOUS
<1>3. IsFiniteSet(kept)
  <2>1. IsFiniteSet(1..Len(cs))
    BY <1>2, FS_Interval
  <2> HIDE DEF kept
  <2> QED BY <1>2, <2>1, FS_Subset
<1>4. \A i \in kept : key[i] \in Nat
  BY <1>2
<1>5. \A i : i \in kept <=> i \in DOMAIN cs /\ cs[i] \notin merged
  OBVIOUS
<1> HIDE DEF kept, key
<1>6. order \in Seq(kept) /\ ToSet(order) = kept /\ IsInjective(order)
  BY <1>2, <1>3, <1>4, SortedByIs
<1> HIDE DEF order
<1> DEFINE list == [j \in DOMAIN order |-> cs[order[j]]]
<1>7. /\ \A j \in DOMAIN order : order[j] \in kept
      /\ \A i \in kept : \E j \in DOMAIN order : order[j] = i
  BY <1>6 DEF ToSet
<1>8. IsInjective(list)
  <2>1. \A i, j \in DOMAIN order : cs[order[i]] = cs[order[j]] => i = j
    BY <1>5, <1>6, <1>7 DEF IsInjective
  <2> QED BY <2>1 DEF IsInjective
<1>9. ASSUME NEW x \in ToSet(cs), x \notin merged PROVE x \in ToSet(list)
  <2>1. PICK i \in kept : cs[i] = x
    BY <1>5, <1>9 DEF ToSet
  <2>2. PICK j \in DOMAIN order : order[j] = i
    BY <1>7
  <2> QED BY <2>1, <2>2 DEF ToSet
<1> QED BY <1>1, <1>8, <1>9

\* Of two containers without parents, set_parent() puts one under the other.
LEMMA RootsCanBeLinked ==
    ASSUME NEW a, IsForest(a), NEW child \in Containers(a), NEW parent \in Containers(a),
           child # parent, ParentOf(a, child) = 0, ParentOf(a, parent) = 0
    PROVE  LET b == SetParent(a, child, parent)
           IN  /\ ParentOf(b, child) = parent
               /\ \A c \in Containers(a) \ {child} : ParentOf(b, c) = ParentOf(a, c)
PROOF
<1> DEFINE up == Climb(a, parent)
           N == Size(a) + 1
           G == {k \in 0..N : k = 0 \/ up[k] = 0}
<1>1. ArenaTyped(a) /\ Size(a) \in Nat /\ N \in Nat /\ child # 0 /\ parent # 0
  BY SizeIs DEF IsForest
<1>2. up[0] = parent /\ \A k \in 1..N : up[k] = IF up[k - 1] = 0 THEN 0 ELSE ParentOf(a, up[k - 1])
  BY <1>1, ClimbIs
<1> HIDE DEF up
<1>3. 0 \in G
  BY <1>1
<1>4. ASSUME NEW k \in 1..N, k - 1 \in G PROVE k \in G
  <2>1. up[k - 1] = 0 \/ up[k - 1] = parent
    BY <1>2, <1>4
  <2> QED BY <1>1, <1>2, <2>1
<1>5. 0..N \subseteq G
  <2> HIDE DEF G, N
  <2> QED BY <1>1, <1>3, <1>4, Walking!Upward
<1>6. \A k \in 0..N : k = 0 \/ up[k] = 0
  BY <1>5
<1>7. ~IsAncestor(a, child, parent)
  <2>1. \A k \in 0..Size(a) : up[k] # child
    BY <1>1, <1>2, <1>6
  <2>2. up[Size(a) + 1] = 0
    BY <1>1, <1>6
  <2> QED BY <2>1, <2>2 DEF IsAncestor, up
<1>8. SetParent(a, child, parent)
         = [a EXCEPT !.containers[child].parent = parent,
                     !.containers[parent].children = Append(@, child)]
  BY <1>7 DEF SetParent
<1>9. OneLinkMore(a, SetParent(a, child, parent), child, parent)
  BY <1>1, <1>8, LinkIs
<1> QED BY <1>9 DEF OneLinkMore

\* So every thread still has its root among the roots, but for the child.
LEMMA LinkedRoots ==
    ASSUME NEW a, IsForest(a), NEW child \in Containers(a), NEW parent \in Containers(a),
           child # parent, ParentOf(a, child) = 0, ParentOf(a, parent) = 0,
           NEW c \in Containers(a)
    PROVE  LET b == SetParent(a, child, parent)
           IN  RootOf(b, c) = IF RootOf(a, c) = child THEN parent ELSE RootOf(a, c)
PROOF
<1> DEFINE b == SetParent(a, child, parent)
           r == RootOf(a, c)
<1>1. /\ IsForest(b) /\ Containers(b) = Containers(a)
      /\ \A d \in Containers(a) \ {child} : ParentOf(b, d) = ParentOf(a, d)
  BY SetParentKeeps DEF Containers
<1>2. /\ \A x, y \in Containers(a) : RootOf(a, x) = RootOf(a, y) => RootOf(b, x) = RootOf(b, y)
      /\ RootOf(b, child) = RootOf(b, parent)
  BY SetParentJoins
<1>3. r \in Containers(a) /\ ParentOf(a, r) = 0
  BY RootIs
<1>4. RootOf(a, r) = r
  BY <1>3, RootsWithin
<1> HIDE DEF b, r
<1>5. RootOf(b, c) = RootOf(b, r)
  BY <1>2, <1>3, <1>4 DEF r
<1>6. \A d \in Containers(a) : ParentOf(b, d) = 0 => RootOf(b, d) = d
  BY <1>1, RootsWithin
<1>7. CASE r = child
  BY <1>1, <1>2, <1>5, <1>6, <1>7 DEF b, r
<1>8. CASE r # child
  BY <1>1, <1>3, <1>5, <1>6, <1>8 DEF b, r
<1> QED BY <1>7, <1>8

\* clamp_depth() leaves the roots roots.
LEMMA ClampedTopmost ==
    ASSUME NEW a, IsForest(a), NEW rs, Topmost(a, rs)
    PROVE  Topmost(Clamped(a, rs), rs)
PROOF
<1> DEFINE b == Clamped(a, rs)
<1>1. /\ IsForest(b) /\ Containers(b) = Containers(a)
      /\ \A c \in Containers(a) :
            \/ ParentOf(b, c) = ParentOf(a, c)
            \/ ParentOf(b, c) \in Containers(a) /\ c \in Subtree(a, ParentOf(b, c))
  BY ClampedKeeps DEF Containers
<1> HIDE DEF b
<1>2. rs \in Seq(Containers(a)) /\ \A i \in DOMAIN rs : ParentOf(a, rs[i]) = 0
  BY DEF Topmost
<1>3. \A i \in DOMAIN rs : rs[i] \in Containers(a)
  BY <1>2
<1>4. ASSUME NEW c \in Containers(a), ParentOf(a, c) = 0 PROVE ParentOf(b, c) = 0
  <2> SUFFICES ASSUME ParentOf(b, c) # 0 PROVE FALSE
    OBVIOUS
  <2> DEFINE d == ParentOf(b, c)
  <2>1. d \in Containers(a) /\ c \in Subtree(a, d)
    BY <1>1, <1>4
  <2>2. d # c
    <3>1. ParentOf(b, c) \notin Subtree(b, c) /\ c \in Subtree(b, c)
      BY <1>1, ApartFromBelow, SubtreeIs
    <3> QED BY <3>1
  <2>3. 0 \in Subtree(a, d) /\ Subtree(a, d) \subseteq Containers(a)
    BY <1>4, <2>1, <2>2, SubtreeIs
  <2> QED BY <2>3, SizeIs DEF IsForest
<1>5. Topmost(b, rs)
  BY <1>1, <1>2, <1>3, <1>4 DEF Topmost
<1> QED BY <1>5 DEF b

\* The threads keep their roots.
LEMMA ClampedRoots ==
    ASSUME NEW a, IsForest(a), NEW rs, Topmost(a, rs), NEW c \in Containers(a),
           RootOf(a, c) \in ToSet(rs)
    PROVE  RootOf(Clamped(a, rs), c) = RootOf(a, c)
PROOF
<1> DEFINE b == Clamped(a, rs)
           r == RootOf(a, c)
<1>1. r \in Containers(a) /\ ParentOf(a, r) = 0
  BY RootIs
<1>2. RootOf(a, r) = r
  BY <1>1, RootsWithin
<1>3. IsForest(b) /\ Containers(b) = Containers(a)
  BY ClampedKeeps DEF Containers
<1>4. RootOf(b, c) = RootOf(b, r)
  BY <1>1, <1>2, ClampedJoins
<1>5. Topmost(b, rs)
  BY ClampedTopmost
<1> HIDE DEF b, r
<1>6. ParentOf(b, r) = 0
  BY <1>5 DEF Topmost, ToSet, r
<1>7. RootOf(b, r) = r
  BY <1>1, <1>3, <1>6, RootsWithin
<1> QED BY <1>4, <1>7 DEF b, r

-----------------------------------------------------------------------------
(* thread() as a whole                                                     *)

\* The thread of every record starts at one of the roots, which are distinct.
Rooting ==
    /\ IsInjective(roots)
    /\ \A i \in DOMAIN arena.by_article : RootOf(arena, arena.by_article[i]) \in ToSet(roots)

\* What group_by_subject() knows: a holder is a root it has seen, still without
\* a parent and of one subject; a root it has not seen has no parent; one that
\* was merged has.
GroupInv ==
    /\ walk.record \in Nat \ {0} /\ Len(roots) \in Nat
    /\ \A s \in DOMAIN subjects.holders :
          /\ ParentOf(arena, subjects.holders[s]) = 0
          /\ \E p \in 1..Len(roots) : p < walk.record /\ roots[p] = subjects.holders[s]
    /\ \A s, t \in DOMAIN subjects.holders : subjects.holders[s] = subjects.holders[t] => s = t
    /\ \A p \in 1..Len(roots) : walk.record <= p => ParentOf(arena, roots[p]) = 0
    /\ \A c \in subjects.merged : c \in Containers(arena) /\ ParentOf(arena, c) # 0

\* The trees built so far: of the roots that were processed, all of them.
BuildInv ==
    /\ walk.record \in 1..(Len(roots) + 1) /\ Len(roots) \in Nat
    /\ walk.phase = "done" => walk.record = Len(roots) + 1
    /\ Len(forest) \in Nat /\ forest = [p \in 1..Len(forest) |-> forest[p]]
    /\ \A p \in 1..Len(forest) :
          \E q \in 1..Len(roots) : q < walk.record /\ Built(arena, roots[q]) = <<forest[p]>>
    /\ \A q \in 1..Len(roots) : q < walk.record =>
          Held(arena, Built(arena, roots[q])) \subseteq Held(arena, forest)
    /\ \A p, q \in 1..Len(forest) :
          p # q => ArticlesIn(arena, forest[p]) \cap ArticlesIn(arena, forest[q]) = {}

WholeInv ==
    /\ Homes(arena)
    /\ walk.phase \in {"insert", "link", "roots"} => subjects = [holders |-> <<>>, merged |-> {}]
    /\ walk.phase \notin {"build", "done"} => forest = <<>>
    /\ walk.phase \in {"group", "clamp", "build", "done"} => Rooting
    /\ walk.phase = "group" => GroupInv
    /\ walk.phase \in {"build", "done"} =>
          /\ Topmost(arena, roots) /\ BuildInv
          /\ \E S : Layers(arena, roots, S)

LEMMA WholeStarts == ThreadInit => WholeInv
PROOF
<1> SUFFICES ASSUME ThreadInit PROVE WholeInv
  OBVIOUS
<1>1. /\ arena = NewArena /\ forest = <<>> /\ walk.phase = "insert"
      /\ subjects = [holders |-> <<>>, merged |-> {}]
  BY DEF ThreadInit
<1>2. arena.by_article = <<>> /\ arena.containers = <<>>
  BY <1>1 DEF NewArena
<1>3. DOMAIN <<>> = {} /\ Len(<<>>) = 0
  OBVIOUS
<1>4. Containers(arena) = {}
  BY <1>2, <1>3 DEF Containers, Size
<1>5. Homes(arena)
  BY <1>2, <1>3, <1>4 DEF Homes
<1> QED BY <1>1, <1>5 DEF WholeInv

LEMMA InsertRecordWhole == ThreadInv /\ WholeInv /\ InsertRecord => WholeInv'
PROOF
<1> SUFFICES ASSUME ThreadInv, WholeInv, InsertRecord PROVE WholeInv'
  OBVIOUS
<1>0. PICK now : now = walk.record
  OBVIOUS
<1>1. /\ walk.phase = "insert"
      /\ arena' = Inserted(arena, now, records[now].id)
      /\ walk' = IF now = Len(records)
                 THEN [phase |-> "link", record |-> 1, reference |-> 1, previous |-> 0]
                 ELSE [walk EXCEPT !.record = @ + 1]
      /\ UNCHANGED <<records, roots, subjects, forest>>
  BY <1>0 DEF InsertRecord
<1>2. IsForest(arena) /\ now = Len(arena.by_article) + 1 /\ walk \in Walks
  BY <1>0, <1>1 DEF ThreadInv, WalkInv
<1>3. Homes(arena) /\ subjects = [holders |-> <<>>, merged |-> {}] /\ forest = <<>>
  BY <1>1 DEF WholeInv
<1>4. Homes(arena')
  BY <1>1, <1>2, <1>3, InsertedHomes
<1>5. walk'.phase \in {"insert", "link"}
  BY <1>1, <1>2 DEF Walks
<1> QED BY <1>1, <1>3, <1>4, <1>5 DEF WholeInv

LEMMA LinkWhole == ThreadInv /\ WholeInv /\ (LinkReference \/ LinkChild) => WholeInv'
PROOF
<1> SUFFICES ASSUME ThreadInv, WholeInv, LinkReference \/ LinkChild PROVE WholeInv'
  OBVIOUS
<1>1. walk.phase = "link" /\ UNCHANGED <<records, roots, subjects, forest>>
  BY DEF LinkReference, LinkChild, Linking
<1>2. /\ IsForest(arena) /\ walk \in Walks /\ walk.previous \in {0} \cup Containers(arena)
      /\ Len(arena.by_article) = Len(records) /\ walk.record \in Nat \ {0} /\ Len(records) \in Nat
  BY <1>1 DEF ThreadInv, WalkInv, Walks
<1>3. Homes(arena) /\ subjects = [holders |-> <<>>, merged |-> {}] /\ forest = <<>>
  BY <1>1 DEF WholeInv
<1>4. CASE LinkReference
  <2> DEFINE id == References[walk.reference]
  <2>1. arena' = Referred(arena, walk.previous, id)
        /\ walk' = [walk EXCEPT !.reference = @ + 1, !.previous = arena'.by_id[id]]
    BY <1>4 DEF LinkReference
  <2> HIDE DEF id
  <2>2. SameArticles(arena, arena')
    BY <1>2, <2>1, ReferredArticles
  <2>3. walk'.phase = "link"
    BY <1>1, <1>2, <2>1 DEF Walks
  <2> QED BY <1>1, <1>2, <1>3, <2>2, <2>3, HomesStay DEF WholeInv
<1>5. CASE LinkChild
  <2>1. /\ arena' = Attached(arena, walk.record, walk.previous)
        /\ walk' = [phase |-> IF walk.record = Len(records) THEN "roots" ELSE "link",
                    record |-> walk.record + 1, reference |-> 1, previous |-> 0]
        /\ walk.record <= Len(records)
    BY <1>5 DEF LinkChild, Linking
  <2>2. arena.by_article[walk.record] \in Containers(arena)
    <3>1. arena.by_article \in Seq(Containers(arena))
      BY <1>2 DEF IsForest, ArenaTyped
    <3> QED BY <1>2, <2>1, <3>1
  <2>3. SameArticles(arena, arena')
    <3>1. CASE walk.previous = 0
      <4>1. arena' = arena
        BY <2>1, <3>1 DEF Attached
      <4> QED BY <4>1 DEF SameArticles
    <3>2. CASE walk.previous # 0
      <4>1. arena' = SetParent(arena, arena.by_article[walk.record], walk.previous)
        BY <2>1, <3>2 DEF Attached
      <4>2. walk.previous \in Containers(arena)
        BY <1>2, <3>2
      <4> QED BY <1>2, <2>2, <4>1, <4>2, SetParentArticles
    <3> QED BY <3>1, <3>2
  <2>4. walk'.phase \in {"link", "roots"}
    BY <2>1
  <2> QED BY <1>1, <1>2, <1>3, <2>3, <2>4, HomesStay DEF WholeInv
<1> QED BY <1>4, <1>5

LEMMA CollectRootsWhole == ThreadInv /\ WholeInv /\ CollectRoots => WholeInv'
PROOF
<1> SUFFICES ASSUME ThreadInv, WholeInv, CollectRoots PROVE WholeInv'
  OBVIOUS
<1>1. /\ walk.phase = "roots" /\ roots' = RootsOf(arena)
      /\ walk' = [walk EXCEPT !.phase = "group", !.record = 1]
      /\ UNCHANGED <<records, arena, subjects, forest>>
  BY DEF CollectRoots
<1>2. IsForest(arena) /\ walk \in Walks
  BY DEF ThreadInv, WalkInv
<1>3. Homes(arena) /\ subjects = [holders |-> <<>>, merged |-> {}] /\ forest = <<>>
  BY <1>1 DEF WholeInv
<1>4. walk'.phase = "group" /\ walk'.record = 1
  BY <1>1, <1>2 DEF Walks
<1>5. roots' \in Seq(Containers(arena)) /\ \A i \in DOMAIN roots' : ParentOf(arena, roots'[i]) = 0
  BY <1>1, <1>2, RootsOfIs
<1>6. Rooting'
  <2>1. arena.by_article \in Seq(Containers(arena))
    BY <1>2 DEF IsForest, ArenaTyped
  <2>2. ASSUME NEW i \in DOMAIN arena.by_article
        PROVE  RootOf(arena, arena.by_article[i]) \in ToSet(roots')
    <3>1. arena.by_article[i] \in Containers(arena) /\ ArticleOf(arena, arena.by_article[i]) = i /\ i # 0
      BY <1>3, <2>1 DEF Homes
    <3> QED BY <1>1, <1>2, <3>1, RootsHoldAll
  <2>3. IsInjective(roots')
    BY <1>1, <1>2, RootsOfAre
  <2> QED BY <1>1, <2>2, <2>3 DEF Rooting
<1>7. GroupInv'
  <2>1. DOMAIN subjects'.holders = {} /\ subjects'.merged = {}
    BY <1>1, <1>3
  <2>2. Len(roots') \in Nat /\ DOMAIN roots' = 1..Len(roots')
    BY <1>5
  <2> QED BY <1>1, <1>4, <1>5, <2>1, <2>2 DEF GroupInv
<1> QED BY <1>1, <1>3, <1>4, <1>6, <1>7 DEF WholeInv

\* What group_by_subject() does to one root (GroupRoot), taken apart.
LEMMA GroupRootWhole == ThreadInv /\ WholeInv /\ GroupRoot => WholeInv'
PROOF
<1> SUFFICES ASSUME ThreadInv, WholeInv, GroupRoot PROVE WholeInv'
  OBVIOUS
<1> DEFINE id == roots[walk.record]
           subject == NormaliseSubject(SubjectOf(id))
           held == subjects.holders
           hold(c) == [s \in DOMAIN held \cup {subject} |-> IF s = subject THEN c ELSE held[s]]
           holder == held[subject]
           parent == IF Holds(holder, id) THEN holder ELSE id
           child == IF Holds(holder, id) THEN id ELSE holder
<1>1. /\ walk.phase = "group" /\ walk.record <= Len(roots)
      /\ \/ UNCHANGED <<arena, subjects>>
         \/ /\ subject \notin DOMAIN held
            /\ subjects' = [subjects EXCEPT !.holders = hold(id)]
            /\ UNCHANGED arena
         \/ /\ subject \in DOMAIN held
            /\ arena' = SetParent(arena, child, parent)
            /\ subjects' = [holders |-> hold(parent),
                            merged |-> subjects.merged \cup {child}]
      /\ walk' = [walk EXCEPT !.record = @ + 1]
      /\ UNCHANGED <<records, roots, forest>>
  BY DEF GroupRoot
<1> HIDE DEF subject
<1>2. /\ IsForest(arena) /\ walk \in Walks
      /\ subjects = [holders |-> held, merged |-> subjects.merged]
      /\ roots \in Seq(Containers(arena))
      /\ \A s \in DOMAIN held : held[s] \in Containers(arena)
  BY <1>1 DEF ThreadInv, WalkInv, RootsInv
<1>3. Homes(arena) /\ forest = <<>> /\ Rooting /\ GroupInv
  BY <1>1 DEF WholeInv
<1>4. /\ walk'.phase = "group" /\ walk'.record = walk.record + 1
      /\ walk.record \in Nat \ {0} /\ Len(roots) \in Nat /\ walk.record \in 1..Len(roots)
  BY <1>1, <1>2, <1>3 DEF Walks, GroupInv
<1>5. /\ DOMAIN roots = 1..Len(roots)
      /\ \A p \in 1..Len(roots) : roots[p] \in Containers(arena)
      /\ \A p, q \in 1..Len(roots) : roots[p] = roots[q] => p = q
  BY <1>2, <1>3 DEF Rooting, IsInjective
<1>6. /\ id \in Containers(arena) /\ ParentOf(arena, id) = 0
      /\ \A s \in DOMAIN held :
            /\ ParentOf(arena, held[s]) = 0 /\ held[s] # id
            /\ \E p \in 1..Len(roots) : p < walk.record /\ roots[p] = held[s]
      /\ \A s, t \in DOMAIN held : held[s] = held[t] => s = t
      /\ \A p \in 1..Len(roots) : walk.record <= p => ParentOf(arena, roots[p]) = 0
      /\ \A c \in subjects.merged : c \in Containers(arena) /\ ParentOf(arena, c) # 0
  BY <1>3, <1>4, <1>5 DEF GroupInv
<1>7. CASE UNCHANGED <<arena, subjects>>
  <2>1. /\ Rooting'
        /\ GroupInv'
    <3>1. Rooting'
      BY <1>1, <1>3, <1>7 DEF Rooting
    <3>2. /\ \A s \in DOMAIN held :
                /\ ParentOf(arena, held[s]) = 0
                /\ \E p \in 1..Len(roots) : p < walk.record + 1 /\ roots[p] = held[s]
          /\ \A p \in 1..Len(roots) : walk.record + 1 <= p => ParentOf(arena, roots[p]) = 0
      BY <1>4, <1>6
    <3> QED BY <1>1, <1>4, <1>6, <1>7, <3>1, <3>2 DEF GroupInv
  <2> QED BY <1>1, <1>3, <1>4, <1>7, <2>1 DEF WholeInv
<1>8. CASE /\ subject \notin DOMAIN held
           /\ subjects' = [subjects EXCEPT !.holders = hold(id)]
           /\ UNCHANGED arena
  <2>1. subjects'.holders = hold(id) /\ subjects'.merged = subjects.merged
    BY <1>2, <1>8
  <2>2. /\ DOMAIN hold(id) = DOMAIN held \cup {subject} /\ hold(id)[subject] = id
        /\ \A s \in DOMAIN held : hold(id)[s] = held[s]
    BY <1>8
  <2> HIDE DEF hold, id, held
  <2>3. \A s \in DOMAIN hold(id) :
           /\ ParentOf(arena, hold(id)[s]) = 0
           /\ \E p \in 1..Len(roots) : p < walk.record + 1 /\ roots[p] = hold(id)[s]
    <3>1. ASSUME NEW s \in DOMAIN held
          PROVE  \E p \in 1..Len(roots) : p < walk.record + 1 /\ roots[p] = hold(id)[s]
      BY <1>4, <1>6, <2>2
    <3>2. walk.record < walk.record + 1 /\ roots[walk.record] = hold(id)[subject]
      BY <1>4, <2>2 DEF id
    <3> QED BY <1>4, <1>6, <2>2, <3>1, <3>2
  <2>4. \A s, t \in DOMAIN hold(id) : hold(id)[s] = hold(id)[t] => s = t
    BY <1>6, <2>2
  <2>5. \A p \in 1..Len(roots) : walk.record + 1 <= p => ParentOf(arena, roots[p]) = 0
    BY <1>4, <1>6
  <2>6. GroupInv'
    BY <1>1, <1>4, <1>6, <1>8, <2>1, <2>3, <2>4, <2>5 DEF GroupInv
  <2>7. Rooting'
    BY <1>1, <1>3, <1>8 DEF Rooting
  <2> QED BY <1>1, <1>3, <1>4, <1>8, <2>6, <2>7 DEF WholeInv
<1>9. CASE /\ subject \in DOMAIN held
           /\ arena' = SetParent(arena, child, parent)
           /\ subjects' = [holders |-> hold(parent), merged |-> subjects.merged \cup {child}]
  <2>1. /\ holder \in Containers(arena) /\ ParentOf(arena, holder) = 0 /\ holder # id
        /\ \E p \in 1..Len(roots) : p < walk.record /\ roots[p] = holder
    BY <1>2, <1>6, <1>9
  <2>2. \A s \in DOMAIN held : s # subject => held[s] # holder
    BY <1>6, <1>9
  <2>3. /\ DOMAIN hold(parent) = DOMAIN held /\ hold(parent)[subject] = parent
        /\ \A s \in DOMAIN held : s # subject => hold(parent)[s] = held[s]
    BY <1>9
  <2>4. subjects'.holders = hold(parent) /\ subjects'.merged = subjects.merged \cup {child}
    BY <1>9
  <2> HIDE DEF hold, id, held, holder
  <2>5. /\ child \in {id, holder} /\ parent \in {id, holder} /\ child # parent
    BY <2>1
  <2> HIDE DEF child, parent
  <2>6. /\ child \in Containers(arena) /\ parent \in Containers(arena)
        /\ ParentOf(arena, child) = 0 /\ ParentOf(arena, parent) = 0
    BY <1>6, <2>1, <2>5
  <2>7. /\ ParentOf(arena', child) = parent /\ parent # 0
        /\ \A c \in Containers(arena) \ {child} : ParentOf(arena', c) = ParentOf(arena, c)
        /\ Containers(arena') = Containers(arena) /\ arena'.by_article = arena.by_article
        /\ \A c \in Containers(arena) :
              RootOf(arena', c) = IF RootOf(arena, c) = child THEN parent ELSE RootOf(arena, c)
    <3> DEFINE b == SetParent(arena, child, parent)
    <3>1. /\ ParentOf(b, child) = parent /\ parent # 0
          /\ \A c \in Containers(arena) \ {child} : ParentOf(b, c) = ParentOf(arena, c)
      BY <1>2, <2>5, <2>6, RootsCanBeLinked, SizeIs DEF IsForest
    <3>2. Containers(b) = Containers(arena) /\ b.by_article = arena.by_article
      BY <1>2, <2>6, SetParentKeeps DEF Containers
    <3>3. \A c \in Containers(arena) :
             RootOf(b, c) = IF RootOf(arena, c) = child THEN parent ELSE RootOf(arena, c)
      BY <1>2, <2>5, <2>6, LinkedRoots
    <3>4. arena' = b
      BY <1>9
    <3> HIDE DEF b
    <3> QED BY <3>1, <3>2, <3>3, <3>4
  <2>8. Homes(arena')
    <3>1. SameArticles(arena, arena')
      BY <1>2, <1>9, <2>6, SetParentArticles
    <3> QED BY <1>2, <1>3, <3>1, HomesStay
  <2>9. parent \in ToSet(roots) /\ \E p \in 1..Len(roots) : p < walk.record + 1 /\ roots[p] = parent
    <3>1. walk.record < walk.record + 1 /\ roots[walk.record] = id
      BY <1>4 DEF id
    <3>2. \E p \in 1..Len(roots) : p < walk.record + 1 /\ roots[p] = parent
      BY <1>4, <2>1, <2>5, <3>1
    <3> QED BY <1>5, <3>2 DEF ToSet
  <2>10. Rooting'
    <3>1. arena.by_article \in Seq(Containers(arena))
      BY <1>2 DEF IsForest, ArenaTyped
    <3>2. \A i \in DOMAIN arena.by_article : arena.by_article[i] \in Containers(arena)
      BY <3>1
    <3>3. \A i \in DOMAIN arena.by_article : RootOf(arena', arena.by_article[i]) \in ToSet(roots)
      BY <1>3, <2>7, <2>9, <3>2 DEF Rooting
    <3> QED BY <1>1, <1>3, <2>7, <3>3 DEF Rooting
  <2>11. \A s \in DOMAIN hold(parent) :
            /\ ParentOf(arena', hold(parent)[s]) = 0
            /\ \E p \in 1..Len(roots) : p < walk.record + 1 /\ roots[p] = hold(parent)[s]
    <3> SUFFICES ASSUME NEW s \in DOMAIN held
                 PROVE  /\ ParentOf(arena', hold(parent)[s]) = 0
                        /\ \E p \in 1..Len(roots) : p < walk.record + 1 /\ roots[p] = hold(parent)[s]
      BY <2>3
    <3>1. CASE s = subject
      BY <2>3, <2>5, <2>6, <2>7, <2>9, <3>1
    <3>2. CASE s # subject
      <4>1. hold(parent)[s] = held[s] /\ held[s] # child
        BY <1>6, <2>2, <2>3, <2>5, <3>2
      <4>2. held[s] \in Containers(arena) /\ ParentOf(arena, held[s]) = 0
        BY <1>2, <1>6 DEF held
      <4>3. \E p \in 1..Len(roots) : p < walk.record + 1 /\ roots[p] = held[s]
        BY <1>4, <1>6
      <4> QED BY <2>7, <4>1, <4>2, <4>3
    <3> QED BY <3>1, <3>2
  <2>12. \A s, t \in DOMAIN hold(parent) : hold(parent)[s] = hold(parent)[t] => s = t
    BY <1>6, <2>2, <2>3, <2>5
  <2>13. \A p \in 1..Len(roots) : walk.record + 1 <= p => ParentOf(arena', roots[p]) = 0
    <3> SUFFICES ASSUME NEW p \in 1..Len(roots), walk.record + 1 <= p
                 PROVE  ParentOf(arena', roots[p]) = 0
      OBVIOUS
    <3>1. roots[p] # id
      BY <1>4, <1>5 DEF id
    <3>2. roots[p] # holder
      BY <1>4, <1>5, <2>1
    <3>3. roots[p] # child /\ ParentOf(arena, roots[p]) = 0
      BY <1>4, <1>6, <2>5, <3>1, <3>2
    <3> QED BY <1>5, <2>7, <3>3
  <2>14. \A c \in subjects'.merged : c \in Containers(arena') /\ ParentOf(arena', c) # 0
    BY <1>6, <2>4, <2>6, <2>7
  <2>15. GroupInv'
    BY <1>1, <1>4, <2>4, <2>11, <2>12, <2>13, <2>14 DEF GroupInv
  <2> QED BY <1>1, <1>3, <1>4, <2>8, <2>10, <2>15 DEF WholeInv
<1> QED BY <1>1, <1>7, <1>8, <1>9

-----------------------------------------------------------------------------
\* No root is lost that is the start of a thread (Vec::retain).
LEMMA RetainRootsWhole == ThreadInv /\ WholeInv /\ RetainRoots => WholeInv'
PROOF
<1> SUFFICES ASSUME ThreadInv, WholeInv, RetainRoots PROVE WholeInv'
  OBVIOUS
<1>1. /\ walk.phase = "group" /\ roots' = Unmerged(roots, subjects.merged)
      /\ walk' = [walk EXCEPT !.phase = "clamp"]
      /\ UNCHANGED <<records, arena, subjects, forest>>
  BY DEF RetainRoots
<1>2. IsForest(arena) /\ walk \in Walks /\ roots \in Seq(Containers(arena))
  BY <1>1 DEF ThreadInv, WalkInv, RootsInv
<1>3. Homes(arena) /\ forest = <<>> /\ Rooting /\ GroupInv
  BY <1>1 DEF WholeInv
<1>4. walk'.phase = "clamp"
  BY <1>1, <1>2 DEF Walks
<1>5. /\ IsInjective(roots')
      /\ \A x \in ToSet(roots) : x \notin subjects.merged => x \in ToSet(roots')
  BY <1>1, <1>2, <1>3, UnmergedAre DEF Rooting
<1>6. ASSUME NEW i \in DOMAIN arena.by_article
      PROVE  RootOf(arena, arena.by_article[i]) \in ToSet(roots')
  <2>1. arena.by_article \in Seq(Containers(arena))
    BY <1>2 DEF IsForest, ArenaTyped
  <2>2. arena.by_article[i] \in Containers(arena)
    BY <2>1
  <2>3. ParentOf(arena, RootOf(arena, arena.by_article[i])) = 0
    BY <1>2, <2>2, RootIs
  <2> QED BY <1>3, <1>5, <2>3 DEF GroupInv, Rooting
<1>7. Rooting'
  BY <1>1, <1>5, <1>6 DEF Rooting
<1> QED BY <1>1, <1>3, <1>4, <1>7 DEF WholeInv

\* Clamping moves no article and no root, and leaves MaxDepth layers.
LEMMA ClampDepthWhole == ThreadInv /\ WholeInv /\ ClampDepth => WholeInv'
PROOF
<1> SUFFICES ASSUME ThreadInv, WholeInv, ClampDepth PROVE WholeInv'
  OBVIOUS
<1>1. /\ walk.phase = "clamp" /\ arena' = Clamped(arena, roots)
      /\ walk' = [walk EXCEPT !.phase = "build", !.record = 1]
      /\ UNCHANGED <<records, roots, subjects, forest>>
  BY DEF ClampDepth
<1>2. IsForest(arena) /\ walk \in Walks /\ Topmost(arena, roots)
  BY <1>1 DEF ThreadInv, WalkInv, RootsInv
<1>3. Homes(arena) /\ forest = <<>> /\ Rooting
  BY <1>1 DEF WholeInv
<1>4. walk'.phase = "build" /\ walk'.record = 1
  BY <1>1, <1>2 DEF Walks
<1>5. Homes(arena') /\ Topmost(arena', roots) /\ \E S : Layers(arena', roots, S)
  BY <1>1, <1>2, <1>3, ClampedArticles, HomesStay, ClampedTopmost, ClampedIsShallow
<1>6. Rooting'
  <2>1. arena'.by_article = arena.by_article
    BY <1>1, <1>2, ClampedKeeps
  <2>2. arena.by_article \in Seq(Containers(arena))
    BY <1>2 DEF IsForest, ArenaTyped
  <2>3. \A i \in DOMAIN arena.by_article :
           RootOf(arena', arena.by_article[i]) = RootOf(arena, arena.by_article[i])
    BY <1>1, <1>2, <1>3, <2>2, ClampedRoots DEF Rooting
  <2> QED BY <1>1, <1>3, <2>1, <2>3 DEF Rooting
<1>7. BuildInv'
  <2>1. Len(roots) \in Nat
    BY <1>2 DEF Topmost
  <2>2. Len(<<>>) = 0 /\ <<>> = [p \in 1..0 |-> forest[p]]
    OBVIOUS
  <2>3. 1 \in 1..(Len(roots) + 1) /\ \A q \in 1..Len(roots) : ~(q < 1)
    BY <2>1
  <2>4. forest' = <<>> /\ roots' = roots
    BY <1>1, <1>3
  <2> QED BY <1>3, <1>4, <2>1, <2>2, <2>3, <2>4 DEF BuildInv
<1> QED BY <1>1, <1>3, <1>4, <1>5, <1>6, <1>7 DEF WholeInv

\* What lies below two roots is apart.
LEMMA RootsApart ==
    ASSUME NEW a, IsForest(a), Apart(a), NEW c \in Containers(a), NEW d \in Containers(a),
           c # d, ParentOf(a, c) = 0, ParentOf(a, d) = 0
    PROVE  ArticlesUnder(a, c) \cap ArticlesUnder(a, d) = {}
PROOF
<1>1. \A x \in Containers(a) : x # 0
  BY SizeIs DEF IsForest
<1>2. c \notin Subtree(a, d) /\ d \notin Subtree(a, c)
  BY <1>1, SubtreeIs
<1> QED BY <1>2, SubtreesApart, ArticlesApart

\* The tree of a root, if it has one, is whole.
LEMMA BuiltIs ==
    ASSUME NEW a, IsForest(a), Homes(a), NEW c \in Containers(a)
    PROVE  OneTree(a, c, Size(a), Built(a, c))
PROOF
<1>1. Apart(a) /\ Size(a) \in 0..Size(a)
  BY HomesApart, SizeIs DEF IsForest
<1> QED BY <1>1, TreesAreWhole DEF Built

\* A list with one more at its end.
LEMMA Extended ==
    ASSUME NEW s, Len(s) \in Nat, s = [p \in 1..Len(s) |-> s[p]], NEW x
    PROVE  LET t == s \o <<x>>
           IN  /\ Len(t) = Len(s) + 1
               /\ t = [p \in 1..(Len(s) + 1) |-> t[p]]
               /\ \A p \in 1..Len(s) : t[p] = s[p]
               /\ t[Len(s) + 1] = x
PROOF
<1> DEFINE n == Len(s)
           T == {s[p] : p \in 1..n} \cup {x}
           t == s \o <<x>>
<1>1. s \in Seq(T)
  <2>1. \A p \in 1..n : s[p] \in T
    OBVIOUS
  <2> HIDE DEF T
  <2>2. s \in [1..n -> T]
    BY <2>1
  <2> QED BY <2>2
<1>2. <<x>> \in Seq(T) /\ Len(<<x>>) = 1 /\ <<x>>[1] = x
  <2>1. x \in T
    OBVIOUS
  <2> HIDE DEF T
  <2> QED BY <2>1
<1> HIDE DEF T
<1>3. t \in Seq(T) /\ Len(t) = n + 1
  BY <1>1, <1>2
<1>4. \A p \in 1..n : t[p] = s[p]
  BY <1>1, <1>2
<1>5. t[n + 1] = x
  BY <1>1, <1>2
<1>6. t = [p \in 1..(n + 1) |-> t[p]]
  BY <1>3
<1> QED BY <1>3, <1>4, <1>5, <1>6

\* One tree more, apart from the others.
LEMMA BuildRootWhole == ThreadInv /\ WholeInv /\ BuildRoot => WholeInv'
PROOF
<1> SUFFICES ASSUME ThreadInv, WholeInv, BuildRoot PROVE WholeInv'
  OBVIOUS
<1> DEFINE now == walk.record
           c == roots[walk.record]
           t == Built(arena, c)
           L == Len(forest)
<1>1. /\ walk.phase = "build" /\ now <= Len(roots)
      /\ forest' = forest \o t
      /\ walk' = [walk EXCEPT !.record = @ + 1]
      /\ UNCHANGED <<records, arena, roots, subjects>>
  BY DEF BuildRoot
<1>2. IsForest(arena) /\ walk \in Walks
  BY DEF ThreadInv, WalkInv
<1>3. Homes(arena) /\ Rooting /\ Topmost(arena, roots) /\ BuildInv /\ \E S : Layers(arena, roots, S)
  BY <1>1 DEF WholeInv
<1>4. walk'.phase = "build" /\ walk'.record = now + 1
  BY <1>1, <1>2 DEF Walks
<1>5. /\ now \in 1..Len(roots) /\ Len(roots) \in Nat /\ now + 1 \in 1..(Len(roots) + 1)
      /\ L \in Nat /\ forest = [p \in 1..L |-> forest[p]]
  BY <1>1, <1>3 DEF BuildInv
<1>6. /\ \A q \in 1..Len(roots) : roots[q] \in Containers(arena) /\ ParentOf(arena, roots[q]) = 0
      /\ \A p, q \in 1..Len(roots) : roots[p] = roots[q] => p = q
  <2>1. DOMAIN roots = 1..Len(roots) /\ roots \in Seq(Containers(arena))
    BY <1>3 DEF Topmost
  <2> QED BY <1>3, <2>1 DEF Topmost, Rooting, IsInjective
<1>7. Apart(arena)
  BY <1>3, HomesApart
<1>8. OneTree(arena, c, Size(arena), t)
  BY <1>2, <1>3, <1>5, <1>6, BuiltIs
<1>9. /\ \A p \in 1..L : \E q \in 1..Len(roots) : q < now /\ Built(arena, roots[q]) = <<forest[p]>>
      /\ \A q \in 1..Len(roots) : q < now => Held(arena, Built(arena, roots[q])) \subseteq Held(arena, forest)
      /\ \A p, q \in 1..L : p # q => ArticlesIn(arena, forest[p]) \cap ArticlesIn(arena, forest[q]) = {}
  BY <1>3 DEF BuildInv
<1>10. Homes(arena') /\ Rooting' /\ Topmost(arena', roots') /\ \E S : Layers(arena', roots', S)
  BY <1>1, <1>3 DEF Rooting
<1> HIDE DEF t, L, now
<1>11. \A q \in 1..Len(roots) : q < now + 1 => q < now \/ q = now
  BY <1>5
<1>12. CASE t = <<>>
  <2>1. forest' = forest
    BY <1>1, <1>5, <1>12 DEF L
  <2>2. Held(arena, t) = {}
    BY <1>12, HeldIs
  <2>3. \A p \in 1..L : \E q \in 1..Len(roots) :
           q < now + 1 /\ Built(arena, roots[q]) = <<forest[p]>>
    BY <1>5, <1>9
  <2>4. \A q \in 1..Len(roots) : q < now + 1 =>
           Held(arena, Built(arena, roots[q])) \subseteq Held(arena, forest)
    BY <1>9, <1>11, <2>2 DEF t, now
  <2>5. BuildInv'
    BY <1>1, <1>4, <1>5, <1>9, <2>1, <2>3, <2>4 DEF BuildInv, L
  <2> QED BY <1>1, <1>4, <1>10, <2>5 DEF WholeInv
<1>13. CASE \E x : t = <<x>> /\ GoodTree(arena, c, Size(arena), x)
  <2>1. PICK x : t = <<x>> /\ GoodTree(arena, c, Size(arena), x)
    BY <1>13
  <2>2. Len(t) = 1 /\ t[1] = x
    BY <2>1
  <2>3. /\ Len(forest') = L + 1 /\ L + 1 \in Nat
        /\ forest' = [p \in 1..(L + 1) |-> forest'[p]]
        /\ \A p \in 1..L : forest'[p] = forest[p]
        /\ forest'[L + 1] = x
        /\ \A p \in 1..(L + 1) : p \in 1..L \/ p = L + 1
        /\ \A p \in 1..L : p \in 1..(L + 1)
        /\ L + 1 \in 1..(L + 1)
    <3>1. forest' = forest \o <<x>> /\ Len(forest) \in Nat
          /\ forest = [p \in 1..Len(forest) |-> forest[p]]
      BY <1>1, <1>5, <2>1 DEF L
    <3>2. /\ L + 1 \in Nat /\ L = Len(forest)
          /\ \A p \in 1..(L + 1) : p \in 1..L \/ p = L + 1
          /\ \A p \in 1..L : p \in 1..(L + 1)
          /\ L + 1 \in 1..(L + 1)
      BY <1>5 DEF L
    <3> QED BY <3>1, <3>2, Extended
  <2> DEFINE later == forest'
  <2> HIDE DEF later
  <2>4. \A p \in 1..(L + 1) : \E q \in 1..Len(roots) :
           q < now + 1 /\ Built(arena, roots[q]) = <<later[p]>>
    <3>1. \A p \in 1..L : \E q \in 1..Len(roots) :
             q < now + 1 /\ Built(arena, roots[q]) = <<forest[p]>>
      BY <1>5, <1>9
    <3>2. now < now + 1 /\ Built(arena, roots[now]) = <<x>>
      BY <1>5, <2>1 DEF t, now
    <3> QED BY <1>5, <2>3, <3>1, <3>2 DEF later
  <2>5. Held(arena, later) = Held(arena, forest) \cup ArticlesIn(arena, x)
    <3>1. Held(arena, later) = UNION {ArticlesIn(arena, later[p]) : p \in 1..(L + 1)}
      BY <2>3 DEF Held, later
    <3>2. Held(arena, forest) = UNION {ArticlesIn(arena, forest[p]) : p \in 1..L}
      BY DEF Held, L
    <3>3. \A p \in 1..L : ArticlesIn(arena, later[p]) = ArticlesIn(arena, forest[p])
      BY <2>3 DEF later
    <3>4. ArticlesIn(arena, later[L + 1]) = ArticlesIn(arena, x)
      BY <2>3 DEF later
    <3> QED BY <2>3, <3>1, <3>2, <3>3, <3>4
  <2>6. \A q \in 1..Len(roots) : q < now + 1 =>
           Held(arena, Built(arena, roots[q])) \subseteq Held(arena, later)
    <3>1. Held(arena, Built(arena, roots[now])) = ArticlesIn(arena, x)
      BY <2>1, HeldIs DEF t, now
    <3> QED BY <1>9, <1>11, <2>5, <3>1
  <2>7. ASSUME NEW p \in 1..L
        PROVE  ArticlesIn(arena, forest[p]) \cap ArticlesIn(arena, x) = {}
    <3>1. PICK q \in 1..Len(roots) : q < now /\ Built(arena, roots[q]) = <<forest[p]>>
      BY <1>9
    <3>2. OneTree(arena, roots[q], Size(arena), <<forest[p]>>)
      BY <1>2, <1>3, <1>6, <3>1, BuiltIs
    <3>3. <<forest[p]>> # <<>> /\ \A y : <<forest[p]>> = <<y>> => forest[p] = y
      OBVIOUS
    <3>4. ArticlesIn(arena, forest[p]) \subseteq ArticlesUnder(arena, roots[q])
      BY <3>2, <3>3 DEF OneTree, GoodTree
    <3>5. ArticlesIn(arena, x) \subseteq ArticlesUnder(arena, roots[now])
      BY <2>1 DEF GoodTree, now
    <3>6. roots[q] # roots[now]
      BY <1>5, <1>6, <3>1
    <3>7. ArticlesUnder(arena, roots[q]) \cap ArticlesUnder(arena, roots[now]) = {}
      BY <1>2, <1>5, <1>6, <1>7, <3>6, RootsApart
    <3> QED BY <3>4, <3>5, <3>7
  <2>8. \A p, q \in 1..(L + 1) :
           p # q => ArticlesIn(arena, later[p]) \cap ArticlesIn(arena, later[q]) = {}
    BY <1>9, <2>3, <2>7 DEF later
  <2>9. BuildInv'
    BY <1>1, <1>4, <1>5, <2>3, <2>4, <2>6, <2>8 DEF BuildInv, later
  <2> QED BY <1>1, <1>4, <1>10, <2>9 DEF WholeInv
<1> QED BY <1>8, <1>12, <1>13 DEF OneTree

LEMMA ReturnThreadsWhole == ThreadInv /\ WholeInv /\ ReturnThreads => WholeInv'
PROOF
<1> SUFFICES ASSUME ThreadInv, WholeInv, ReturnThreads PROVE WholeInv'
  OBVIOUS
<1>1. /\ walk.phase = "build" /\ walk.record > Len(roots)
      /\ walk' = [walk EXCEPT !.phase = "done"]
      /\ UNCHANGED <<records, arena, roots, subjects, forest>>
  BY DEF ReturnThreads
<1>2. walk \in Walks
  BY DEF ThreadInv, WalkInv
<1>3. Homes(arena) /\ Rooting /\ Topmost(arena, roots) /\ BuildInv /\ \E S : Layers(arena, roots, S)
  BY <1>1 DEF WholeInv
<1>4. walk'.phase = "done" /\ walk'.record = walk.record
  BY <1>1, <1>2 DEF Walks
<1>5. walk.record = Len(roots) + 1
  BY <1>1, <1>3 DEF BuildInv
<1>6. BuildInv'
  BY <1>1, <1>3, <1>4, <1>5 DEF BuildInv
<1>7. Rooting'
  BY <1>1, <1>3 DEF Rooting
<1> QED BY <1>1, <1>3, <1>4, <1>6, <1>7 DEF WholeInv

LEMMA WholeSteps == ThreadInv /\ WholeInv /\ [ThreadNext]_threadVars => WholeInv'
PROOF
<1>1. ThreadInv /\ WholeInv /\ ThreadNext => WholeInv'
  BY InsertRecordWhole, LinkWhole, CollectRootsWhole, GroupRootWhole, RetainRootsWhole,
     ClampDepthWhole, BuildRootWhole, ReturnThreadsWhole DEF ThreadNext
<1>2. ThreadInv /\ WholeInv /\ UNCHANGED threadVars => WholeInv'
  <2> SUFFICES ASSUME WholeInv, UNCHANGED threadVars PROVE WholeInv'
    OBVIOUS
  <2>1. arena' = arena /\ walk' = walk /\ roots' = roots /\ subjects' = subjects /\ forest' = forest
    BY DEF threadVars
  <2>2. (Rooting' <=> Rooting) /\ (GroupInv' <=> GroupInv) /\ (BuildInv' <=> BuildInv)
    BY <2>1 DEF Rooting, GroupInv, BuildInv
  <2> QED BY <2>1, <2>2 DEF WholeInv
<1> QED BY <1>1, <1>2

-----------------------------------------------------------------------------
(* What thread() returns                                                   *)

\* Every root's tree is there, so every record is, and nothing else.
LEMMA ReturnedForest ==
    ASSUME ThreadInv, JoinInv, WholeInv, walk.phase = "done"
    PROVE  FullForest
PROOF
<1> DEFINE L == Len(forest)
           N == Size(arena)
<1>1. /\ IsForest(arena) /\ N \in Nat /\ Len(records) \in Nat
      /\ arena.by_article \in Seq(Containers(arena))
      /\ Len(arena.by_article) = Len(records)
  BY SizeIs DEF ThreadInv, WalkInv, JoinInv, IsForest, ArenaTyped
<1>2. DOMAIN arena.by_article = 1..Len(records)
  BY <1>1
<1>3. Homes(arena) /\ Rooting /\ Topmost(arena, roots) /\ BuildInv
  BY DEF WholeInv
<1>4. Apart(arena)
  BY <1>3, HomesApart
<1>5. /\ walk.record = Len(roots) + 1 /\ Len(roots) \in Nat /\ L \in Nat
      /\ forest = [p \in 1..L |-> forest[p]]
      /\ \A p \in 1..L : \E q \in 1..Len(roots) : Built(arena, roots[q]) = <<forest[p]>>
      /\ \A q \in 1..Len(roots) : q < walk.record =>
            Held(arena, Built(arena, roots[q])) \subseteq Held(arena, forest)
      /\ \A p, q \in 1..L : p # q => ArticlesIn(arena, forest[p]) \cap ArticlesIn(arena, forest[q]) = {}
  BY <1>3 DEF BuildInv
<1>6. \A q \in 1..Len(roots) : q < walk.record
  BY <1>5
<1>7. \A q \in 1..Len(roots) : roots[q] \in Containers(arena)
  BY <1>3 DEF Topmost
<1>8. ASSUME NEW p \in 1..L
      PROVE  \E c \in Containers(arena) : GoodTree(arena, c, N, forest[p])
  <2>1. PICK q \in 1..Len(roots) : Built(arena, roots[q]) = <<forest[p]>>
    BY <1>5
  <2>2. OneTree(arena, roots[q], N, <<forest[p]>>)
    BY <1>1, <1>3, <1>7, <2>1, BuiltIs
  <2>3. <<forest[p]>> # <<>> /\ \A y : <<forest[p]>> = <<y>> => forest[p] = y
    OBVIOUS
  <2> QED BY <1>7, <2>2, <2>3 DEF OneTree
<1>9. \A c \in Containers(arena) : ArticlesUnder(arena, c) \subseteq 1..Len(records)
  <2> SUFFICES ASSUME NEW c \in Containers(arena), NEW d \in Subtree(arena, c), ArticleOf(arena, d) # 0
               PROVE  ArticleOf(arena, d) \in 1..Len(records)
    BY DEF ArticlesUnder
  <2>1. d \in Containers(arena)
    BY <1>1, SubtreeIs
  <2> QED BY <1>2, <1>3, <2>1 DEF Homes
<1>10. Held(arena, forest) \subseteq 1..Len(records)
  <2>1. \A p \in 1..L : ArticlesIn(arena, forest[p]) \subseteq 1..Len(records)
    BY <1>8, <1>9 DEF GoodTree
  <2> QED BY <2>1 DEF Held
<1>11. 1..Len(records) \subseteq Held(arena, forest)
  <2> SUFFICES ASSUME NEW v \in 1..Len(records) PROVE v \in Held(arena, forest)
    OBVIOUS
  <2> DEFINE d == arena.by_article[v]
  <2>1. d \in Containers(arena) /\ ArticleOf(arena, d) = v /\ v # 0
    BY <1>1, <1>2, <1>3 DEF Homes
  <2>2. v \in Held(arena, Built(arena, RootOf(arena, d)))
    BY <1>1, <1>4, <2>1, BuiltHolds
  <2>3. RootOf(arena, d) \in ToSet(roots)
    BY <1>2, <1>3 DEF Rooting
  <2>4. PICK q \in 1..Len(roots) : RootOf(arena, d) = roots[q]
    BY <1>3, <2>3 DEF ToSet, Topmost
  <2>5. Held(arena, Built(arena, roots[q])) \subseteq Held(arena, forest)
    BY <1>5, <1>6
  <2> QED BY <2>2, <2>4, <2>5
<1>12. \A p \in 1..L : /\ ArticlesIn(arena, forest[p]) \in SUBSET Nat
                       /\ ArticlesIn(arena, forest[p]) # {}
                       /\ Settled(forest[p], N)
                       /\ \A m \in NodesWithin(forest[p], N) : Sound(arena, m)
  BY <1>8 DEF GoodTree
<1>13. Listed(arena, forest)
  BY <1>5, <1>12 DEF Listed
<1>14. Held(arena, forest) = 1..Len(records)
  BY <1>10, <1>11
<1> QED BY <1>1, <1>12, <1>13, <1>14 DEF FullForest

\* What is returned is what thread() promises, but for who is with whom.
LEMMA ReturnedWhole ==
    ThreadInv /\ JoinInv /\ WholeInv => EveryArticleOnce /\ DepthBounded /\ RepliesInOrder
PROOF
<1> SUFFICES ASSUME ThreadInv, JoinInv, WholeInv, walk.phase = "done"
             PROVE  EveryArticleOnce /\ DepthBounded /\ RepliesInOrder
  BY DEF EveryArticleOnce, DepthBounded, RepliesInOrder
<1>1. FullForest
  BY ReturnedForest
<1>2. EveryArticleOnce
  BY <1>1, EachShownOnce DEF EveryArticleOnce
<1>3. DepthBounded
  <2>1. IsForest(arena) /\ Homes(arena) /\ Topmost(arena, roots) /\ BuildInv
    BY DEF ThreadInv, WholeInv
  <2>2. Apart(arena)
    BY <2>1, HomesApart
  <2>3. PICK S : Layers(arena, roots, S)
    BY DEF WholeInv
  <2>4. \A x \in ToSet(forest) : \E c \in ToSet(roots) : Built(arena, c) = <<x>>
    <3>1. \A p \in 1..Len(forest) : \E q \in 1..Len(roots) : Built(arena, roots[q]) = <<forest[p]>>
      BY <2>1 DEF BuildInv
    <3>2. DOMAIN forest = 1..Len(forest) /\ DOMAIN roots = 1..Len(roots)
      BY <2>1 DEF BuildInv, Topmost
    <3> QED BY <3>1, <3>2 DEF ToSet
  <2>5. NodesAt(MaxDepth + 1) = {}
    BY <2>1, <2>2, <2>3, <2>4, ShallowForest
  <2> QED BY <2>5 DEF DepthBounded
<1>4. RepliesInOrder
  <2> SUFFICES ASSUME NEW n \in Levels, NEW m \in NodesAt(n)
               PROVE  LET oldest(i) == Oldest(arena, m.children[i])
                      IN  /\ m.article = 0 => Len(m.children) >= 2
                          /\ \A i, j \in DOMAIN m.children : i < j => oldest(i) < oldest(j)
    BY DEF RepliesInOrder
  <2>1. n \in Nat
    BY <1>1 DEF Levels, FullForest
  <2>2. Sound(arena, m)
    BY <1>1, <2>1, NodesAreSound
  <2>3. DOMAIN m.children = 1..Len(m.children)
    BY <2>2 DEF Sound, Listed
  <2> QED BY <2>2, <2>3 DEF Sound
<1> QED BY <1>2, <1>3, <1>4

(***************************************************************************)
(* thread() returns every record once, in trees of at most MAX_DEPTH       *)
(* levels below the first, with the replies to a node oldest first and     *)
(* with what they answer, whatever the headers say (thread).               *)
(***************************************************************************)
THEOREM ThreadsAreWhole == ThreadSpec => []ThreadsWhole
PROOF
<1>1. ThreadInit => ThreadInv /\ JoinInv /\ WholeInv
  BY ThreadStarts, JoiningStarts, WholeStarts
<1>2. ThreadInv /\ [ThreadNext]_threadVars => ThreadInv'
  BY ThreadSteps
<1>3. ThreadInv /\ JoinInv /\ [ThreadNext]_threadVars => JoinInv'
  BY JoinSteps
<1>4. ThreadInv /\ WholeInv /\ [ThreadNext]_threadVars => WholeInv'
  BY WholeSteps
<1>5. ThreadInv /\ JoinInv /\ WholeInv /\ RepliesJoinTheirParent => ThreadsWhole
  BY ReturnedWhole DEF ThreadsWhole
<1> QED BY <1>1, <1>2, <1>3, <1>4, <1>5, RepliesAreTogether, PTL DEF ThreadSpec
=============================================================================
