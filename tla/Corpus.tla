------------------------------- MODULE Corpus -------------------------------
(***************************************************************************)
(* The articles a test server serves: groups in the order they were added, *)
(* each with its articles by number.  An article is its message-id; what   *)
(* it says plays no part in which replies are sent.                        *)
(***************************************************************************)
EXTENDS Wire, FiniteSets, FiniteSetsExt, SequencesExt

Group(name, created, articles) ==
    [name |-> name, created |-> created, articles |-> articles]

Numbers(group) == DOMAIN group.articles

\* What Group::new and Group::article_at build: a map from numbers to articles.
IsGroup(g) ==
    /\ g = Group(g.name, g.created, g.articles)
    /\ g.articles = [n \in Numbers(g) |-> g.articles[n]]
    /\ IsFiniteSet(Numbers(g)) /\ Numbers(g) \subseteq Nat

IsCorpus(corpus) ==
    /\ Len(corpus) \in Nat /\ corpus = [i \in 1..Len(corpus) |-> corpus[i]]
    /\ \A i \in DOMAIN corpus : IsGroup(corpus[i])

\* The lowest and the highest number present, NoArticle for an empty group.
Low(group) == IF Numbers(group) = {} THEN NoArticle ELSE Min(Numbers(group))
High(group) == IF Numbers(group) = {} THEN NoArticle ELSE Max(Numbers(group))

Watermarks(group) ==
    IF Numbers(group) = {} THEN [low |-> 1, high |-> 0]
    ELSE [low |-> Low(group), high |-> High(group)]

Carries(corpus, name) == \E i \in DOMAIN corpus : corpus[i].name = name

\* The position of the first group of that name.
Find(corpus, name) == SelectInSeq(corpus, LAMBDA g : g.name = name)

\* Numbers in the order the articles are kept in.
InOrder(numbers) ==
    [i \in 1..Cardinality(numbers) |->
        CHOOSE n \in numbers : Cardinality({m \in numbers : m <= n}) = i]

\* Every place an article with this id is filed, and the one a lookup finds:
\* the first group that has it, the lowest number there.
PlacesOfId(corpus, id) ==
    {p \in UNION {{i} \X Numbers(corpus[i]) : i \in DOMAIN corpus} :
        corpus[p[1]].articles[p[2]] = id}

FindById(corpus, id) ==
    CHOOSE p \in PlacesOfId(corpus, id) :
        \A q \in PlacesOfId(corpus, id) : p[1] < q[1] \/ (p[1] = q[1] /\ p[2] <= q[2])

\* Mutant: numbered by how many there are.
FileByCount(group, id) ==
    LET number == Cardinality(Numbers(group)) + 1
    IN  [group EXCEPT !.articles = [n \in Numbers(group) \cup {number} |->
            IF n = number THEN id ELSE group.articles[n]]]

File(group, id) ==
    LET number == High(group) + 1
    IN  [group EXCEPT !.articles = [n \in Numbers(group) \cup {number} |->
            IF n = number THEN id ELSE group.articles[n]]]

\* One number per group named and carried; a group named twice files it twice.
Inject(corpus, names, id) ==
    FoldLeft(LAMBDA c, name :
                 IF Carries(c, name)
                 THEN [c EXCEPT ![Find(c, name)] = File(@, id)]
                 ELSE c,
             corpus, names)

\* How many places are taken.
Total(corpus) == MapThenSumSet(LAMBDA i : Cardinality(Numbers(corpus[i])), DOMAIN corpus)

=============================================================================
