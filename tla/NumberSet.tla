----------------------------- MODULE NumberSet -----------------------------
(***************************************************************************)
(* What a read set promises: each call changes, or answers from, a plain   *)
(* set of article numbers.  `call` is the call last made, with its answer. *)
(***************************************************************************)
EXTENDS Naturals, Sequences, FiniteSets

CONSTANTS MaxNumber, Texts

VARIABLES read, call

Number == 0..MaxNumber

\* The numbers a pair of bounds stands for, in either order; there is no article 0.
Between(a, b) == (a..b \cup b..a) \ {0}

Said(text) ==
    UNION {Between(p[1], p[Len(p)]) : p \in {text[i] : i \in DOMAIN text} \ {<<>>}}

Init == \E text \in Texts : /\ call = <<"parse", text>>
                            /\ read = Said(text)

Change(c, new) == call' = c /\ read' = new

Answer(c) == call' = c /\ UNCHANGED read

OnNumber(n) ==
    \/ Change(<<"insert", n>>, read \cup Between(n, n))
    \/ Change(<<"remove", n>>, read \ {n})
    \/ Answer(<<"contains", n, n \in read>>)

OnRange(a, b) ==
    \/ Change(<<"insert_range", a, b>>, read \cup Between(a, b))
    \/ Change(<<"remove_range", a, b>>, read \ Between(a, b))
    \/ Answer(<<"read_in", a, b, Cardinality(((a..b) \ {0}) \cap read)>>)
    \/ Answer(<<"unread_in", a, b, Cardinality(((a..b) \ {0}) \ read)>>)

Total == Answer(<<"count", Cardinality(read)>>)

\* Written to a newsrc line and read back, with nothing in it malformed.
Reload == Answer(<<"reload", {}>>)

Next == \/ Total \/ Reload
        \/ \E n \in Number : OnNumber(n)
        \/ \E a, b \in Number : OnRange(a, b)

Spec == Init /\ [][Next]_<<read, call>>

=============================================================================
