------------------------------ MODULE MCReader ------------------------------
(* Instances of Reader for TLC. *)
EXTENDS Reader, TLC

CONSTANTS a, b, e, d1, d2

\* Groups with two articles each, and an empty one.
OneGroup == a :> [low |-> 1, high |-> 2]
TwoGroups == (a :> [low |-> 1, high |-> 2]) @@ (b :> [low |-> 1, high |-> 2])
WithEmpty == (a :> [low |-> 1, high |-> 2]) @@ (e :> [low |-> 1, high |-> 0])

\* a and b are interchangeable in TwoGroups.
GroupSymmetry == Permutations({a, b})
=============================================================================
