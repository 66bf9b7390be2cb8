---------------------------- MODULE AtomicStore ----------------------------
(***************************************************************************)
(* What a read-state store promises: the saved state is only ever replaced *)
(* as a whole, by what some running reader holds, as that reader leaves.   *)
(* A reader that crashes, fails to save, or has nothing to save leaves it  *)
(* as it was.                                                              *)
(***************************************************************************)
CONSTANTS Readers, States, Blank, None   \* Blank: nothing read anywhere

VARIABLES saved, memory

Init == saved \in States /\ memory = [p \in Readers |-> None]

Others(p) == memory' = [memory EXCEPT ![p] = memory'[p]]

\* A state that cannot be read counts as nothing read.
Open(p) == /\ memory[p] = None
           /\ memory'[p] \in {saved, Blank}
           /\ Others(p)
           /\ UNCHANGED saved

Change(p) == /\ memory[p] # None
             /\ memory'[p] \in States
             /\ Others(p)
             /\ UNCHANGED saved

Leave(p) == /\ memory[p] # None
            /\ memory' = [memory EXCEPT ![p] = None]
            /\ saved' \in {saved, memory[p]}

Next == \E p \in Readers : Open(p) \/ Change(p) \/ Leave(p)

Spec == Init /\ [][Next]_<<saved, memory>>

=============================================================================
