--------------------------- MODULE BlockFinality ---------------------------
(***************************************************************************)
(* What the consensus of a block promises: each validator decides on at    *)
(* most one block, once and for all, and no two on different ones.         *)
(***************************************************************************)
CONSTANTS
    Validators,
    Blocks,          \* the possible decisions
    None             \* no decision yet

VARIABLE
    decision         \* the decision of each validator

Init == decision = [n \in Validators |-> None]

Finalize(n, d) ==
    /\ decision[n] = None
    /\ \A m \in Validators : decision[m] \in {None, d}
    /\ decision' = [decision EXCEPT ![n] = d]

Next ==
    \E n \in Validators : decision'[n] \in Blocks /\ Finalize(n, decision'[n])

Spec == Init /\ [][Next]_decision
=============================================================================
