--------------------------- MODULE MCInputManager ---------------------------
(* InputManager and, beside it, InputGates on small instances.             *)
EXTENDS InputManager, InputGates

CONSTANTS i1, i2

\* Both inputs say the same, so that one may be answered from the other's result.
SameContent == [i \in Inputs |-> "p"]

\* The two share nothing, so that it shows no more if both move: one does.
MCInit == Init /\ GatesInit
MCNext ==
    \/ GatesInit /\ Next /\ UNCHANGED gates
    \/ Init /\ GatesNext /\ UNCHANGED vars

MCSpec == MCInit /\ [][MCNext]_<<vars, gates>> /\ Fairness
=============================================================================
