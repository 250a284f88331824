--------------------------- MODULE MCGatewayTasks ---------------------------
(* Values for checking GatewayTasks.                                       *)
EXTENDS GatewayTasks, TLC

SymmetryOfTasks == Permutations(Tasks)
=============================================================================
