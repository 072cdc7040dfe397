------------------------- MODULE MCGatewayLifecycle -------------------------
(* GatewayLifecycle for TLC: two clients, and one budget per question.     *)
EXTENDS GatewayLifecycle, TLC

CONSTANTS c1, c2

ClientSymmetry == Permutations({c1, c2})

AtMost(faults, crashes, restarts, deaths, reuses, requests) ==
  [faults |-> faults, crashes |-> crashes, restarts |-> restarts,
   deaths |-> deaths, reuses |-> reuses, requests |-> requests]

MishapBudget   == AtMost(1, 1, 1, 1, 1, 2)   \* one of everything
SteadyBudget   == AtMost(2, 0, 1, 2, 0, 3)   \* no kill, and errors on error paths
=============================================================================
