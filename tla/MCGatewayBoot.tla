--------------------------- MODULE MCGatewayBoot ---------------------------
(* GatewayBoot for TLC: the entrypoint and one other client.               *)
EXTENDS GatewayBoot

AtMost(faults, crashes, restarts, deaths, requests) ==
  [faults |-> faults, crashes |-> crashes, restarts |-> restarts,
   deaths |-> deaths, reuses |-> 0, requests |-> requests]

BootBudget == AtMost(1, 1, 1, 1, 2)   \* one of everything ...

\* ... but at most two of failing step, kill and death in one behaviour.  Every
\* command and every try can also go on without the mishap that is cut off.
AtMostTwo == budget.faults + budget.crashes + budget.deaths > 0
=============================================================================
