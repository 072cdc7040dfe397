-------------------------- MODULE MCControlPlane --------------------------
(* ControlPlane for TLC: small sets and a budget for each controller.      *)
EXTENDS ControlPlane

MCTBudget == [human |-> 2, requests |-> 7, faults |-> 1]

MCSBudget == [operations |-> 3, faults |-> 1, deaths |-> 1]

MCLBudget == [operations |-> 3, edits |-> 1, faults |-> 1]

MCOBudget == [requests |-> 2, faults |-> 1, deaths |-> 1]

\* The minimum speed of settings 1 and 2 is none; the others share a window or wait for two downloads.
MCSettings == {[window |-> 1, downloads |-> 1, floor |-> 0], [window |-> 2, downloads |-> 1, floor |-> 0],
               [window |-> 2, downloads |-> 1, floor |-> 2], [window |-> 2, downloads |-> 2, floor |-> 1]}

MCWBudget == [requests |-> 5, faults |-> 1, deaths |-> 1]

MCDBudget == [applies |-> 3, faults |-> 2, people |-> 2, deaths |-> 1]

MCABudget == [faults |-> 2, deaths |-> 1, user |-> 2]

MCPBudget == [forks |-> 2, faults |-> 2, deaths |-> 2, reboots |-> 1]

MCIBudget == [faults |-> 1, deaths |-> 2, others |-> 1]

MCNBudget == [deaths |-> 3, faults |-> 2, manual |-> 2]
=============================================================================
