--------------------------- MODULE MCHostTakeover ---------------------------
(* Budgets for the runs of HostTakeover. *)
EXTENDS HostTakeover

AtMost(faults, cancels, kills, stops, requests, changes) ==
  [faults |-> faults, cancels |-> cancels, kills |-> kills,
   stops |-> stops, requests |-> requests, changes |-> changes]

MishapBudget  == AtMost(1, 1, 1, 1, 1, 2)

\* The addresses are interchangeable: the runs start with one of them.
InitAtOne == Init /\ address = CHOOSE a \in Addresses : TRUE

FromOneAddress == InitAtOne /\ [][Next]_vars /\ Fairness
=============================================================================
