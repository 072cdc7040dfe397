------------------------- MODULE MCMihomoRecovery -------------------------
(* MihomoRecovery for TLC.                                                 *)
EXTENDS MihomoRecovery

AtMost(errors, storage, unknowns, breaks, requests, external) ==
  [errors |-> errors, storage |-> storage, unknowns |-> unknowns, breaks |-> breaks,
   requests |-> requests, external |-> external]

MishapBudget == AtMost(2, 1, 1, 1, 1, 1)
=============================================================================
