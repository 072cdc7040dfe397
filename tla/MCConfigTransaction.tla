------------------------- MODULE MCConfigTransaction -------------------------
(* Two editors of the same configuration, with a little of everything.     *)
EXTENDS ConfigTransaction
MCCBudget == [faults |-> 2, requests |-> 3, commands |-> 1]
=============================================================================
