CONSTANTS
  c1 = c1
  c2 = c2
  Clients = {c1, c2}
  NoClient = NoClient
  SameLAN = FALSE
  DHCPEnabled = TRUE
  MaxProcs = 8
  Budget <- SteadyBudget
SPECIFICATION Spec
SYMMETRY ClientSymmetry
INVARIANTS
  EveryProcessAccountedFor
  RunningKeepsAppliedPolicy
CHECK_DEADLOCK FALSE
