CONSTANTS
  c1 = c1
  c2 = c2
  Clients = {c1, c2}
  NoClient = NoClient
  SameLAN = TRUE
  DHCPEnabled = FALSE
  MaxProcs = 8
  Budget <- MishapBudget
SPECIFICATION Spec
SYMMETRY ClientSymmetry
INVARIANTS
  TypeOK
  NoResidueWithoutJournal
  RunningJournalHonest
PROPERTIES
  PromiseKept
  FrontDoorOpensLast
  StrangerSafeOnceIdentified
  EarlierBootNeverSignalled
CHECK_DEADLOCK FALSE
