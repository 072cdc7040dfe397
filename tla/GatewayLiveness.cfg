CONSTANTS
  Clients = {entrypoint, control}
  Entrypoint = entrypoint
  NoClient = NoClient
  SameLAN = TRUE
  DHCPEnabled = FALSE
  MaxProcs = 8
  Attempts = 3
  Budget <- BootBudget
SPECIFICATION BootSpec
CONSTRAINT AtMostTwo
PROPERTIES
  EveryCommandReturns
  
  
CHECK_DEADLOCK FALSE
