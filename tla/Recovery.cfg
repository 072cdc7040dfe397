CONSTANTS
  Actions = {"start", "stop", "recover-gateway", "restart-mihomo"}
  Errors = {"timeout", "contention", "permanent"}
  UnknownLimit = 2
  Budget <- MishapBudget
SPECIFICATION FairSpec
INVARIANTS
  DeafOnlyDuringOperation
PROPERTIES
  NoRecoveryLoop
  RefusalConfirmedTwice
  WantedGatewayRecovers
