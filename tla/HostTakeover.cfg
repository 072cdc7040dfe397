SPECIFICATION FromOneAddress
CONSTANTS
  Addresses = {"a1", "a2"}
  Modes = {"auto", "host"}
  MaxBlock = 5
  TailscaleAt = 2
  QTSBlocks = {4}
  Budget <- MishapBudget
CHECK_DEADLOCK FALSE
INVARIANTS TypeOK EverythingReleasable
PROPERTIES StopReleases HostFallsBack TakeoverComes
