CONSTANTS
  MaxFaults = 1
  MaxDeaths = 0
  MaxCrashes = 0
SPECIFICATION Spec
INVARIANTS
  GuardOutlivesRouting
