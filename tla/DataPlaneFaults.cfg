CONSTANTS
  MaxFaults = 3
  MaxDeaths = 2
  MaxCrashes = 2
SPECIFICATION Spec
INVARIANTS
  RunningFailsClosed
  GuardOutlivesUntilFault
  DownMeansClean
  DownMeansForwardingAsBefore
