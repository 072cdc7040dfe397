SPECIFICATION Spec
CONSTANTS
  Documents <- MCDocuments
  Profiles <- MCProfiles
  Templates <- MCTemplates
  Topologies <- MCTopologies
  Guarded = {"gw"}
  Deaf = {"y"}
  YBudget <- MCYBudget
  Flows = {k1, k2}
  Readers = {r1, r2}
  Egresses = {1, 2}
  Openings <- MCOpenings
  LeaseFiles <- MCLeaseFiles
  Policies <- MCPolicies
  MaxGap = 1
  FHorizon = 2
  FBudget = 3
  Names <- MCNames
  FilterEntries <- MCEntries
  MaxEntries = 2
  Schedules <- MCSchedules
  DayLength = 2
  LastDay = 5
INVARIANTS RoutedAsWritten ChoicesSurvive CompiledIsSound AdviceIsRight
PROPERTIES TrafficAddsUp
CHECK_DEADLOCK FALSE
