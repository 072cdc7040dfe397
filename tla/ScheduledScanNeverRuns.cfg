SPECIFICATION FairSpec
CONSTANTS
  Slots = {1, 2}
  TBudget <- MCTBudget
  Sources = {a, b}
  Digests = {d1, d2}
  NoDigest = NoDigest
  SBudget <- MCSBudget
  Raws = {"p1", "p2"}
  HostFiles = {"h1", "h2"}
  LBudget <- MCLBudget
  Domains = {x, y}
  Addresses = {i}
  NoAddress = NoAddress
  Day = 2
  OHorizon = 3
  OBudget <- MCOBudget
  Targets = 2
  Addrs = 3
  Speeds = {0, 1, 2}
  Settings <- MCSettings
  Requests = {q1, q2}
  Sessions = {c1, c2}
  MaxFailures = 2
  Life = 2
  WHorizon = 4
  WBudget <- MCWBudget
  Specs = {"s1", "s2"}
  Images = {"i1", "i2"}
  DBudget <- MCDBudget
  Conns = {1, 2, 3}
  ABudget <- MCABudget
  Graphs = {"g1", "g2"}
  Pids = {1, 2}
  Clients = {c1, c2}
  PBudget <- MCPBudget
  Containers = {1, 2}
  Parts = {"a", "b"}
  IBudget <- MCIBudget
  NBudget <- MCNBudget
PROPERTY RunsOnSchedule
CHECK_DEADLOCK FALSE
