\* Two regions, one of which tries twice, on a host whose itc-server may die.
CONSTANTS
  r1 = r1
  r2 = r2
  Region <- Regions
  MaxCalls <- Calls
  Leftovers <- Left
  ItcServers = {r2}
  MaxFd = 2
  MaxDeaths = 1
SPECIFICATION FairSpec
INVARIANTS
  OkMeansReady
  FirstStartIsClean
  StaleOnlyThroughOthers
PROPERTIES
  CallsReturn
CHECK_DEADLOCK FALSE
