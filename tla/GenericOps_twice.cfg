SPECIFICATION OpSpec
CONSTANTS
  Jobs = {j1, j2}
  Keys = {merge}
  Stoppable = {}
  Builds = {}
  NoJob = NoJob
  NoKey = NoKey
  MaxCrashes = 0
INVARIANTS OneRunEver
CHECK_DEADLOCK FALSE
