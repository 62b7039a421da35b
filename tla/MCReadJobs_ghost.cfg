SPECIFICATION Spec
CONSTANTS
  Jobs = {j1, j2}
  Keys = {a, b}
  NoJob = NoJob
  NoKey = NoKey
  Shards = 2
  Faults = {}
  MaxFaults = 0
  MaxForeign = 0
PROPERTIES NoGhostRead
CHECK_DEADLOCK FALSE
