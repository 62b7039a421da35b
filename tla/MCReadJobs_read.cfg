SPECIFICATION FairSpec
CONSTANTS
  Jobs = {j1, j2}
  Keys = {a, b}
  NoJob = NoJob
  NoKey = NoKey
  Shards = 2
  Faults = {"look", "spawn", "register", "pipe", "kill", "crash"}
  MaxFaults = 1
  MaxForeign = 1
INVARIANTS TypeOK CardHeld NobodyStranded OneJobPerKey
PROPERTIES ReadsEnd CancelledStays
CHECK_DEADLOCK FALSE
