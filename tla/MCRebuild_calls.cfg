SPECIFICATION FairSpec
CONSTANTS
  Callers = {c1, c2}
  Wide = {}
  Narrow = {n1}
  MaxDisk = 2
  MaxAsks = 3
  MaxFaults = 1
  NoOne = NoOne
INVARIANTS TypeOK FreshSummary NoNeedlessBuild
PROPERTIES Answered FreshRegistry NoStepBack Implements
CHECK_DEADLOCK FALSE
