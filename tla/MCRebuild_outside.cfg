SPECIFICATION Spec
CONSTANTS
  Callers = {c1}
  Wide = {w1}
  Narrow = {}
  MaxDisk = 1
  MaxAsks = 2
  MaxFaults = 0
  NoOne = NoOne
PROPERTIES FreshAlways
