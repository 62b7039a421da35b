INIT Init
NEXT Next
CONSTANTS
  Requests = {1, 2, 3}
  MaxEvents = 2
  RawWindow = 1
  Slack = 1
  MaxClock = 9
  MaxMishaps = 1
  Agents = {a1, a2}
  Movers = {m1, m2}
  Wanted = {a1}
  MaxDeaths = 2
  MaxSlow = 1
  Nobody = Nobody
  Jobs = {1, 2}
  Keys = {merge, sweep, build}
  Stoppable = {sweep}
  Builds = {build}
  NoJob = NoJob
  NoKey = NoKey
  MaxCrashes = 1
  Shells = {s1, s2}
  Boxes = {1, 2}
  Pages = {p1}
  MaxExtras = 2
  NoBox = NoBox
  NoShell = NoShell
  Cases = {k1, k2}
  Later = {n1}
  LastName = 2
  MaxMoves = 2
  MaxKills = 2
  Torn = Torn
SYMMETRY Alike
INVARIANTS Limit NothingLost OneRun ResultExplained NoOrphan OneMachine NothingThrown WorkKept
PROPERTIES NoFreeze Restores
CHECK_DEADLOCK FALSE
