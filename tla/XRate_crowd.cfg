SPECIFICATION RateSpec
CONSTANTS
  Requests = {1, 2, 3, 4, 5, 6, 7}
  MaxEvents = 1
  RawWindow = 1
  Slack = 1
  MaxClock = 3
  MaxMishaps = 0
INVARIANTS Spaced
CHECK_DEADLOCK FALSE
