SPECIFICATION FairSpec
CONSTANTS
  Cases = {a, b}
  Slots = {s1, s2}
  Runners = {r1}
  OneCase = {}
  Waiters = {r1}
  Adders = {u1}
  Tools = {t1}
  NStages = 1
  MaxTries = 1
  MaxOps = 1
  NoCase = NoCase
  NoOne = NoOne
INVARIANTS LedCaseOnly UniqueLive
PROPERTIES RunEnds ImplementsLedQueue
