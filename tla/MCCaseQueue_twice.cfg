SPECIFICATION FairSpec
CONSTANTS
  Cases = {a}
  Slots = {s1, s2}
  Runners = {r1}
  OneCase = {}
  Waiters = {}
  Adders = {u1, u2}
  Tools = {}
  NStages = 1
  MaxTries = 1
  MaxOps = 0
  NoCase = NoCase
  NoOne = NoOne
PROPERTIES RunEnds
