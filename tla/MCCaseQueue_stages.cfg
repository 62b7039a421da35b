SPECIFICATION Spec
CONSTANTS
  Cases = {a}
  Slots = {s1, s2}
  Runners = {r1, r2}
  OneCase = {r2}
  Waiters = {}
  Adders = {u1}
  Tools = {t1}
  NStages = 2
  MaxTries = 1
  MaxOps = 3
  NoCase = NoCase
  NoOne = NoOne
SYMMETRY Symmetric
INVARIANTS TypeOK SingleRunner DoneIsPassed TriesBounded
PROPERTIES NoOverrule
