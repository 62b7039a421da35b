SPECIFICATION CloudSpec
CONSTANTS
  Shells = {s1}
  Boxes = {b1}
  Pages = {p1}
  MaxExtras = 1
  NoBox = NoBox
  NoShell = NoShell
INVARIANTS MachineFound
CHECK_DEADLOCK FALSE
