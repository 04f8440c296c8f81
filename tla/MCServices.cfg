SPECIFICATION SpecAll
CONSTANTS
  Runners = {r1, r2}
  Children = {c1, c2, c3}
  NoChild = NoChild
  NoRunner = NoRunner
  Settings <- SmallAndLarge
  r1 = r1
  r2 = r2
  c1 = c1
  c2 = c2
  c3 = c3
  Absent = Absent
SYMMETRY Symmetry
INVARIANTS ChildrenAccounted
PROPERTIES AutomationsKeepTime
CHECK_DEADLOCK FALSE
