CONSTANTS
  r1 = r1
  r2 = r2
  s1 = s1
  s2 = s2
  itemA = itemA
  Runs = {r1, r2}
  Resolves = {s1, s2}
  ItemOf <- MCItemOf
  PipelineLock = PipelineLock
  NoProc = NoProc
SYMMETRY Symmetry
SPECIFICATION Spec
INVARIANT TwoTierExclusion
CHECK_DEADLOCK FALSE
