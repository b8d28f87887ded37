CONSTANTS
  dispatch = dispatch
  scan = scan
  Rows = {1, 2}
  SameFile = {}
  Unusable = {}
  Complete = {1, 2}
  Batch = 2
  Drains = {dispatch, scan}
  ByHand = FALSE
  MaxTrouble = 1
SPECIFICATION Spec
PROPERTY ReplayedOnRemount
