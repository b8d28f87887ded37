CONSTANTS
  dispatch = dispatch
  scan = scan
  Rows = {1, 2, 3}
  SameFile = {1, 2}
  Unusable = {1}
  Complete = {2}
  Batch = 2
  Drains = {dispatch, scan}
  ByHand = TRUE
  MaxTrouble = 2
SPECIFICATION Spec
INVARIANT TypeOK
INVARIANT DoneIsWritten
INVARIANT DeferredIsParked
PROPERTY InOrder
PROPERTY DrainsEnd
PROPERTY EveryRowSettles
