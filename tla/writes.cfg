CONSTANTS
  Writes = {1, 2}
  NoWrite = 0
  Slots = {1, 2}
  Pending = 0
  Retention = 1
  MaxFaults = 2
SPECIFICATION FairSpec
INVARIANT TypeOK
INVARIANT AppliedOnce
INVARIANT ToldTruly
INVARIANT HeldIsKept
PROPERTY FirstAnswerStands
PROPERTY QueueDrains
CHECK_DEADLOCK FALSE
