CONSTANTS
  s1 = s1
  s2 = s2
  w1 = w1
  w2 = w2
  Requests = {1, 2}
  Supervisors = {s1, s2}
  Workers = {w1, w2}
  Nobody = Nobody
  Foreign = Foreign
  MaxStartAttempts = 2
  MaxUnreadable = 2
  MaxTrouble = 1
SYMMETRY Symmetry
VIEW Ahead
SPECIFICATION PunctualSpec
INVARIANT TypeOK
INVARIANT OneTicker
INVARIANT NoWorkerOnQueued
PROPERTY ImplementsRunQueue
