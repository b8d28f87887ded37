CONSTANTS
  t1 = t1
  Torrents = {t1}
  Debounce = 1
  SafetyNet = 2
  Scoped = FALSE
  CrossSeedAttempts = 2
  MaxTrouble = 1
SPECIFICATION FairSpec
INVARIANT TypeOK
INVARIANT PacesObtainedRuns
PROPERTY GraceRestarts
PROPERTY SafetyNetOverdue
PROPERTY EveryCompletionServed
PROPERTY EveryPokeServed
PROPERTY SafetyNetLives
CHECK_DEADLOCK FALSE
