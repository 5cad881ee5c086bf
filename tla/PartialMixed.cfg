CONSTANTS
  t1 = t1
  t2 = t2
  Trajectory = {t1, t2}
  SingleTurn = {t2}
  ResponseLength = 2
  ModelLength = 3
  MaxAssistantTurns = 0
  Syncs = 1
SPECIFICATION FairSpec
CHECK_DEADLOCK FALSE
INVARIANTS
  NoTokenDuringSync
PROPERTIES
  PauseHarmless
