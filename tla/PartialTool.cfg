CONSTANTS
  t1 = t1
  t2 = t2
  Trajectory = {t1}
  SingleTurn = {}
  ResponseLength = 5
  ModelLength = 6
  MaxAssistantTurns = 0
  Syncs = 2
SPECIFICATION FairSpec
CHECK_DEADLOCK FALSE
INVARIANTS
  Recorded
PROPERTIES
  ImplementsStream
  SampleCompletes
