SPECIFICATION Spec
CONSTANTS
  Ranks = {0, 1}
  Lead = 0
  Confs <- KeepOne
  EpochLen = 2
  Epochs = 3
  TotalSteps = 6
  SaveFreq = 2
  TestFreq = 2
  MaxCrashes = 1
INVARIANTS Resumable
CHECK_DEADLOCK FALSE
