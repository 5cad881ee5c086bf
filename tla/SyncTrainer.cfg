SPECIFICATION FairSpec
CONSTANTS
  Ranks = {0, 1}
  Lead = 0
  Confs <- MCConfs
  EpochLen = 2
  Epochs = 3
  TotalSteps = 6
  SaveFreq = 3
  TestFreq = 2
  MaxCrashes = 2
INVARIANTS Recoverable OnPolicy StateMatchesStep ModesApart
PROPERTIES ImplementsTrainingRun Finishes
CHECK_DEADLOCK FALSE
