CONSTANTS
  trainer = trainer
  Trainer = trainer
  Consumers = {trainer}
  RequiredSamples = 1
  TriggerStep = 1
  StaleSamples = 1
  MaxQueueSize = 2
  ServerSlots = 2
  PendingSize = 2
  Total = 5
  PartialRollout = TRUE
  MaxFailures = 0
  TestFreq = 1
SPECIFICATION Spec
INVARIANTS
  OnePlace VersionsInOrder VersionLag SleepsOnlyWhilePaused InFlightBounded
