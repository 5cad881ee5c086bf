CONSTANTS
  trainer = trainer
  Trainer = trainer
  Consumers = {trainer}
  RequiredSamples = 2
  TriggerStep = 1
  StaleSamples = 1
  MaxQueueSize = 3
  ServerSlots = 2
  PendingSize = 2
  Total = 6
  PartialRollout = FALSE
  MaxFailures = 0
  TestFreq = 2
SPECIFICATION Spec
INVARIANT NoNewTasks
