CONSTANTS
  trainer = trainer
  Trainer = trainer
  Consumers = {trainer}
  RequiredSamples = 2
  TriggerStep = 1
  StaleSamples = 1
  MaxQueueSize = 3
  ServerSlots = 2
  PendingSize = 5
  Total = 4
  PartialRollout = FALSE
  MaxFailures = 1
  TestFreq = 2
SPECIFICATION FairSpec
INVARIANTS
  NoGenerationDuringSync
  AllDelivered
PROPERTIES
  Terminates
