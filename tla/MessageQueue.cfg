CONSTANTS
  c1 = c1
  c2 = c2
  Consumers = {c1, c2}
  MaxQueueSize = 2
  MaxSamples = 5
  Modes <- MCModes
  Steps = 5
  Offload = FALSE
  MaxTrigger = 2
  Actors = 2
  Rollouts = 1
  Sizes <- MCSizes
  DeviceBuffer = 2
  Overlaps = {TRUE, FALSE}
SPECIFICATION MCSpec
CHECK_DEADLOCK FALSE
INVARIANTS
  NewestInOrder
  NoLostWakeup
  Reported
  OldPolicy
  WeightsWhole
PROPERTIES
  ShutdownReleases
  FitReturns
