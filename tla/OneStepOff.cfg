SPECIFICATION MCSpec
CONSTANTS
  EpochLen = 3
  Epochs = 2
  SaveFreq = 2
  TestFreq = 2
  Tensors = 2
  MaxTokens = 2
  MaxCrashes = 2
  Receivers = 3
  Late <- MCLate
  Bytes <- MCBytes
  BucketSize = 2
  MaxMissed = 1
  a = a
  b = b
  c = c
  Pad = pad
  Word = {a, b, c}
  EndThink = b
  Delimiters <- MCDelimiters
  PromptLength = 2
  ResponseLength = 3
  Matchings = {TRUE, FALSE}
  UseCotMasking = TRUE
  BlockPrompt = TRUE
  BlockAnswer = TRUE
  RemovePadding = FALSE
  Perturbations <- MCPerturbations
INVARIANTS OneStepBehind TrainedInOrder  PerturbationConfined
PROPERTIES HandedInOrder Finishes UpdateMasked
CHECK_DEADLOCK FALSE
