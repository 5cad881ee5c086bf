SPECIFICATION MCSpec
CONSTANTS
  p1 = p1
  p2 = p2
  r1 = r1
  r2 = r2
  r3 = r3
  Requests = {r1, r2, r3}
  Threads = {r1, r2, r3}
  Processes = {p1, p2}
  ProcessOf <- MCProcessOf
  Limiters = {"rpm", "tpm"}
  Limits <- MCLimits
  LimitersOf <- MCLimitersOf
  MaxConcurrent = 1
  Executors = 2
  PoolSize = 2
  NamePrefixes <- MCPrefixes
  MaxErrors = 1
  Ranks = 2
  Parallel = 2
  Sizes = {3, 4, 6, 8}
  MaxLength = 2
  MaxTokens = 3
  MiniSize = 3
  Prompts = 2
  Rollouts = 2
  Masks <- MCMasks
  Outcomes = {0, 100}
  Value <- MCValue
  Divergence <- MCDivergence
  Gamma = 2
  Lam = 3
INVARIANTS
  RateBound ExistsWhenUsed
  RowsReturned NobodyLeftBehind OutcomeCredit ObservationsSkipped
PROPERTIES Answered
CHECK_DEADLOCK FALSE
