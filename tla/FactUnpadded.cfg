CONSTANTS
  a = a
  b = b
  c = c
  Pad = pad
  Word = {a, b, c}
  EndThink = b
  Delimiters <- MCDelimiters
  PromptLength = 2
  ResponseLength = 3
  Matchings = {TRUE, FALSE}
  UseCotMasking = TRUE
  BlockPrompt = TRUE
  BlockAnswer = TRUE
  RemovePadding = TRUE
  Perturbations <- MCPerturbations
SPECIFICATION Spec
INVARIANTS
  UpdatePerturbed
