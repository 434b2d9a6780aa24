SPECIFICATION Spec
CONSTANTS
  MaxKey = 3
  FoldAccs = {"earlier"}
  ZWindow <- Window
  ZBias <- Biases
  ZWeight <- Weights
  EmittedQueries <- MCQueries
  Compiled <- MCCompiled
  QuerySpace <- MCSpace
INVARIANTS
  FoldExact
