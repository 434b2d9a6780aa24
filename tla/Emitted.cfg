SPECIFICATION Spec
CONSTANTS
  MaxKey = 3
  FoldAccs = {"own", "later"}
  ZWindow <- Window
  ZBias <- Biases
  ZWeight <- Weights
  EmittedQueries <- MCQueries
  Compiled <- MCCompiled
  QuerySpace <- MCSpace
INVARIANTS
  TypeOK
  PassesTyped
  NamesResolve
  FoldExact
  ReturnsFinished
PROPERTIES
  ImplementsLoop
  Returns
