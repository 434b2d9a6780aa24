SPECIFICATION Spec
CONSTANTS
  OneKeys = 5
  TwoKeys = 4
  Strays = {0, 9}
  Xs = {1, 2}
  ZWindow <- Window
  ZBias <- Biases
  ZWeight <- Weights
  Queries <- MCQueries
  SpaceOf <- QuerySpace
  WalksOf <- QueryWalks
  AnswerOf <- MirrorAnswer
INVARIANTS
  TypeOK
  ResultExact
  ElementsMatch
  NoStrayRead
  OutputSorted
  NullsCounted
  RowsFit
PROPERTIES
  ScanSteps
CHECK_DEADLOCK FALSE
