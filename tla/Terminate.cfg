SPECIFICATION Spec
CONSTANTS
  OneKeys = 2
  TwoKeys = 2
  Strays = {0, 9}
  Xs = {2}
  ZWindow <- Window
  ZBias <- Biases
  ZWeight <- Weights
  Queries <- MCQueries
  SpaceOf <- QuerySpace
  WalksOf <- QueryWalks
  AnswerOf <- MirrorAnswer
PROPERTIES
  ImplementsScan
CHECK_DEADLOCK FALSE
