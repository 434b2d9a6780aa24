SPECIFICATION Spec
CONSTANTS
  OneKeys = 1
  TwoKeys = 3
  Strays = {0, 9}
  Xs = {1}
  ZWindow <- Window
  ZBias <- Biases
  ZWeight <- Weights
  Queries <- MCShifted
  SpaceOf <- QuerySpace
  WalksOf <- QueryWalks
  AnswerOf <- QueryAnswer
INVARIANTS
  ResultExact
CHECK_DEADLOCK FALSE
