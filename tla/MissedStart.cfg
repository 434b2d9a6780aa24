SPECIFICATION Spec
CONSTANTS
  OneKeys = 5
  TwoKeys = 1
  Strays = {0, 9}
  Xs = {1, 2}
  ZWindow <- Window
  ZBias <- Biases
  ZWeight <- Weights
  Queries <- MCMissed
  SpaceOf <- QuerySpace
  WalksOf <- QueryWalks
  AnswerOf <- QueryAnswer
INVARIANTS
  StrayRowAtMost
CHECK_DEADLOCK FALSE
