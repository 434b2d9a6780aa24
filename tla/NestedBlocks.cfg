SPECIFICATION Spec
CONSTANTS
  Side = {3}
  Shapes = {"distinct"}
  ZWindow <- Window
  ZBias <- Biases
  ZWeight <- Weights
  Queries <- MCPairQueries
  SpaceOf <- PairSpace
  AnswerOf <- PairAnswer
  Separable <- IsSeparable
  Rectangle <- IsRectangle
INVARIANTS
  RowsByBlock
CHECK_DEADLOCK FALSE
