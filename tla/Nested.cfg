SPECIFICATION Spec
CONSTANTS
  Side = {0, 1, 3}
  Shapes = {"rectangle", "triangle", "distinct"}
  ZWindow <- Window
  ZBias <- Biases
  ZWeight <- Weights
  Queries <- MCPairQueries
  SpaceOf <- PairSpace
  AnswerOf <- PairAnswer
  Separable <- IsSeparable
  Rectangle <- IsRectangle
INVARIANTS
  PairsExact
  PairsLostToBound
  PairsSorted
  RectangleByBlock
PROPERTIES
  NestEnds
CHECK_DEADLOCK FALSE
