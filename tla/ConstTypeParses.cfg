CONSTANTS
  Kinds <- ConstKinds
  MaxTokens <- ConstMaxTokens
SPECIFICATION SpecWithHistory
PROPERTY ConstTypeParses
