CONSTANTS
  Kinds <- MCKinds
  MaxTokens <- MCMaxTokens
SPECIFICATION SpecWithHistory
INVARIANTS
  BracketsMatch
  TreeFollowsLevels
PROPERTY ParserEnds
