CONSTANTS
  MaxNodes = 5
  MaxArgs = 1
SPECIFICATION Spec
INVARIANTS
  FlagAccounted
  TypeIsReal
