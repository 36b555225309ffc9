CONSTANTS
  Names       = {m, self}
  ClassNames  = {C}
  SelfParam   = self
  MethodNames <- MCMethodNames
  Paths       = {}
  MaxParams   = 1
  MaxFns      = 2
  MaxDepth    = 6
SPECIFICATION Spec
INVARIANT ResetAtFunction
