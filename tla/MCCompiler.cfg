CONSTANTS
  Names       = {m, self}
  ClassNames  = {C}
  SelfParam   = self
  MethodNames <- MCMethodNames
  Paths       = {u}
  MaxParams   = 1
  MaxFns      = 2
  MaxDepth    = 6
SPECIFICATION Spec
INVARIANTS TypeOK ScopeBalance NoForeignLocals FreeFunctionsTerminated OpenAfterMethod
           SelfLostByBody ClassAsserted
PROPERTIES ScopesSpec
