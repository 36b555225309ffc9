\* Two names and two values: a name can be defined twice, with equal or with
\* different values, in any of three nested scopes.
CONSTANTS
  Names      = {a, b}
  Vals       = {v1, v2}
  ClassNames = {C}
  ClassVals  = {t1, t2}
  MaxDepth   = 4
SPECIFICATION Spec
INVARIANTS TypeOK TablesOK LookupStable
PROPERTIES OuterFrozen EnvSpec
CHECK_DEADLOCK FALSE
