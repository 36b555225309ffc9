\* A long of 6 bits tested in unsigned arithmetic of the same width: every literal of up to 6
\* characters, in the four bases.
CONSTANTS
  LongMax = 31
  UMax = 63
  MaxRead = 6
SPECIFICATION Spec
INVARIANTS
  TypeOK
  ExactWhenItFits
PROPERTY NegativeIsCaught
