\* Every text of up to five characters over each alphabet, every type of up to three lists
\* inside one another.
CONSTANTS
  Length = 5
  Depth = 3
  Texts <- MCTexts
SPECIFICATION MCSpec
INVARIANTS
  TypeOK
  StaysInside
  LocationOK
  ReadAlone
  ReadAsWritten
  RejectedOnlyIfDeep
PROPERTIES
  Tiles
