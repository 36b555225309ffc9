CONSTANTS
  MaxWords = 6
  Paths = {"main.pi", "other"}
  Kinds = {"TO_NONE", "TO_WASM", "TO_BIN"}
SPECIFICATION DriverSpec
INVARIANTS
  CmdTypeOK
  TypeOK
  LinksThisModule
  ZeroIsBuilt
  TemporariesLast
  FailureShows
PROPERTY StopsAtError
