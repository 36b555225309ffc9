CONSTANTS
  MaxWords = 6
  Paths = {"main.pi", "other"}
SPECIFICATION CmdSpec
INVARIANT HelpStops
CHECK_DEADLOCK FALSE
