SPECIFICATION ToolsFairSpec
CONSTANTS
  Session = {s1}
  NoSession = none
  MaxCommands = 3
  Pieces = 2
  Mistaken <- EndsInCommand
  MaxFailures = 2
INVARIANTS ToolsInv
PROPERTIES Answered NothingLeft
CHECK_DEADLOCK FALSE
