\* Symbols at 2 and 4, 8 is too far above both; or three experiments, with
\* traffic from the phone.
CONSTANTS
  other = other
  Words = {3, 5, 8, other}
  Text = {other}
  symbolTable = {2, 4}
  MAX_DIST = 3
  Capacity = 1
  MaxLines = 3
  MaxWords = 2
  Runs = 3
  Polls = 3
  PhoneRate = TRUE
SPECIFICATION ToolsSpec
INVARIANTS
  PrintedFaithful
  OneUsnl
  PulledWhole
PROPERTIES
  ToolsEnd
CHECK_DEADLOCK FALSE
