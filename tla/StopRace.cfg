\* One CPU, one stop of a running session.
CONSTANTS
  CPUs = {0}
  UsnlCpu = 0
  IrqLevel = 2
  avail_entries = 2
  NumIDs = 1
  Kinds = {"other"}
  Garbage = Garbage
  MaxCalls = 5
  MaxStops = 1
  MaxLost = 0
  ToObtain = 0
  MaxSessions = 1
  MaxKills = 0
  StrayStops = FALSE
SPECIFICATION FairSpec
PROPERTIES
  StopCompletes
CHECK_DEADLOCK FALSE
