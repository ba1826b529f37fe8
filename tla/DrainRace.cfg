\* One CPU, no stops: the buffer fills while a request is being answered.
CONSTANTS
  CPUs = {0}
  UsnlCpu = 0
  IrqLevel = 2
  avail_entries = 2
  NumIDs = 1
  Kinds = {"other"}
  Garbage = Garbage
  MaxCalls = 4
  MaxStops = 0
  MaxLost = 0
  ToObtain = 0
  MaxSessions = 2
  MaxKills = 0
  StrayStops = FALSE
SPECIFICATION FairSpec
PROPERTIES
  DrainedBeforeSync
CHECK_DEADLOCK FALSE
