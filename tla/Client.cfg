\* One CPU; stops at any time, kills, lost messages.
CONSTANTS
  CPUs = {0}
  UsnlCpu = 0
  IrqLevel = 2
  avail_entries = 2
  NumIDs = 1
  Kinds = {"other"}
  Garbage = Garbage
  MaxCalls = 5
  MaxStops = 1
  MaxLost = 1
  ToObtain = 0
  MaxSessions = 2
  MaxKills = 1
  StrayStops = TRUE
SPECIFICATION Spec
INVARIANTS
  RequestAnswered
CHECK_DEADLOCK FALSE
