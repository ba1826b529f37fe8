\* Two CPUs, the collector on CPU 0, no stops.
CONSTANTS
  CPUs = {0, 1}
  UsnlCpu = 0
  IrqLevel = 2
  avail_entries = 2
  NumIDs = 0
  Kinds = {"other"}
  Garbage = Garbage
  MaxCalls = 3
  MaxStops = 0
  MaxLost = 0
  ToObtain = 0
  MaxSessions = 1
  MaxKills = 0
  StrayStops = FALSE
SPECIFICATION Spec
INVARIANTS
  NoLostWakeup
CHECK_DEADLOCK FALSE
