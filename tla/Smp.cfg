\* Two CPUs, the collector on CPU 1; it may be killed and restarted.
CONSTANTS
  CPUs = {0, 1}
  UsnlCpu = 1
  IrqLevel = 2
  avail_entries = 2
  NumIDs = 1
  Kinds = {"other"}
  Garbage = Garbage
  MaxCalls = 2
  MaxStops = 0
  MaxLost = 0
  ToObtain = 0
  MaxSessions = 2
  MaxKills = 1
  StrayStops = FALSE
SPECIFICATION Spec
INVARIANTS
  TypeOK
  WriteInBounds
  SlotExclusive
  CycleOrder
CHECK_DEADLOCK FALSE
