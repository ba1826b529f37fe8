\* One CPU, no stops: sessions end once the service was sampled.
CONSTANTS
  CPUs = {0}
  UsnlCpu = 0
  IrqLevel = 2
  avail_entries = 2
  NumIDs = 1
  Kinds = {"entry", "exit"}
  Garbage = Garbage
  MaxCalls = 10
  MaxStops = 0
  MaxLost = 0
  ToObtain = 1
  MaxSessions = 2
  MaxKills = 0
  StrayStops = FALSE
SPECIFICATION FairSpec
INVARIANTS
  NoLostWakeup
  FileFaithful
  OnlyMatchedExitsCounted
PROPERTIES
  DrainRounds
  FullBufferDrained
CHECK_DEADLOCK FALSE
