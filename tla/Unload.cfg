\* As a module, on two CPUs, with a tracepoint that is never unregistered; or
\* four requests for three slots; or two tasklets.
CONSTANTS
  CPUs = {0, 1}
  MCPU = 1
  Tracepoints = {"srventry", "tempsynch"}
  Unpaired = {"tempsynch"}
  Modular = TRUE
  MAX_PROBES = 3
  Addrs = {1, 2}
  Writers = {"w"}
  MaxRequests = 4
  Tasklets = {a, b}
  MaxCalls = 4
SPECIFICATION UnloadSpec
INVARIANTS
  BufferLive
  TextUnused
  LoopInTable
  NoneLeftArmed
  Exclusive
  KilledGone
PROPERTIES
  ScheduledRuns
CHECK_DEADLOCK FALSE
