\* A counter of five values; instances of up to six lines; two transfers;
\* two queues with two extractors, probed on two CPUs; two packets and a counter
\* of three values.
CONSTANTS
  Wrap = 5
  MaxElapsed = 16
  MaxEntries = 6
  Steps = {1, 3}
  MaxOps = 2
  MaxOther = 3
  MaxGaps = 1
  CPUs = {0, 1}
  Queues = {1, 2}
  MAX_EXTRACTORS = 2
  MaxPackets = 3
  MaxInterrupts = 2
  Threads = {1, 2, 3}
  migrate_pid = 1
  Packets = {1, 2}
  W = 3
  MaxTime = 10
SPECIFICATION MeasureSpec
INVARIANTS
  CyclesFollow
  DurationsAligned
  OwnTimeCharged
  PeuExact
  UsersOwn
  OneMark
  Extracted
  DelayExact
PROPERTIES
  CyclesGrow
CHECK_DEADLOCK FALSE
