\* Three tasks: a semaphore with one permission and one more given from
\* outside, or a completion with an 8-valued x->done.
CONSTANTS
  Tasks = {t1, t2, t3}
  Initial = 1
  MaxExtra = 1
  UINT_MAX = 7
  MaxCompletes = 2
SPECIFICATION KernelSpec
INVARIANTS
  Conserved
  NoBarging
  WakeupsSuffice
PROPERTIES
  DownReturns
  WaitEnds
CHECK_DEADLOCK FALSE
