\* Two CPUs that serve an interrupt each; no thread moves unseen.
CONSTANTS
  CPUs = {0, 1}
  IrqCPUs = {0, 1}
  t1 = t1
  t2 = t2
  t3 = t3
  t4 = t4
  Threads = {t1, t2, t3, t4}
  IRQs = {5, 6}
  Services = {"A"}
  MaxDepth = 4
  MaxGaps = 0
  MaxAstray = 0
SPECIFICATION Spec
CHECK_DEADLOCK FALSE
SYMMETRY ThreadSymmetry
INVARIANTS
  LEUTracked
