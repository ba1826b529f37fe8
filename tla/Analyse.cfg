\* Two CPUs, one of which runs interrupt handlers, and three threads; the
\* buffer fills anywhere.  A panic ends the analyser.
CONSTANTS
  CPUs = {0, 1}
  IrqCPUs = {0}
  t1 = t1
  t2 = t2
  t3 = t3
  Threads = {t1, t2, t3}
  IRQs = {5}
  Services = {"A"}
  MaxDepth = 2
  MaxGaps = 1
  MaxAstray = 1
SPECIFICATION Spec
CHECK_DEADLOCK FALSE
SYMMETRY ThreadSymmetry
INVARIANTS
  LEUTracked
  StackTracked
  InstancesWhole
  NoPanic
