SPECIFICATION Spec
CONSTANTS
  Requests = {r1, r2, r3}
  Ids = {k1, k2}
  LostIds = {k2}
  Burst = 2
  None = None
  Latencies = {1, 2}
  Window = 3
  Earlier <- MCEarlier
  Percent = 95
SYMMETRY Symmetry
CHECK_DEADLOCK FALSE
INVARIANTS
  RefusedLeavesNoTrace
  MetricsReconcile
  PercentileOfRecent
