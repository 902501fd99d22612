CONSTANTS
  Pids = {p1, p2}
  None = None
  MaxTime = 1
  MaxBack = 1
  MaxSpawns = 2
  MaxCpu = 1
  MaxGpu = 2
  MemSizes = {1, 2}
  Limit = 1
SYMMETRY Symmetric
SPECIFICATION Spec
INVARIANT CpuOverInterval
INVARIANT GpuNotInvented
INVARIANT CachesCurrent
INVARIANT SumReconciles
INVARIANT TableFaithful
CHECK_DEADLOCK FALSE
