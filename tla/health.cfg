CONSTANTS
  r1 = r1  r2 = r2  v1 = v1
  Recorders = {r1, r2}
  Readers = {v1}
  Latencies = {1, 2}
  MaxCounted = 40
  Window = 3
  MaxRecords = 4
  MaxFaults = 1
SPECIFICATION Spec
CHECK_DEADLOCK FALSE
SYMMETRY Pipelines
INVARIANT RateIsProper
PROPERTIES P95IsQuantile FreshSamplesKept
