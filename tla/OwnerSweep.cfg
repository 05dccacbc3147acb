SPECIFICATION Spec
CONSTANTS
  Agents = {1, 2, 3, 4}
  Limits <- AskedLimits
  MaxBatch = 2
  MaxSweeps = 6
INVARIANTS TypeOK BoundedWait
