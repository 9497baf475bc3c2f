CONSTANTS
  Procs = {p1, p2}
  MaxRuns = 1
  Window = 1
  MaxDay = 2
  MaxAttempts = 2
SPECIFICATION Spec
SYMMETRY ProcSymmetry
INVARIANTS CeilingPerProcess
CHECK_DEADLOCK FALSE
