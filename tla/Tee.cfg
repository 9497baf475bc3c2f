\* Three pieces of a sweep and two of its child, through a pipe of two.
CONSTANTS
  PipeSize = 2
  MaxPrints = 3
  MaxWrites = 2
  MaxBreaks = 1
SPECIFICATION TeeFairSpec
INVARIANTS LogIsComplete LogKeepsUp
PROPERTIES TeeEnds
CHECK_DEADLOCK FALSE
