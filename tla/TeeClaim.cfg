\* The same, with the claim of `tee`.
CONSTANTS
  PipeSize = 2
  MaxPrints = 3
  MaxWrites = 2
  MaxBreaks = 1
SPECIFICATION TeeSpec
INVARIANTS EverythingIsLogged

CHECK_DEADLOCK FALSE
