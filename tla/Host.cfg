\* Two processes, each any number of invocations under one of the configurations.
CONSTANTS
  Procs = {p, q}
  Configs = {"ours","theirs","mine"}
  Route <- SomeRoutes
  Scenarios <- SomeScenarios
SPECIFICATION Spec
SYMMETRY Symmetry
INVARIANTS ImagesAreKept LoginIsKept
