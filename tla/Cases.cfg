\* A repository of two plugins, one case at a time, and one or two graders at a time.
CONSTANTS
  Dirs = {"repo","plugin","evals","skill","c","sub","results","other","evals2"}
  Top = "repo"
  Parent <- Up
  Plugins = {"plugin","other"}
  Evals = {"evals","evals2"}
  Pruned = {"results"}
  Fronts <- SomeFronts
  Yamls <- SomeYamls
  Layers = {"suite","case"}
  Suites <- SomeSuites
  Sessions <- SomeSessions
  VoteCounts = {1, 2, 3}
  DoubleStar = DoubleStar
  Malformed = Malformed
  Absent = Absent
SPECIFICATION MCSpec
INVARIANTS ValidatedIsSelected ValidIsPortable VotesDecide GradersAreExact
CHECK_DEADLOCK FALSE
