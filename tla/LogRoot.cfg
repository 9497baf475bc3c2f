\* Two sweeps and a prune, over what an earlier sweep may have left.
CONSTANTS
  s1 = s1
  s2 = s2
  p1 = p1
  Sweeps = {s1, s2}
  Prunes = {p1}
  RunPruneDays = 1
  OlderThan = {0}
  MaxNow = 2
  MaxKills = 1
  None = None
SPECIFICATION Spec
INVARIANTS RunsLeaveRunsAlone FailuresNeedRace LatestIsNeverAbsent LatestIsRepaired
SYMMETRY Symmetry
CHECK_DEADLOCK FALSE
