\* Two invocations and two prunes of one file; a prune may be killed, and nobody is
\* obliged to start.
CONSTANTS
  i1 = i1
  i2 = i2
  Invocations = {i1, i2}
  LongLines = {i2}
  Undated = {i2}
  Pruners = {p1, p2}
  KeepDays = 0
  MaxDay = 1
  MaxVersion = 1
  MaxKills = 1
  Nothing = Nothing
  Docker = Docker
  CoWork = CoWork
  Settings <- TwoSettings
SPECIFICATION PanelSpec
INVARIANTS SerialHistoryIsExact FailuresNeedRace NoHuskLeft RowCountsEveryRecord RowIsMostRecent
PROPERTY AppendsEnd
CHECK_DEADLOCK FALSE
