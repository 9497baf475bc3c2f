\* Two plugins of one name in containers, or one on CoWork beside another process.
CONSTANTS
  mail = mail
  post = post
  acme = acme
  c1 = c1
  c2 = c2
  Backends = {"docker", "cowork"}
  TargetsOn <- Trees
  NameOf <- OneName
  Cases = {c1, c2}
  PluginOn <- CasesOf
  Checked = {c1}
  Runs = 2
  MaxRuns = 4
  CostCeiling = 1
  MaxCost = 1
  FaultsOn <- ManyFaults
  TreeFaults = {"improper", "mistyped", "timeless"}
  MaxOthers = 1
  MaxEdits = 1
  Nothing = Nothing
SPECIFICATION FairSpec
INVARIANTS GreenMeansGreen RefusalLeavesNothing RecordsAreEarned RedIsExplained SpendIsBounded
PROPERTIES Ends
CHECK_DEADLOCK FALSE
