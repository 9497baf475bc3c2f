\* Two cases, on both backends and with one arm or two.
CONSTANTS
  c1 = c1
  c2 = c2
  tool = tool
  text = text
  sum = sum
  tip = tip
  Suite <- TwoCases
  CaseName <- OneName
  Slug <- NameSlug
  Graders <- CaseGraders
  Checks <- CaseChecks
  WithOnly = {tool}
  Judged = {text}
  Advisory = {tip}
  Label <- OwnLabel
  Weight <- SlotWeight
  Unit = 48
  Threshold = 12
  MaxEntries = 2
  MaxFlaws = 1
  MaxFaults = 1
  Faults = {"unkept", "empty", "unreadable", "unmapped", "unwritten"}
  Nothing = Nothing
SPECIFICATION Spec
INVARIANTS PassIsEarned FailIsExplained ScoresMatchResults
CHECK_DEADLOCK FALSE
