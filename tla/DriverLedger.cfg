\* Two processes, two calls each, against a ceiling of one.
CONSTANTS
  Prompts = {a}
  Empty = Empty
  Altered = Altered
  SessionIds = {s1}
  Person = Person
  Procs = {p1, p2}
  LongPrompts = {}
  Consent = "none"
  MaxRuns = 1
  Window = 0
  MaxDay = 0
  MaxAttempts = 2
  MaxKills = 0
  NoSession = NoSession
SPECIFICATION Spec
SYMMETRY PoolSymmetry
INVARIANT AlteredPromptNeverReturned
PROPERTY LedgerSpec
CHECK_DEADLOCK FALSE
