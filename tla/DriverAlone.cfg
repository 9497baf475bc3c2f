\* One process, two calls on the same prompt, a kill, two days; a step of a call that is under way is scheduled.
CONSTANTS
  Prompts = {a, long}
  Empty = Empty
  Altered = Altered
  SessionIds = {s1, s2}
  Person = Person
  Procs = {p1}
  LongPrompts = {long}
  Consent = "dialog"
  MaxRuns = 1
  Window = 0
  MaxDay = 1
  MaxAttempts = 2
  MaxKills = 1
  NoSession = NoSession
SPECIFICATION FairSpec
INVARIANTS
  RefusalLeavesNothing ConsentBeforeInput SubmissionsAreLogged
  SessionReturnedOnce WrongSessionNeedsOrphan
PROPERTY CallsEnd
CHECK_DEADLOCK FALSE
