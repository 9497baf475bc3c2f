\* A deadline of four polls, quiescence after two.
CONSTANTS
  IdleSeconds = 2
  RunTimeout = 4
  PollSeconds = 1
  MaxNow = 6
  MaxWrites = 3
  Never = Never
SPECIFICATION WaitFairSpec
INVARIANTS QuietAsSigned CompletionIsSeen
PROPERTY WaitEnds
CHECK_DEADLOCK FALSE
