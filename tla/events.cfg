SPECIFICATION FairSpec
CONSTANTS
  None = None
  Events = {e1, e2}
  Subjects = {s1}
  Jobs = {j1}
  Filters <- MCFilters
  Asked <- MCLimits
  DefaultLimit = 1
  MaxLimit = 2
  Width = 8
  CompletedRetention = 1
  FailedRetention = 2
  MaxRetries = 1
  Horizon = 1
  MaxTime = 4
INVARIANTS
  PollerMissesNothing
  PollsAreAnswered
PROPERTIES
  RetentionKept
  OldEventsGo
