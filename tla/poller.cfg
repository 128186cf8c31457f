SPECIFICATION FairPollerSpec
CONSTANTS
  message = message
  Bodies = {message}
  MaxUpdateAttempts = 2
  ResetAfterDays = 2
  RetentionDays = 1
  QuietDays = 3
  MaxId = 4
  MaxUpdates = 3
  MaxDays = 5
  MaxRestarts = 1
INVARIANTS
  OnlySettledAreConfirmed
  HandledOnce
PROPERTIES
  SettledInOrder
  EveryUpdateSettles
