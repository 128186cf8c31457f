SPECIFICATION FairSpec
CONSTANTS
  u1 = u1
  u2 = u2
  low = low
  high = high
  Bodies = {}
  MaxUpdateAttempts = 2
  ResetAfterDays = 2
  RetentionDays = 1
  QuietDays = 3
  MaxId = 2
  MaxUpdates = 2
  MaxDays = 2
  MaxRestarts = 1
  Users = {u1}
  Amounts = {low}
  FlowTTLDays = 1
  NoBank = NoBank
  NoSession = NoSession
  NoPreview = NoPreview
  MaxMidnights = 0
  NoDay = NoDay
  Kinds <- OnlyCommands
PROPERTIES
  RepliesSettle
