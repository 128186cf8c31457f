SPECIFICATION FairSpec
CONSTANTS
  t1 = t1
  u1 = u1
  u2 = u2
  Tabs = {t1}
  Users = {u1, u2}
  none = none
  LegacyUser = u1
  RetiredCap = 2
  MaxOps = 2
  MaxRevision = 3
  MaxEpoch = 2
  MaxSessions = 2
  MaxCalls = 2
  MaxRefusals = 0
  MaxFaults = 0
INVARIANTS
  NamespacesIsolated
PROPERTIES
  AnswersStayShown
  Converges
