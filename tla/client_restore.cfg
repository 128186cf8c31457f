SPECIFICATION Spec
CONSTANTS
  t1 = t1
  t2 = t2
  u1 = u1
  Tabs = {t1, t2}
  Users = {u1}
  none = none
  LegacyUser = none
  RetiredCap = 2
  MaxOps = 2
  MaxRevision = 3
  MaxEpoch = 2
  MaxSessions = 1
  MaxCalls = 1
  MaxRefusals = 0
  MaxFaults = 0
SYMMETRY TabSymmetry
PROPERTIES
  GenerationsAdvance
