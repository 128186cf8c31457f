SPECIFICATION Spec
CONSTANTS
  t1 = t1
  t2 = t2
  u1 = u1
  Tabs = {t1, t2}
  Users = {u1}
  none = none
  LegacyUser = none
  RetiredCap = 2
  MaxOps = 2
  MaxRevision = 2
  MaxEpoch = 1
  MaxSessions = 1
  MaxCalls = 1
  MaxRefusals = 1
  MaxFaults = 1
SYMMETRY TabSymmetry
INVARIANTS
  AuthorityIsSticky
  BankCoversReceipt
PROPERTIES
  LocalHistoryKept
  ReceiptAdvances
