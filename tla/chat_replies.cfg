SPECIFICATION Spec
CONSTANTS
  u1 = u1
  u2 = u2
  low = low
  high = high
  Bodies = {}
  MaxUpdateAttempts = 1
  ResetAfterDays = 2
  RetentionDays = 1
  QuietDays = 3
  MaxId = 4
  MaxUpdates = 4
  MaxDays = 1
  MaxRestarts = 1
  Users = {u1}
  Amounts = {low, high}
  FlowTTLDays = 1
  NoBank = NoBank
  NoSession = NoSession
  NoPreview = NoPreview
  MaxMidnights = 1
  NoDay = NoDay
  Kinds <- OpenedReviewedConfirmed
INVARIANTS
  ChatTypeOK
  RepliesHavePurpose
  SessionIsPrompted
  OncePerReview
  ConfirmedAsShown
SYMMETRY
  AmountSymmetry
