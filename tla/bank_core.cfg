SPECIFICATION FairSpec
CONSTANTS
  u1 = u1
  u2 = u2
  m1 = m1
  m2 = m2
  t1 = t1
  t2 = t2
  pay = pay
  resume = resume
  reset = reset
  snapA = snapA
  snapB = snapB
  NoBank = NoBank
  Users = {u1}
  Mutations = {m1}
  Updates = {t1}
  Commands = {resume, reset}
  Resets = {reset}
  Resumes = {resume}
  Snapshots = {snapA}
  MaxOperations = 1
  MaxAttempts = 1
  MaxRows = 3
  MaxCalendar = 1
  MaxMarket = 0
  MaxCrashes = 1
INVARIANTS
  TypeOK
  UniqueKeys
  RowsFollowRevisions
  AnswersStand
  OutcomesMatchLedger
  NoNoticeLost
  RoomIsMade
PROPERTIES
  EveryNoticeSettles
