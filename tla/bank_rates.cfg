SPECIFICATION Spec
CONSTANTS
  u1 = u1
  u2 = u2
  m1 = m1
  m2 = m2
  t1 = t1
  t2 = t2
  pay = pay
  resume = resume
  reset = reset
  snapA = snapA
  snapB = snapB
  NoBank = NoBank
  Users = {u1, u2}
  Mutations = {m1, m2}
  Updates = {}
  Commands = {pay, reset}
  Resets = {reset}
  Resumes = {}
  Snapshots = {snapA}
  MaxOperations = 1
  MaxAttempts = 1
  MaxRows = 4
  MaxCalendar = 0
  MaxMarket = 1
  MaxCrashes = 0
PROPERTIES
  NeverOlder
  RevisionNamesState
  RetrySafe
SYMMETRY
  BankSymmetry
